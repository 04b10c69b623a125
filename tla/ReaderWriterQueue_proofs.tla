----------------------- MODULE ReaderWriterQueue_proofs -----------------------
(***************************************************************************)
(* Theorems about ReaderWriterQueue, for every size, block size and number *)
(* of blocks.  The invariant says where the blocks are (one ring, of which *)
(* the blocks in use are a stretch from front to tail), how the indices of *)
(* a block follow one another, what each thread has found out at each step *)
(* of its call, which slots hold an element, and that the elements, block  *)
(* after block and slot after slot, are numbered one after the other.      *)
(* A second invariant counts the elements, for what is refused and what is *)
(* counted: with it the ring is shown to implement the abstract queue.     *)
(***************************************************************************)
EXTENDS ReaderWriterQueueMapping, WellFoundedInduction, SequenceTheorems, FiniteSetTheorems,
        FunctionTheorems, TLAPS

USE RWQAssumption

-----------------------------------------------------------------------------
(* Induction, by the least number *)

(* A set of numbers has a least one.                                        *)
LEMMA LeastNumber ==
    ASSUME NEW S, S \subseteq Nat, S # {}
    PROVE  \E y \in S : \A z \in S : y <= z
<1> DEFINE R == {p \in Nat \X Nat : p[1] < p[2]}
<1>1. IsWellFoundedOn(R, Nat)
  BY NatLessThanWellFounded DEF OpToRel
<1>2. \A x, z \in Nat : x < z => <<x, z>> \in R
  OBVIOUS
<1> HIDE DEF R
<1>3. PICK y \in S : \A z \in S : ~(<<z, y>> \in R)
  BY <1>1, WFMin
<1>4. \A z \in S : ~(z < y)
  BY <1>2, <1>3
<1> QED
  BY <1>4

(* What is in S for 0 and goes from n to n + 1 is in S for every number.    *)
LEMMA Induction ==
    ASSUME NEW S, 0 \in S, \A n \in Nat : n \in S => n + 1 \in S
    PROVE  Nat \subseteq S
<1> SUFFICES ASSUME Nat \ S # {} PROVE FALSE
  OBVIOUS
<1>1. PICK y \in Nat \ S : \A z \in Nat \ S : y <= z
  BY LeastNumber
<1>2. y # 0 /\ y - 1 \in Nat /\ ~(y <= y - 1) /\ (y - 1) + 1 = y
  BY <1>1, SMT
<1>3. y - 1 \in S
  BY <1>1, <1>2
<1> QED
  BY <1>1, <1>2, <1>3

(* A function can be applied again and again. *)
Iterates(h, S, a, g) == h \in [Nat -> S] /\ h[0] = a /\ \A n \in Nat : h[n + 1] = g[h[n]]

(* What is applied again and again is a function of the number of times.    *)
LEMMA Iteration ==
    ASSUME NEW S, NEW a \in S, NEW g \in [S -> S]
    PROVE  \E h : Iterates(h, S, a, g)
<1> DEFINE Begins(f, n) == f \in [0..n -> S] /\ f[0] = a /\ \A k \in 0..(n - 1) : f[k + 1] = g[f[k]]
<1> DEFINE Good == {n \in Nat : \E f : Begins(f, n)}
<1>1. 0 \in Good
  <2>1. Begins([k \in 0..0 |-> a], 0)
    OBVIOUS
  <2> QED
    BY <2>1
<1>2. \A n \in Nat : n \in Good => n + 1 \in Good
  <2> SUFFICES ASSUME NEW n \in Nat, NEW f, Begins(f, n) PROVE \E e : Begins(e, n + 1)
    OBVIOUS
  <2> DEFINE e == [k \in 0..(n + 1) |-> IF k <= n THEN f[k] ELSE g[f[n]]]
  <2>1. f[n] \in S /\ \A k \in 0..n : f[k] \in S
    OBVIOUS
  <2>2. e \in [0..(n + 1) -> S]
    BY <2>1
  <2>3. e[0] = a
    OBVIOUS
  <2>4. \A k \in 0..((n + 1) - 1) : e[k + 1] = g[e[k]]
    <3> SUFFICES ASSUME NEW k \in 0..n PROVE e[k + 1] = g[e[k]]
      BY SMT
    <3>1. e[k] = f[k] /\ k \in 0..(n + 1) /\ k + 1 \in 0..(n + 1)
      OBVIOUS
    <3>2. CASE k = n
      <4>1. e[k + 1] = g[f[n]]
        BY <3>1, <3>2
      <4> QED
        BY <3>1, <3>2, <4>1
    <3>3. CASE k # n
      <4>1. k \in 0..(n - 1) /\ k + 1 <= n
        BY <3>3
      <4>2. e[k + 1] = f[k + 1]
        BY <3>1, <4>1
      <4> QED
        BY <3>1, <4>1, <4>2
    <3> QED
      BY <3>2, <3>3
  <2> HIDE DEF e
  <2> QED
    BY <2>2, <2>3, <2>4
<1>3. \A n \in Nat : \E f : Begins(f, n)
  BY <1>1, <1>2, Induction
<1> DEFINE path(n) == CHOOSE f : Begins(f, n)
<1>4. \A n \in Nat : Begins(path(n), n)
  BY <1>3
<1> HIDE DEF path
<1>5. \A m \in Nat : \A n \in Nat : n <= m => path(n)[n] = path(m)[n]
  <2> SUFFICES ASSUME NEW m \in Nat
               PROVE  \A n \in Nat : n <= m => path(n)[n] = path(m)[n]
    OBVIOUS
  <2> DEFINE Same == {n \in Nat : \A l \in Nat : n <= l => path(l)[n] = path(n)[n]}
  <2>1. 0 \in Same
    BY <1>4
  <2>2. \A n \in Nat : n \in Same => n + 1 \in Same
    <3> SUFFICES ASSUME NEW n \in Nat, \A l \in Nat : n <= l => path(l)[n] = path(n)[n],
                        NEW l \in Nat, n + 1 <= l
                 PROVE  path(l)[n + 1] = path(n + 1)[n + 1]
      BY SMT
    <3>1. path(l)[n + 1] = g[path(l)[n]]
      BY <1>4, SMT
    <3>2. path(n + 1)[n + 1] = g[path(n + 1)[n]]
      BY <1>4, SMT
    <3>3. path(l)[n] = path(n)[n] /\ path(n + 1)[n] = path(n)[n]
      BY SMT
    <3> QED
      BY <3>1, <3>2, <3>3
  <2>3. Nat \subseteq Same
    BY <2>1, <2>2, Induction
  <2> QED
    BY <2>3
<1> DEFINE h == [n \in Nat |-> path(n)[n]]
<1>6. h \in [Nat -> S]
  <2>1. \A n \in Nat : path(n)[n] \in S
    <3> SUFFICES ASSUME NEW n \in Nat PROVE path(n)[n] \in S
      OBVIOUS
    <3>1. path(n) \in [0..n -> S] /\ n \in 0..n
      BY <1>4
    <3> QED
      BY <3>1
  <2> QED
    BY <2>1
<1>7. h[0] = a
  BY <1>4
<1>8. \A n \in Nat : h[n + 1] = g[h[n]]
  <2> SUFFICES ASSUME NEW n \in Nat PROVE h[n + 1] = g[h[n]]
    OBVIOUS
  <2>1. h[n] = path(n)[n] /\ h[n + 1] = path(n + 1)[n + 1]
    OBVIOUS
  <2>2. path(n)[n] = path(n + 1)[n]
    BY <1>5
  <2>3. path(n + 1)[n + 1] = g[path(n + 1)[n]]
    BY <1>4
  <2> QED
    BY <2>1, <2>2, <2>3
<1> QED
  BY <1>6, <1>7, <1>8 DEF Iterates

-----------------------------------------------------------------------------
(* Construction *)

(* Power, which is written by recursion, holds the powers of two.           *)
LEMMA PowerDef ==
    /\ Power[0] = 1
    /\ \A k \in Nat : Power[k] \in Nat /\ Power[k + 1] = 2 * Power[k] /\ Power[k] > k
<1> DEFINE g == [x \in Nat |-> 2 * x]
<1>1. g \in [Nat -> Nat] /\ 1 \in Nat
  OBVIOUS
<1>2. PICK h : Iterates(h, Nat, 1, g)
  <2> HIDE DEF g
  <2> QED
    BY <1>1, Iteration, Zenon
<1>3. h = [k \in Nat |-> IF k = 0 THEN 1 ELSE 2 * h[k - 1]]
  <2>1. ASSUME NEW k \in Nat PROVE h[k] = IF k = 0 THEN 1 ELSE 2 * h[k - 1]
    <3>1. CASE k = 0
      BY <1>2, <3>1 DEF Iterates
    <3>2. CASE k # 0
      <4>1. k - 1 \in Nat /\ (k - 1) + 1 = k
        BY <3>2, SMT
      <4>2. h[(k - 1) + 1] = g[h[k - 1]] /\ h[k - 1] \in Nat
        BY <1>2, <4>1 DEF Iterates
      <4> QED
        BY <3>2, <4>1, <4>2
    <3> QED
      BY <3>1, <3>2
  <2> HIDE DEF g
  <2> QED
    BY <1>2, <2>1 DEF Iterates
<1>4. Power = [k \in Nat |-> IF k = 0 THEN 1 ELSE 2 * Power[k - 1]]
  BY <1>3, Zenon DEF Power
<1>5. Power[0] = 1
  BY <1>4
<1>6. \A k \in Nat : Power[k + 1] = 2 * Power[k]
  <2> SUFFICES ASSUME NEW k \in Nat PROVE Power[k + 1] = 2 * Power[k]
    OBVIOUS
  <2>1. k + 1 \in Nat /\ k + 1 # 0 /\ (k + 1) - 1 = k
    BY SMT
  <2>2. Power[k + 1] = 2 * Power[(k + 1) - 1]
    BY <1>4, <2>1, Zenon
  <2> QED
    BY <2>1, <2>2
<1> DEFINE S == {k \in Nat : Power[k] \in Nat /\ Power[k] > k}
<1>7. Nat \subseteq S
  <2>1. 0 \in S
    BY <1>5
  <2>2. \A k \in Nat : k \in S => k + 1 \in S
    BY <1>6, SMT
  <2> QED
    BY <2>1, <2>2, Induction
<1> QED
  BY <1>5, <1>6, <1>7

(* A power of two above the size exists. *)
LEMMA Rounded ==
    ASSUME NEW x \in Nat
    PROVE  CeilToPow2(x) \in Nat /\ CeilToPow2(x) >= x
<1> DEFINE S == {p \in {Power[k] : k \in 0..x} : p >= x}
<1>1. \A k \in 0..x : Power[k] \in Nat
  BY PowerDef
<1>2. Power[x] \in S
  <2>1. Power[x] \in Nat /\ Power[x] > x /\ x \in 0..x
    BY PowerDef
  <2>2. Power[x] >= x
    BY <2>1, SMT
  <2> QED
    BY <2>1, <2>2
<1>3. S \subseteq Nat
  BY <1>1
<1>4. PICK y \in S : \A z \in S : y <= z
  BY <1>2, <1>3, LeastNumber
<1>5. \E p \in {Power[k] : k \in 0..x} : p >= x /\ \A k \in 0..x : Power[k] >= x => p <= Power[k]
  BY <1>4
<1> QED
  BY <1>1, <1>5 DEF CeilToPow2

(* The first blocks have two slots or more, and there is one or more.       *)
LEMMA Sizes ==
    ASSUME conf \in Configurations
    PROVE  /\ InitialBlockSize \in Nat /\ InitialBlockSize >= 2
           /\ InitialBlockCount \in Nat /\ InitialBlockCount >= 1
           /\ MaxBlockSize \in Nat /\ MaxBlockSize >= 2
<1>1. Size \in Nat \ {0} /\ MaxBlockSize \in Nat /\ MaxBlockSize >= 2
  BY DEF Size, MaxBlockSize
<1>2. Size + 1 \in Nat /\ Size + 1 >= 2
  BY <1>1, SMT
<1>3. CeilToPow2(Size + 1) \in Nat /\ CeilToPow2(Size + 1) >= Size + 1
  BY <1>2, Rounded
<1>4. InitialBlockSize \in Nat /\ InitialBlockSize >= 2
  <2> HIDE DEF Size, MaxBlockSize
  <2> QED
    BY <1>1, <1>2, <1>3, SMT DEF InitialBlockSize
<1>5. InitialBlockCount \in Nat /\ InitialBlockCount >= 1
  <2>1. CASE SeveralBlocks
    <3> DEFINE m == MaxBlockSize - 1
    <3> DEFINE q == Size + MaxBlockSize * 2 - 3
    <3>1. m \in Nat \ {0} /\ q \in Nat /\ q >= m
      BY <1>1, SMT
    <3> HIDE DEF m, q
    <3>2. q \div m \in Nat /\ q \div m >= 1
      <4>1. q \div m \in Int /\ (q \div m) * m <= q /\ q < (q \div m) * m + m
        BY <3>1, SMT
      <4>2. ~(q \div m <= 0)
        <5> SUFFICES ASSUME q \div m <= 0 PROVE FALSE
          OBVIOUS
        <5>1. (q \div m) * m <= 0
          BY <3>1, <4>1, SMT
        <5>2. (q \div m) * m \in Int
          BY <3>1, <4>1, SMT
        <5> QED
          BY <3>1, <4>1, <5>1, <5>2, SMT
      <4> QED
        BY <4>1, <4>2, SMT
    <3> QED
      BY <2>1, <3>2 DEF InitialBlockCount, m, q
  <2> QED
    BY <2>1 DEF InitialBlockCount
<1> QED
  BY <1>1, <1>4, <1>5

-----------------------------------------------------------------------------
(* The inductive invariant *)

(* The array of a block, of whatever size. *)
DataArray == UNION {[0..(n - 1) -> Nat] : n \in Nat}

BlockRec == [front : Nat, localTail : Nat, tail : Nat, localFront : Nat, next : Nat, size : Nat,
             data : DataArray]

WalkRec == [start : Nat, at : Nat, front : Int, sum : Int]

(* Every block is of its type, and has a slot to leave unused. *)
BlocksTyped ==
    /\ block \in Seq(BlockRec) /\ block # <<>>
    /\ \A b \in Blocks : BlockType(block[b]) /\ block[b].size >= 2

ProducerLabels == {"idle", "loadFront", "construct", "publish", "checkNext",
                   "useNext", "constructNext", "advanceTail", "advanceBlock",
                   "makeBlock", "link", "sizeFront", "sizeTail", "sizeNext"}

ConsumerLabels == {"idle", "loadTail", "loadTailBlock", "recheck", "loadNext",
                   "loadNextTail", "moveFront", "read", "release",
                   "sizeFront", "sizeTail", "sizeNext"}

Label == ProducerLabels \cup ConsumerLabels

(* TypeOK, and the sets of records the stores work in. *)
Types ==
    /\ TypeOK /\ BlocksTyped
    /\ pc \in [Thread -> Label] /\ walk \in [Thread -> WalkRec]
    /\ largestBlockSize >= 2

(* The block at the end of the list that is not in the ring yet, or whose   *)
(* first element has not been enqueued yet.                                 *)
Pending == IF At("producer", "link") THEN {Len(block)}
           ELSE IF At("producer", "advanceBlock") THEN {block[tailBlock].next}
           ELSE {}

Empty(b) == block[b].front = block[b].tail

(* The blocks from the front block to the tail block. *)
InUse == {frontBlock} \cup ({b \in Blocks : ~Empty(b)} \ Pending)

(* The linked blocks are one ring: each has one block before it and no part *)
(* of the ring is closed in itself; those in use are a stretch of it, from   *)
(* the front block to the tail block.                                       *)
Ring ==
    /\ \A b \in Linked : block[b].next \in Linked
    /\ \A a, b \in Linked : block[a].next = block[b].next => a = b
    /\ \A S \in SUBSET Linked : S # {} /\ (\A b \in S : block[b].next \in S) => S = Linked
    /\ InUse \subseteq Linked /\ tailBlock \in InUse
    /\ \A b \in InUse \ {tailBlock} : block[b].next \in InUse \ {frontBlock}
    /\ \A b \in InUse \ {frontBlock} : \E a \in InUse \ {tailBlock} : block[a].next = b
    /\ block[tailBlock].next \notin InUse \ {frontBlock}

(* From a to b, round the buffer. *)
Between(a, x, b) == IF a <= b THEN a <= x /\ x <= b ELSE a <= x \/ x <= b

(* A thread's copy of the other thread's index is behind it, not beyond.    *)
Order ==
    \A b \in Blocks : /\ Between(block[b].localFront, block[b].front, block[b].tail)
                      /\ Between(block[b].front, block[b].localTail, block[b].tail)

(* The block after the tail block is one the consumer has done with. *)
NextIsFree == LET n == block[tailBlock].next
              IN  n # frontBlock /\ n \notin InUse /\ n \in Linked

(* What the producer knows at each step of inner_enqueue. *)
ProducerAt ==
    /\ pc["producer"] \in {"construct", "publish"} => NextTail # block[tailBlock].localFront
    /\ At("producer", "publish") => block[tailBlock].data[block[tailBlock].tail] = sent + 1
    /\ pc["producer"] \in {"useNext", "constructNext", "advanceTail", "advanceBlock"} => NextIsFree
    /\ pc["producer"] \in {"constructNext", "advanceTail"} =>
          NextOfTail.localFront = NextOfTail.front /\ NextOfTail.front = NextOfTail.tail
    /\ At("producer", "advanceTail") => NextOfTail.data[NextOfTail.tail] = sent + 1
    /\ At("producer", "advanceBlock") =>
          /\ NextOfTail.data[NextOfTail.front] = sent + 1
          /\ Advance(NextOfTail.front, block[tailBlock].next) = NextOfTail.tail
    /\ At("producer", "link") =>
          LET r == block[Len(block)]
          IN  /\ r.front = 0 /\ r.tail = 1 /\ r.localTail = 1 /\ r.localFront = 0
              /\ r.next = block[tailBlock].next /\ r.data[0] = sent + 1

(* The consumer has found the front block empty, and the tail elsewhere. *)
FrontDone == frontBlock # tailBlock /\ Empty(frontBlock)

(* The consumer knows of an element in b. *)
HasOne(b) == block[b].front # block[b].localTail

(* What the consumer knows at each step of try_dequeue, pop and peek. *)
ConsumerAt ==
    /\ readBlock \in Linked
    /\ At("consumer", "recheck") => frontBlock # tailBlock
    /\ At("consumer", "loadNext") => FrontDone
    /\ pc["consumer"] \in {"loadNextTail", "moveFront"} => FrontDone /\ readBlock = block[frontBlock].next
    /\ pc["consumer"] \in {"loadTail", "loadTailBlock", "recheck"} => readBlock = frontBlock
    /\ At("consumer", "moveFront") => op = "dequeue" /\ HasOne(readBlock)
    /\ At("consumer", "read") =>
          \/ readBlock = frontBlock /\ HasOne(frontBlock)
          \/ op = "peek" /\ FrontDone /\ readBlock = block[frontBlock].next
    /\ At("consumer", "release") => readBlock = frontBlock /\ HasOne(frontBlock)

(* The slot of an element that is constructed and not published yet.         *)
Made == IF At("producer", "publish") THEN {<<tailBlock, block[tailBlock].tail>>}
        ELSE IF At("producer", "advanceTail") THEN {<<block[tailBlock].next, NextOfTail.tail>>}
        ELSE {}

(* The slot of an element that is moved out and not released yet. *)
Moved == IF At("consumer", "release") THEN {<<readBlock, block[readBlock].front>>} ELSE {}

(* A slot holds an element exactly when it is occupied, but for what is in a *)
(* thread's hands.                                                          *)
Filled ==
    \A b \in Blocks : \A i \in 0..(block[b].size - 1) :
        block[b].data[i] # Raw <=> (i \in Occupied(b) /\ <<b, i>> \notin Moved) \/ <<b, i>> \in Made

(* The element of a slot, or the one just moved out of it. *)
Val(b, i) == IF <<b, i>> \in Moved THEN elem ELSE block[b].data[i]

LastSlot(b) == IF block[b].tail = 0 THEN block[b].size - 1 ELSE block[b].tail - 1

First(b) == Val(b, block[b].front)
Latest(b) == Val(b, LastSlot(b))

(* Within a block the elements are numbered one after the other ... *)
Inside ==
    \A b \in Blocks : \A i, j \in Occupied(b) : j = Advance(i, b) => Val(b, j) = Val(b, i) + 1

(* ... and so they are from block to block, from the one to be taken next to *)
(* the one enqueued last.                                                   *)
Chain ==
    /\ ~Empty(frontBlock) => First(frontBlock) = taken + 1
    /\ \A b \in InUse \ {tailBlock} :
          First(block[b].next) = IF Empty(b) THEN taken + 1 ELSE Latest(b) + 1
    /\ sent = IF Empty(tailBlock) THEN taken ELSE Latest(tailBlock)

IInv == Types /\ Ring /\ Order /\ ProducerAt /\ ConsumerAt /\ Filled /\ Inside /\ Chain

-----------------------------------------------------------------------------
(* One store into one block *)

SameFront == \A b \in Blocks : block'[b].front = block[b].front
SameLocalTail == \A b \in Blocks : block'[b].localTail = block[b].localTail
SameTail == \A b \in Blocks : block'[b].tail = block[b].tail
SameLocalFront == \A b \in Blocks : block'[b].localFront = block[b].localFront
SameNext == \A b \in Blocks : block'[b].next = block[b].next
SameSize == \A b \in Blocks : block'[b].size = block[b].size
SameData == \A b \in Blocks : block'[b].data = block[b].data

(* What is in a block. *)
LEMMA BlockFacts ==
    ASSUME BlocksTyped, NEW b \in Blocks
    PROVE  /\ Len(block) \in Nat \ {0} /\ Blocks = 1..Len(block) /\ b \in Nat
           /\ block[b] \in BlockRec
           /\ block[b].size \in Nat /\ block[b].size >= 2
           /\ block[b].front \in 0..(block[b].size - 1) /\ block[b].tail \in 0..(block[b].size - 1)
           /\ block[b].localFront \in 0..(block[b].size - 1) /\ block[b].localTail \in 0..(block[b].size - 1)
           /\ block[b].next \in Blocks
           /\ block[b].data \in [0..(block[b].size - 1) -> Nat]
<1>1. block \in Seq(BlockRec) /\ block # <<>> /\ BlockType(block[b]) /\ block[b].size >= 2
  BY DEF BlocksTyped
<1>2. Len(block) \in Nat /\ Len(block) # 0
  BY <1>1, LenProperties, EmptySeq
<1>3. block[b] \in BlockRec
  BY <1>1, ElementOfSeq DEF Blocks
<1>4. Blocks = 1..Len(block) /\ b \in Nat
  BY DEF Blocks
<1> QED
  BY <1>1, <1>2, <1>3, <1>4 DEF BlockType

(* A block is replaced by another with an array as large. *)
LEMMA Replaced ==
    ASSUME BlocksTyped, NEW x \in Blocks, NEW r \in BlockRec, BlockType(r), r.size >= 2,
           block' = [block EXCEPT ![x] = r]
    PROVE  /\ Len(block') = Len(block) /\ Blocks' = Blocks /\ BlocksTyped'
           /\ \A b \in Blocks : block'[b] = IF b = x THEN r ELSE block[b]
<1>1. block \in Seq(BlockRec) /\ block # <<>> /\ Len(block) \in Nat
  BY LenProperties DEF BlocksTyped
<1>2. x \in 1..Len(block)
  BY DEF Blocks
<1>3. block' \in Seq(BlockRec) /\ Len(block') = Len(block)
  BY <1>1, <1>2, ExceptSeq
<1>4. \A b \in Blocks : block'[b] = IF b = x THEN r ELSE block[b]
  BY <1>1, LenProperties DEF Blocks
<1>5. Blocks' = Blocks
  BY <1>3 DEF Blocks
<1>6. block' # <<>>
  <2>1. Len(block') # 0
    BY <1>2, <1>3, <1>1, SMT
  <2> QED
    BY <2>1, EmptySeq
<1>7. ASSUME NEW b \in Blocks PROVE BlockType(block[b])' /\ block'[b].size >= 2
  <2>1. BlockType(block[b]) /\ block[b].size >= 2 /\ block'[b] = IF b = x THEN r ELSE block[b]
    BY <1>4 DEF BlocksTyped
  <2>2. b # x => BlockType(block[b])'
    BY <1>5, <2>1 DEF BlockType
  <2>3. b = x => BlockType(block[b])'
    <3>1. \A e : BlockType(e)' <=> BlockType(e)
      BY <1>5 DEF BlockType
    <3>2. b = x => block'[b] = r
      BY <2>1
    <3> QED
      BY <1>5, <3>1, <3>2 DEF BlockType
  <2> QED
    BY <2>1, <2>2, <2>3
<1>8. BlocksTyped'
  BY <1>3, <1>5, <1>6, <1>7 DEF BlocksTyped
<1> QED
  BY <1>3, <1>4, <1>5, <1>8

(* front is stored, and nothing else changes.                               *)
LEMMA SetFront ==
    ASSUME BlocksTyped, NEW x \in Blocks, NEW v \in 0..(block[x].size - 1),
           block' = [block EXCEPT ![x].front = v]
    PROVE  /\ Len(block') = Len(block) /\ Blocks' = Blocks /\ BlocksTyped'
           /\ SameLocalTail /\ SameTail /\ SameLocalFront /\ SameNext /\ SameSize /\ SameData
           /\ \A b \in Blocks : block'[b].front = IF b = x THEN v ELSE block[b].front
<1> DEFINE r == [block[x] EXCEPT !.front = v]
<1>1. block[x] \in BlockRec /\ BlockType(block[x]) /\ block[x].size >= 2 /\ v \in Nat
  BY BlockFacts DEF BlocksTyped
<1>2. /\ r \in BlockRec /\ r.front = v
      /\ r.localTail = block[x].localTail /\ r.tail = block[x].tail
      /\ r.localFront = block[x].localFront /\ r.next = block[x].next /\ r.size = block[x].size
      /\ r.data = block[x].data
  BY <1>1 DEF BlockRec
<1>3. BlockType(r) /\ r.size >= 2
  BY <1>1, <1>2 DEF BlockType
<1>4. block' = [block EXCEPT ![x] = r]
  BY <1>1
<1> HIDE DEF r
<1>5. /\ Len(block') = Len(block) /\ Blocks' = Blocks /\ BlocksTyped'
      /\ \A b \in Blocks : block'[b] = IF b = x THEN r ELSE block[b]
  BY <1>2, <1>3, <1>4, Replaced, ZenonT(60)
<1> QED
  BY <1>2, <1>5 DEF SameLocalTail, SameTail, SameLocalFront, SameNext, SameSize, SameData

(* localTail is stored.                                                     *)
LEMMA SetLocalTail ==
    ASSUME BlocksTyped, NEW x \in Blocks, NEW v \in 0..(block[x].size - 1),
           block' = [block EXCEPT ![x].localTail = v]
    PROVE  /\ Len(block') = Len(block) /\ Blocks' = Blocks /\ BlocksTyped'
           /\ SameFront /\ SameTail /\ SameLocalFront /\ SameNext /\ SameSize /\ SameData
           /\ \A b \in Blocks : block'[b].localTail = IF b = x THEN v ELSE block[b].localTail
<1> DEFINE r == [block[x] EXCEPT !.localTail = v]
<1>1. block[x] \in BlockRec /\ BlockType(block[x]) /\ block[x].size >= 2 /\ v \in Nat
  BY BlockFacts DEF BlocksTyped
<1>2. /\ r \in BlockRec /\ r.localTail = v
      /\ r.front = block[x].front /\ r.tail = block[x].tail /\ r.localFront = block[x].localFront
      /\ r.next = block[x].next /\ r.size = block[x].size /\ r.data = block[x].data
  BY <1>1 DEF BlockRec
<1>3. BlockType(r) /\ r.size >= 2
  BY <1>1, <1>2 DEF BlockType
<1>4. block' = [block EXCEPT ![x] = r]
  BY <1>1
<1> HIDE DEF r
<1>5. /\ Len(block') = Len(block) /\ Blocks' = Blocks /\ BlocksTyped'
      /\ \A b \in Blocks : block'[b] = IF b = x THEN r ELSE block[b]
  BY <1>2, <1>3, <1>4, Replaced, ZenonT(60)
<1> QED
  BY <1>2, <1>5 DEF SameFront, SameTail, SameLocalFront, SameNext, SameSize, SameData

(* tail is stored.                                                          *)
LEMMA SetTail ==
    ASSUME BlocksTyped, NEW x \in Blocks, NEW v \in 0..(block[x].size - 1),
           block' = [block EXCEPT ![x].tail = v]
    PROVE  /\ Len(block') = Len(block) /\ Blocks' = Blocks /\ BlocksTyped'
           /\ SameFront /\ SameLocalTail /\ SameLocalFront /\ SameNext /\ SameSize /\ SameData
           /\ \A b \in Blocks : block'[b].tail = IF b = x THEN v ELSE block[b].tail
<1> DEFINE r == [block[x] EXCEPT !.tail = v]
<1>1. block[x] \in BlockRec /\ BlockType(block[x]) /\ block[x].size >= 2 /\ v \in Nat
  BY BlockFacts DEF BlocksTyped
<1>2. /\ r \in BlockRec /\ r.tail = v
      /\ r.front = block[x].front /\ r.localTail = block[x].localTail
      /\ r.localFront = block[x].localFront /\ r.next = block[x].next /\ r.size = block[x].size
      /\ r.data = block[x].data
  BY <1>1 DEF BlockRec
<1>3. BlockType(r) /\ r.size >= 2
  BY <1>1, <1>2 DEF BlockType
<1>4. block' = [block EXCEPT ![x] = r]
  BY <1>1
<1> HIDE DEF r
<1>5. /\ Len(block') = Len(block) /\ Blocks' = Blocks /\ BlocksTyped'
      /\ \A b \in Blocks : block'[b] = IF b = x THEN r ELSE block[b]
  BY <1>2, <1>3, <1>4, Replaced, ZenonT(60)
<1> QED
  BY <1>2, <1>5 DEF SameFront, SameLocalTail, SameLocalFront, SameNext, SameSize, SameData

(* localFront is stored.                                                    *)
LEMMA SetLocalFront ==
    ASSUME BlocksTyped, NEW x \in Blocks, NEW v \in 0..(block[x].size - 1),
           block' = [block EXCEPT ![x].localFront = v]
    PROVE  /\ Len(block') = Len(block) /\ Blocks' = Blocks /\ BlocksTyped'
           /\ SameFront /\ SameLocalTail /\ SameTail /\ SameNext /\ SameSize /\ SameData
           /\ \A b \in Blocks : block'[b].localFront = IF b = x THEN v ELSE block[b].localFront
<1> DEFINE r == [block[x] EXCEPT !.localFront = v]
<1>1. block[x] \in BlockRec /\ BlockType(block[x]) /\ block[x].size >= 2 /\ v \in Nat
  BY BlockFacts DEF BlocksTyped
<1>2. /\ r \in BlockRec /\ r.localFront = v
      /\ r.front = block[x].front /\ r.localTail = block[x].localTail /\ r.tail = block[x].tail
      /\ r.next = block[x].next /\ r.size = block[x].size /\ r.data = block[x].data
  BY <1>1 DEF BlockRec
<1>3. BlockType(r) /\ r.size >= 2
  BY <1>1, <1>2 DEF BlockType
<1>4. block' = [block EXCEPT ![x] = r]
  BY <1>1
<1> HIDE DEF r
<1>5. /\ Len(block') = Len(block) /\ Blocks' = Blocks /\ BlocksTyped'
      /\ \A b \in Blocks : block'[b] = IF b = x THEN r ELSE block[b]
  BY <1>2, <1>3, <1>4, Replaced, ZenonT(60)
<1> QED
  BY <1>2, <1>5 DEF SameFront, SameLocalTail, SameTail, SameNext, SameSize, SameData

(* next is stored.                                                          *)
LEMMA SetNext ==
    ASSUME BlocksTyped, NEW x \in Blocks, NEW v \in Blocks,
           block' = [block EXCEPT ![x].next = v]
    PROVE  /\ Len(block') = Len(block) /\ Blocks' = Blocks /\ BlocksTyped'
           /\ SameFront /\ SameLocalTail /\ SameTail /\ SameLocalFront /\ SameSize /\ SameData
           /\ \A b \in Blocks : block'[b].next = IF b = x THEN v ELSE block[b].next
<1> DEFINE r == [block[x] EXCEPT !.next = v]
<1>1. block[x] \in BlockRec /\ BlockType(block[x]) /\ block[x].size >= 2 /\ v \in Nat
  BY BlockFacts DEF BlocksTyped
<1>2. /\ r \in BlockRec /\ r.next = v
      /\ r.front = block[x].front /\ r.localTail = block[x].localTail /\ r.tail = block[x].tail
      /\ r.localFront = block[x].localFront /\ r.size = block[x].size /\ r.data = block[x].data
  BY <1>1 DEF BlockRec
<1>3. BlockType(r) /\ r.size >= 2
  BY <1>1, <1>2 DEF BlockType
<1>4. block' = [block EXCEPT ![x] = r]
  BY <1>1
<1> HIDE DEF r
<1>5. /\ Len(block') = Len(block) /\ Blocks' = Blocks /\ BlocksTyped'
      /\ \A b \in Blocks : block'[b] = IF b = x THEN r ELSE block[b]
  BY <1>2, <1>3, <1>4, Replaced, ZenonT(60)
<1> QED
  BY <1>2, <1>5 DEF SameFront, SameLocalTail, SameTail, SameLocalFront, SameSize, SameData

(* An element is stored in a slot, or destroyed there. *)
Stored(x, i, v) == block' = [block EXCEPT ![x].data[i] = v]

(* The slot holds what was stored, and nothing else changes.                *)
LEMMA SetData ==
    ASSUME BlocksTyped, NEW x \in Blocks, NEW i \in 0..(block[x].size - 1), NEW v \in Nat,
           Stored(x, i, v)
    PROVE  /\ Len(block') = Len(block) /\ Blocks' = Blocks /\ BlocksTyped'
           /\ SameFront /\ SameLocalTail /\ SameTail /\ SameLocalFront /\ SameNext /\ SameSize
           /\ \A b \in Blocks : \A j \in 0..(block[b].size - 1) :
                 block'[b].data[j] = IF b = x /\ j = i THEN v ELSE block[b].data[j]
<1> DEFINE r == [block[x] EXCEPT !.data = [block[x].data EXCEPT ![i] = v]]
<1> DEFINE d == [block[x].data EXCEPT ![i] = v]
<1>1. /\ block[x] \in BlockRec /\ BlockType(block[x]) /\ block[x].size >= 2 /\ block[x].size \in Nat
      /\ block[x].data \in [0..(block[x].size - 1) -> Nat]
  BY BlockFacts DEF BlocksTyped
<1>0. d \in [0..(block[x].size - 1) -> Nat]
      /\ \A j \in 0..(block[x].size - 1) : d[j] = IF j = i THEN v ELSE block[x].data[j]
  BY <1>1
<1>2. /\ r \in BlockRec /\ r.data = d
      /\ r.front = block[x].front /\ r.localTail = block[x].localTail /\ r.tail = block[x].tail
      /\ r.localFront = block[x].localFront /\ r.next = block[x].next /\ r.size = block[x].size
  <2>1. d \in DataArray
    BY <1>0, <1>1 DEF DataArray
  <2> HIDE DEF d
  <2> QED
    BY <1>1, <2>1 DEF BlockRec, d
<1>3. BlockType(r) /\ r.size >= 2
  BY <1>0, <1>1, <1>2 DEF BlockType
<1>4. block' = [block EXCEPT ![x] = r]
  BY <1>1 DEF Stored
<1> HIDE DEF r, d
<1>5. /\ Len(block') = Len(block) /\ Blocks' = Blocks /\ BlocksTyped'
      /\ \A b \in Blocks : block'[b] = IF b = x THEN r ELSE block[b]
  BY <1>2, <1>3, <1>4, Replaced, ZenonT(60)
<1>6. SameFront /\ SameLocalTail /\ SameTail /\ SameLocalFront /\ SameNext /\ SameSize
  BY <1>2, <1>5 DEF SameFront, SameLocalTail, SameTail, SameLocalFront, SameNext, SameSize
<1>7. ASSUME NEW b \in Blocks, NEW j \in 0..(block[b].size - 1)
      PROVE  block'[b].data[j] = IF b = x /\ j = i THEN v ELSE block[b].data[j]
  <2>1. CASE b = x
    BY <1>0, <1>2, <1>5, <2>1
  <2>2. CASE b # x
    BY <1>5, <2>2
  <2> QED
    BY <2>1, <2>2
<1> QED
  BY <1>5, <1>6, <1>7

-----------------------------------------------------------------------------
(* Indices round a buffer of s slots *)

Round(i, s) == IF i + 1 = s THEN 0 ELSE i + 1

Back(i, s) == IF i = 0 THEN s - 1 ELSE i - 1

FromTo(f, t, s) == {i \in 0..(s - 1) : IF f <= t THEN f <= i /\ i < t ELSE f <= i \/ i < t}

(* The definitions of the module, as functions of two indices and a size.   *)
LEMMA InTheseTerms ==
    \A b : /\ Occupied(b) = FromTo(block[b].front, block[b].tail, block[b].size)
           /\ LastSlot(b) = Back(block[b].tail, block[b].size)
           /\ \A i : Advance(i, b) = Round(i, block[b].size)
BY DEF Occupied, FromTo, LastSlot, Back, Advance, Round

(* The same in the next state.                                              *)
LEMMA InTheseTermsNext ==
    \A b : /\ Occupied(b)' = FromTo(block'[b].front, block'[b].tail, block'[b].size)
           /\ LastSlot(b)' = Back(block'[b].tail, block'[b].size)
           /\ \A i : Advance(i, b)' = Round(i, block'[b].size)
BY DEF Occupied, FromTo, LastSlot, Back, Advance, Round

(* The slot after the last is taken. *)
LEMMA TailMoves ==
    ASSUME NEW s \in Nat, s >= 2, NEW f \in 0..(s - 1), NEW t \in 0..(s - 1), NEW l \in 0..(s - 1),
           NEW m \in 0..(s - 1), Between(l, f, t), Between(f, m, t), Round(t, s) # l
    PROVE  /\ Round(t, s) \in 0..(s - 1) /\ Round(t, s) # f
           /\ Between(l, f, Round(t, s)) /\ Between(f, m, Round(t, s))
           /\ FromTo(f, Round(t, s), s) = FromTo(f, t, s) \cup {t} /\ t \notin FromTo(f, t, s)
           /\ Back(Round(t, s), s) = t
<1>1. Round(t, s) \in 0..(s - 1) /\ Round(t, s) # f /\ Between(l, f, Round(t, s)) /\ Between(f, m, Round(t, s))
  BY SMT DEF Round, Between
<1>2. Back(Round(t, s), s) = t
  BY SMT DEF Round, Back
<1>3. t \notin FromTo(f, t, s)
  BY SMT DEF FromTo
<1>4. \A i \in 0..(s - 1) : i \in FromTo(f, Round(t, s), s) <=> (i \in FromTo(f, t, s) \/ i = t)
  BY <1>1, SMT DEF FromTo, Round
<1>5. FromTo(f, t, s) \subseteq 0..(s - 1) /\ FromTo(f, Round(t, s), s) \subseteq 0..(s - 1)
  BY DEF FromTo
<1>6. FromTo(f, Round(t, s), s) = FromTo(f, t, s) \cup {t}
  BY <1>4, <1>5
<1> QED
  BY <1>1, <1>2, <1>3, <1>6

(* The first slot is left. *)
LEMMA FrontMoves ==
    ASSUME NEW s \in Nat, s >= 2, NEW f \in 0..(s - 1), NEW t \in 0..(s - 1), NEW l \in 0..(s - 1),
           NEW m \in 0..(s - 1), Between(l, f, t), Between(f, m, t), f # m
    PROVE  /\ Round(f, s) \in 0..(s - 1) /\ f # t
           /\ Between(l, Round(f, s), t) /\ Between(Round(f, s), m, t)
           /\ FromTo(Round(f, s), t, s) = FromTo(f, t, s) \ {f} /\ f \in FromTo(f, t, s)
<1>1. Round(f, s) \in 0..(s - 1) /\ f # t /\ Between(l, Round(f, s), t) /\ Between(Round(f, s), m, t)
  BY SMT DEF Round, Between
<1>3. f \in FromTo(f, t, s)
  BY <1>1, SMT DEF FromTo
<1>4. \A i \in 0..(s - 1) : i \in FromTo(Round(f, s), t, s) <=> (i \in FromTo(f, t, s) /\ i # f)
  BY <1>1, SMT DEF FromTo, Round
<1>5. FromTo(f, t, s) \subseteq 0..(s - 1) /\ FromTo(Round(f, s), t, s) \subseteq 0..(s - 1)
  BY DEF FromTo
<1>6. FromTo(Round(f, s), t, s) = FromTo(f, t, s) \ {f}
  BY <1>4, <1>5
<1> QED
  BY <1>1, <1>3, <1>6

(* What else is known of the slots from f to t. *)
LEMMA Slots ==
    ASSUME NEW s \in Nat, s >= 2, NEW f \in 0..(s - 1), NEW t \in 0..(s - 1)
    PROVE  /\ FromTo(f, t, s) \subseteq 0..(s - 1)
           /\ FromTo(f, t, s) = {} <=> f = t
           /\ f # t => f \in FromTo(f, t, s) /\ Back(t, s) \in FromTo(f, t, s)
           /\ Back(t, s) \in 0..(s - 1) /\ Round(Back(t, s), s) = t
           /\ \A i \in 0..(s - 1) : /\ Round(i, s) \in 0..(s - 1) /\ Round(i, s) # i /\ Back(Round(i, s), s) = i
                                    /\ Round(i, s) = t => i = Back(t, s)
           /\ \A i \in FromTo(f, t, s) : Round(i, s) # t => Round(i, s) \in FromTo(f, t, s) \ {f}
           /\ t \notin FromTo(f, t, s)
           /\ Round(f, s) = t => FromTo(f, t, s) = {f} /\ Back(t, s) = f
<1>1. FromTo(f, t, s) \subseteq 0..(s - 1) /\ t \notin FromTo(f, t, s)
  BY SMT DEF FromTo
<1>2. f # t => f \in FromTo(f, t, s) /\ Back(t, s) \in FromTo(f, t, s)
  BY SMT DEF FromTo, Back
<1>3. f = t => FromTo(f, t, s) = {}
  BY SMT DEF FromTo
<1>4. Back(t, s) \in 0..(s - 1) /\ Round(Back(t, s), s) = t
  BY SMT DEF Back, Round
<1>5. \A i \in 0..(s - 1) : /\ Round(i, s) \in 0..(s - 1) /\ Round(i, s) # i /\ Back(Round(i, s), s) = i
                            /\ Round(i, s) = t => i = Back(t, s)
  BY SMT DEF Back, Round
<1>6. \A i \in FromTo(f, t, s) : Round(i, s) # t => Round(i, s) \in FromTo(f, t, s) \ {f}
  BY SMT DEF FromTo, Round
<1>7. Round(f, s) = t => FromTo(f, t, s) = {f} /\ Back(t, s) = f
  <2> SUFFICES ASSUME Round(f, s) = t PROVE FromTo(f, t, s) = {f} /\ Back(t, s) = f
    OBVIOUS
  <2>1. Back(t, s) = f /\ f # t
    BY SMT DEF Back, Round
  <2>2. \A i \in 0..(s - 1) : i \in FromTo(f, t, s) <=> i = f
    BY SMT DEF FromTo, Round
  <2> QED
    BY <1>1, <1>2, <2>1, <2>2
<1> QED
  BY <1>1, <1>2, <1>3, <1>4, <1>5, <1>6, <1>7

-----------------------------------------------------------------------------
(* What a step leaves alone *)

(* The producer has nothing in hand: no element that is not published, no   *)
(* block that is not in the ring.                                           *)
HandsFree == pc["producer"] \notin {"publish", "advanceTail", "advanceBlock", "link"}

(* What a step has to keep typed.                                           *)
LEMMA TypesKept ==
    ASSUME Types, BlocksTyped', conf' = conf, frontBlock' \in Blocks', tailBlock' \in Blocks',
           readBlock' \in Blocks', largestBlockSize' \in Nat, largestBlockSize' >= 2,
           pc' \in [Thread -> Label], pc'["producer"] \in ProducerLabels, pc'["consumer"] \in ConsumerLabels,
           canAlloc' \in BOOLEAN, op' \in {"dequeue", "peek"}, elem' \in Nat, sent' \in Nat, taken' \in Nat,
           walk' \in [Thread -> WalkRec], \A t \in Thread : walk'[t].at \in Blocks'
              /\ walk'[t].start \in Blocks'
    PROVE  Types'
<1>1. block' # <<>> /\ \A b \in Blocks' : BlockType(block[b])'
  BY DEF BlocksTyped
<1>2. TypeOK'
  BY <1>1 DEF TypeOK, Types, ProducerLabels, ConsumerLabels
<1> QED
  BY <1>2 DEF Types

(* The types, one by one.                                                   *)
LEMMA TypeFacts ==
    ASSUME Types
    PROVE  /\ BlocksTyped /\ frontBlock \in Blocks /\ tailBlock \in Blocks /\ readBlock \in Blocks
           /\ largestBlockSize \in Nat /\ largestBlockSize >= 2
           /\ pc \in [Thread -> Label] /\ pc["producer"] \in ProducerLabels /\ pc["consumer"] \in ConsumerLabels
           /\ canAlloc \in BOOLEAN /\ op \in {"dequeue", "peek"} /\ elem \in Nat /\ sent \in Nat
           /\ taken \in Nat
           /\ walk \in [Thread -> WalkRec]
           /\ \A t \in Thread : walk[t].at \in Blocks /\ walk[t].start \in Blocks
           /\ conf \in Configurations
BY DEF Types, TypeOK, ProducerLabels, ConsumerLabels

(* The producer goes to another label.                                      *)
LEMMA ProducerGoes ==
    ASSUME Types, NEW l \in ProducerLabels, Goto("producer", l)
    PROVE  pc'["producer"] = l /\ pc'["consumer"] = pc["consumer"] /\ pc' \in [Thread -> Label]
<1>1. pc \in [Thread -> Label] /\ l \in Label
  BY DEF Types, Label
<1>2. pc' = [pc EXCEPT !["producer"] = l]
  BY DEF Goto
<1> QED
  BY <1>1, <1>2 DEF Thread

(* The consumer goes to another label.                                      *)
LEMMA ConsumerGoes ==
    ASSUME Types, NEW l \in ConsumerLabels, Goto("consumer", l)
    PROVE  pc'["consumer"] = l /\ pc'["producer"] = pc["producer"] /\ pc' \in [Thread -> Label]
<1>1. pc \in [Thread -> Label] /\ l \in Label
  BY DEF Types, Label
<1>2. pc' = [pc EXCEPT !["consumer"] = l]
  BY DEF Goto
<1> QED
  BY <1>1, <1>2 DEF Thread

(* The blocks of the ring are blocks; all of them, with nothing in hand.    *)
LEMMA LinkedBlocks ==
    ASSUME BlocksTyped
    PROVE  /\ Linked \subseteq Blocks /\ Len(block) \in Blocks
           /\ HandsFree => Linked = Blocks /\ Pending = {} /\ Made = {}
<1>1. Len(block) \in Nat \ {0} /\ Blocks = 1..Len(block)
  <2>1. block \in Seq(BlockRec) /\ block # <<>>
    BY DEF BlocksTyped
  <2>2. Len(block) \in Nat /\ Len(block) # 0
    BY <2>1, LenProperties, EmptySeq
  <2> QED
    BY <2>2 DEF Blocks
<1>2. HandsFree => Linked = Blocks /\ Pending = {} /\ Made = {}
  BY DEF HandsFree, Linked, Pending, Made, At
<1> QED
  BY <1>1, <1>2 DEF Linked

(* The blocks in use depend on which blocks are empty. *)
LEMMA InUseKept ==
    ASSUME Blocks' = Blocks, \A b \in Blocks : Empty(b)' <=> Empty(b),
           frontBlock' = frontBlock, Pending' = Pending
    PROVE  InUse' = InUse
BY Zenon DEF InUse

(* Whether a block is empty depends on front and tail.                      *)
LEMMA EmptyKept ==
    ASSUME SameFront, SameTail
    PROVE  \A b \in Blocks : Empty(b)' <=> Empty(b)
BY DEF SameFront, SameTail, Empty

(* The ring depends on the next pointers and on where it is used.           *)
LEMMA RingKept ==
    ASSUME Ring, Linked' = Linked, \A b \in Linked : block'[b].next = block[b].next, InUse' = InUse,
           frontBlock' = frontBlock, tailBlock' = tailBlock
    PROVE  Ring'
<1>1. InUse \subseteq Linked /\ tailBlock \in Linked
  BY DEF Ring
<1>2. \A b \in Linked' : block'[b].next \in Linked'
  BY DEF Ring
<1>3. \A a, b \in Linked' : block'[a].next = block'[b].next => a = b
  BY DEF Ring
<1>4. \A S \in SUBSET Linked' : S # {} /\ (\A b \in S : block'[b].next \in S) => S = Linked'
  <2> SUFFICES ASSUME NEW S \in SUBSET Linked, S # {}, \A b \in S : block'[b].next \in S PROVE S = Linked
    BY Zenon
  <2>1. \A b \in S : block[b].next \in S
    BY Zenon
  <2>2. \A R \in SUBSET Linked : R # {} /\ (\A b \in R : block[b].next \in R) => R = Linked
    BY DEF Ring
  <2> QED
    BY <2>1, <2>2, Zenon
<1>5. InUse' \subseteq Linked' /\ tailBlock' \in InUse'
  BY DEF Ring
<1>6. \A b \in InUse' \ {tailBlock'} : block'[b].next \in InUse' \ {frontBlock'}
  BY <1>1 DEF Ring
<1>7. \A b \in InUse' \ {frontBlock'} : \E a \in InUse' \ {tailBlock'} : block'[a].next = b
  <2>1. \A b \in InUse \ {frontBlock} : \E a \in InUse \ {tailBlock} : block[a].next = b
    BY DEF Ring
  <2>2. \A a \in InUse : block'[a].next = block[a].next
    BY <1>1
  <2> QED
    BY <2>1, <2>2, Zenon
<1>8. block'[tailBlock'].next \notin InUse' \ {frontBlock'}
  BY <1>1 DEF Ring
<1> QED
  BY <1>2, <1>3, <1>4, <1>5, <1>6, <1>7, <1>8, Zenon DEF Ring

(* The order of the indices depends on the indices.                         *)
LEMMA OrderKept ==
    ASSUME Order, Blocks' = Blocks, SameFront, SameTail, SameLocalTail, SameLocalFront
    PROVE  Order'
BY DEF Order, SameFront, SameTail, SameLocalTail, SameLocalFront, Between

(* What is filled depends on the slots and on what is in hand.              *)
LEMMA FilledKept ==
    ASSUME Filled, Blocks' = Blocks, SameFront, SameTail, SameSize, SameData, Moved' = Moved, Made' = Made
    PROVE  Filled'
<1>1. ASSUME NEW b \in Blocks PROVE Occupied(b)' = Occupied(b) /\ block'[b].size = block[b].size
                                    /\ block'[b].data = block[b].data
  BY InTheseTerms, InTheseTermsNext DEF SameFront, SameTail, SameSize, SameData
<1> QED
  BY <1>1, Zenon DEF Filled

(* The first and the latest element of a block, by their slots.             *)
LEMMA FirstAndLatest ==
    \A b, f : /\ block[b].front = f => First(b) = Val(b, f)
              /\ LastSlot(b) = f => Latest(b) = Val(b, f)
BY DEF First, Latest

(* The same in the next state.                                              *)
LEMMA FirstAndLatestNext ==
    \A b, f : /\ block'[b].front = f => First(b)' = Val(b, f)'
              /\ LastSlot(b)' = f => Latest(b)' = Val(b, f)'
BY Zenon DEF First, Latest, Val

(* The numbers of the elements depend on the slots that are taken. *)
LEMMA InsideKept ==
    ASSUME Inside, Blocks' = Blocks, SameSize,
           \A b \in Blocks : Occupied(b)' \subseteq Occupied(b),
           \A b \in Blocks : \A i \in Occupied(b)' : Val(b, i)' = Val(b, i)
    PROVE  Inside'
<1>1. ASSUME NEW b \in Blocks PROVE \A i : Advance(i, b)' = Advance(i, b)
  BY InTheseTerms, InTheseTermsNext DEF SameSize
<1> SUFFICES ASSUME NEW b \in Blocks', NEW i \in Occupied(b)', NEW j \in Occupied(b)', j = Advance(i, b)'
             PROVE  Val(b, j)' = Val(b, i)' + 1
  BY Zenon DEF Inside
<1>2. b \in Blocks /\ i \in Occupied(b) /\ j \in Occupied(b) /\ j = Advance(i, b)
  BY <1>1
<1>3. Val(b, j) = Val(b, i) + 1
  BY <1>2 DEF Inside
<1>4. Val(b, j)' = Val(b, j) /\ Val(b, i)' = Val(b, i)
  BY <1>2
<1> QED
  BY <1>3, <1>4

(* A block that is not empty holds its first and its latest element.        *)
LEMMA EndsTaken ==
    ASSUME BlocksTyped, NEW b \in Blocks, ~Empty(b)
    PROVE  block[b].front \in Occupied(b) /\ LastSlot(b) \in Occupied(b)
<1> DEFINE f == block[b].front
<1> DEFINE t == block[b].tail
<1> DEFINE s == block[b].size
<1>1. s \in Nat /\ s >= 2 /\ f \in 0..(s - 1) /\ t \in 0..(s - 1) /\ f # t
  BY BlockFacts DEF Empty
<1>2. Occupied(b) = FromTo(f, t, s) /\ LastSlot(b) = Back(t, s)
  BY InTheseTerms
<1> HIDE DEF f, t, s
<1>3. f \in FromTo(f, t, s) /\ Back(t, s) \in FromTo(f, t, s)
  BY <1>1, Slots
<1> QED
  BY <1>2, <1>3 DEF f

(* The blocks in use, from front to tail, and what they hold, are the same. *)
LEMMA ChainKept ==
    ASSUME Chain, BlocksTyped, Ring, Linked \subseteq Blocks,
           \A b \in InUse \ {frontBlock} : ~Empty(b),
           InUse' = InUse, frontBlock' = frontBlock, tailBlock' = tailBlock,
           \A b \in InUse \ {tailBlock} : block'[b].next = block[b].next,
           \A b \in InUse : block'[b].front = block[b].front /\ block'[b].tail = block[b].tail
                             /\ block'[b].size = block[b].size,
           sent' = sent, taken' = taken,
           \A b \in InUse : \A i \in Occupied(b) : Val(b, i)' = Val(b, i)
    PROVE  Chain'
<1>1. ASSUME NEW b \in InUse, ~Empty(b)
      PROVE  First(b)' = First(b) /\ Latest(b)' = Latest(b)
  <2>1. b \in Blocks
    BY DEF Ring
  <2>2. PICK f, l : f = block[b].front /\ l = LastSlot(b)
    OBVIOUS
  <2>3. f \in Occupied(b) /\ l \in Occupied(b)
    BY <1>1, <2>1, <2>2, EndsTaken
  <2>4. block'[b].front = f /\ LastSlot(b)' = l
    BY <2>2, InTheseTerms, InTheseTermsNext
  <2>5. Val(b, f)' = Val(b, f) /\ Val(b, l)' = Val(b, l)
    BY <2>3
  <2> QED
    BY <2>2, <2>4, <2>5, FirstAndLatest, FirstAndLatestNext
<1>2. \A b \in InUse : Empty(b)' <=> Empty(b)
  BY DEF Empty
<1>3. frontBlock \in InUse /\ tailBlock \in InUse
      /\ \A b \in InUse \ {tailBlock} : block[b].next \in InUse \ {frontBlock}
  BY DEF Ring, InUse
<1>4. (~Empty(frontBlock) => First(frontBlock) = taken + 1)'
  <2>1. PICK f : f = frontBlock
    OBVIOUS
  <2>2. ~Empty(f)' => First(f)' = taken' + 1
    BY <1>1, <1>2, <1>3, <2>1 DEF Chain
  <2>3. f = frontBlock'
    BY <2>1
  <2> QED
    BY <2>2, <2>3, Zenon DEF Empty, First, Val
<1>5. (sent = IF Empty(tailBlock) THEN taken ELSE Latest(tailBlock))'
  <2>1. PICK f : f = tailBlock
    OBVIOUS
  <2>2. sent' = IF Empty(f)' THEN taken' ELSE Latest(f)'
    BY <1>1, <1>2, <1>3, <2>1 DEF Chain
  <2>3. f = tailBlock'
    BY <2>1
  <2> QED
    BY <2>2, <2>3, Zenon DEF Empty, Latest, Val, LastSlot
<1>6. ASSUME NEW b \in InUse \ {tailBlock}
      PROVE  (First(block[b].next) = IF Empty(b) THEN taken + 1 ELSE Latest(b) + 1)'
  <2>1. PICK n : n = block[b].next
    OBVIOUS
  <2>2. n \in InUse /\ ~Empty(n)
    BY <1>3, <2>1
  <2>3. First(n)' = IF Empty(b)' THEN taken' + 1 ELSE Latest(b)' + 1
    BY <1>1, <1>2, <2>1, <2>2 DEF Chain
  <2>4. n = block'[b].next
    BY <2>1
  <2> QED
    BY <2>3, <2>4, Zenon DEF First, Val
<1> QED
  BY <1>4, <1>5, <1>6, Zenon DEF Chain

(* What the invariant says of the blocks, for every step.                   *)
LEMMA RingFacts ==
    ASSUME IInv
    PROVE  /\ BlocksTyped /\ Linked \subseteq Blocks /\ InUse \subseteq Linked
           /\ frontBlock \in InUse /\ tailBlock \in InUse /\ readBlock \in Linked
           /\ block[tailBlock].next \in Linked
           /\ \A b \in InUse \ {frontBlock} : ~Empty(b)
           /\ \A b \in InUse \ {tailBlock} : block[b].next \in InUse \ {frontBlock}
<1>1. BlocksTyped /\ Ring /\ readBlock \in Linked
  BY DEF IInv, Types, ConsumerAt
<1>2. Linked \subseteq Blocks
  BY <1>1, LinkedBlocks
<1>3. InUse \subseteq Linked /\ tailBlock \in InUse
  BY <1>1 DEF Ring
<1>4. \A b \in InUse \ {tailBlock} : block[b].next \in InUse \ {frontBlock}
  BY <1>1 DEF Ring
<1>5. frontBlock \in InUse /\ \A b \in InUse \ {frontBlock} : ~Empty(b)
  BY DEF InUse
<1>6. block[tailBlock].next \in Linked
  BY <1>1, <1>3 DEF Ring
<1> QED
  BY <1>1, <1>2, <1>3, <1>4, <1>5, <1>6

(* A step of the producer, seen by the consumer. *)
LEMMA ConsumerKept ==
    ASSUME ConsumerAt, pc'["consumer"] = pc["consumer"], frontBlock' = frontBlock, readBlock' = readBlock,
           op' = op, Linked \subseteq Linked', frontBlock \in Linked, readBlock \in Linked,
           \A b \in Linked : block'[b].front = block[b].front /\ block'[b].localTail = block[b].localTail,
           frontBlock # tailBlock => /\ frontBlock # tailBlock'
                                     /\ block'[frontBlock].tail = block[frontBlock].tail
                                     /\ block'[frontBlock].next = block[frontBlock].next
    PROVE  ConsumerAt' /\ Moved' = Moved
<1>1. HasOne(frontBlock)' <=> HasOne(frontBlock)
  BY DEF HasOne
<1>2. HasOne(readBlock)' <=> HasOne(readBlock)
  BY DEF HasOne
<1>3. FrontDone => FrontDone'
  BY DEF FrontDone, Empty
<1>4. \A l : At("consumer", l)' <=> At("consumer", l)
  BY DEF At
<1>5. Moved' = Moved
  BY <1>4 DEF Moved
<1>6. pc["consumer"] \in {"loadNextTail", "moveFront"} => frontBlock # tailBlock
  BY DEF ConsumerAt, FrontDone
<1>7. pc'["consumer"] \in {"loadNextTail", "moveFront"} => FrontDone' /\ readBlock' = block'[frontBlock'].next
  BY <1>3, <1>6 DEF ConsumerAt
<1>8. At("consumer", "read")' =>
          \/ readBlock' = frontBlock' /\ HasOne(frontBlock)'
          \/ op' = "peek" /\ FrontDone' /\ readBlock' = block'[frontBlock'].next
  BY <1>1, <1>3, <1>4 DEF ConsumerAt, FrontDone
<1>9. /\ At("consumer", "recheck")' => frontBlock' # tailBlock'
      /\ At("consumer", "loadNext")' => FrontDone'
      /\ pc'["consumer"] \in {"loadTail", "loadTailBlock", "recheck"} => readBlock' = frontBlock'
      /\ At("consumer", "moveFront")' => op' = "dequeue" /\ HasOne(readBlock)'
      /\ At("consumer", "release")' => readBlock' = frontBlock' /\ HasOne(frontBlock)'
      /\ readBlock' \in Linked'
  BY <1>1, <1>2, <1>3, <1>4 DEF ConsumerAt
<1> QED
  BY <1>5, <1>7, <1>8, <1>9, Zenon DEF ConsumerAt

(* A step of the consumer: what the producer has in hand. *)
LEMMA HandKept ==
    ASSUME pc'["producer"] = pc["producer"], tailBlock' = tailBlock, Len(block') = Len(block), Blocks' = Blocks,
           SameNext, SameTail, tailBlock \in Blocks, block[tailBlock].next \in Blocks
    PROVE  Linked' = Linked /\ Pending' = Pending /\ Made' = Made
<1>1. \A l : At("producer", l)' <=> At("producer", l)
  BY DEF At
<1>2. block'[tailBlock].next = block[tailBlock].next /\ block'[tailBlock].tail = block[tailBlock].tail
      /\ NextOfTail'.tail = NextOfTail.tail
  BY DEF SameNext, SameTail, NextOfTail
<1>3. Linked' = Linked
  BY <1>1 DEF Linked
<1>4. Pending' = Pending
  BY <1>1, <1>2 DEF Pending
<1>5. Made' = Made
  BY <1>1, <1>2 DEF Made
<1> QED
  BY <1>3, <1>4, <1>5

(* A step of the consumer, seen by the producer. *)
LEMMA ProducerKept ==
    ASSUME ProducerAt, pc'["producer"] = pc["producer"], tailBlock' = tailBlock, sent' = sent,
           Len(block') = Len(block), Blocks' = Blocks, BlocksTyped, Linked' = Linked, InUse \subseteq Linked,
           SameTail, SameLocalFront, SameNext, SameSize, Linked \subseteq Blocks,
           tailBlock \in Blocks, block[tailBlock].next \in Linked,
           \A b \in Blocks \ InUse : /\ block'[b].front = block[b].front
                                     /\ block'[b].localTail = block[b].localTail
                                     /\ block'[b].data = block[b].data,
           block'[tailBlock].data[block[tailBlock].tail] = block[tailBlock].data[block[tailBlock].tail],
           InUse' \subseteq InUse, frontBlock' \in InUse
    PROVE  ProducerAt'
<1>1. \A l : At("producer", l)' <=> At("producer", l)
  BY DEF At
<1>2. /\ block'[tailBlock].next = block[tailBlock].next /\ block'[tailBlock].tail = block[tailBlock].tail
      /\ block'[tailBlock].localFront = block[tailBlock].localFront
  BY DEF SameNext, SameTail, SameLocalFront
<1>3. \A b \in Blocks : \A i : Advance(i, b)' = Advance(i, b)
  BY InTheseTerms, InTheseTermsNext DEF SameSize
<1>4. NextTail' = NextTail
  BY <1>2 DEF SameSize, NextTail, Advance
<1>5. PICK n : n = block[tailBlock].next
  OBVIOUS
<1>6. NextIsFree => NextIsFree' /\ n \in Blocks \ InUse
  BY <1>2, <1>5 DEF NextIsFree
<1>7. NextOfTail = block[n] /\ NextOfTail' = block'[n]
  BY <1>2, <1>5 DEF NextOfTail
<1>8. n \in Blocks /\ block'[n].tail = block[n].tail /\ block'[n].localFront = block[n].localFront
  BY <1>5 DEF SameTail, SameLocalFront
<1>9. NextIsFree => block'[n].front = block[n].front /\ block'[n].data = block[n].data
  BY <1>6
<1>10. (pc["producer"] \in {"construct", "publish"} => NextTail # block[tailBlock].localFront)'
  BY <1>2, <1>4 DEF ProducerAt
<1>11. (At("producer", "publish") => block[tailBlock].data[block[tailBlock].tail] = sent + 1)'
  BY <1>1, <1>2 DEF ProducerAt
<1>12. (pc["producer"] \in {"useNext", "constructNext", "advanceTail", "advanceBlock"} => NextIsFree)'
  BY <1>6 DEF ProducerAt
<1>13. (pc["producer"] \in {"constructNext", "advanceTail"} =>
          NextOfTail.localFront = NextOfTail.front /\ NextOfTail.front = NextOfTail.tail)'
  BY <1>7, <1>8, <1>9 DEF ProducerAt
<1>14. (At("producer", "advanceTail") => NextOfTail.data[NextOfTail.tail] = sent + 1)'
  BY <1>1, <1>7, <1>8, <1>9 DEF ProducerAt, At
<1>15. (At("producer", "advanceBlock") =>
          /\ NextOfTail.data[NextOfTail.front] = sent + 1
          /\ Advance(NextOfTail.front, block[tailBlock].next) = NextOfTail.tail)'
  <2> SUFFICES ASSUME At("producer", "advanceBlock")
               PROVE  /\ block'[n].data[block'[n].front] = sent' + 1
                      /\ IF block'[n].front + 1 = block'[n].size THEN 0 = block'[n].tail
                                                                ELSE block'[n].front + 1 = block'[n].tail
    BY <1>1, <1>2, <1>5, <1>7 DEF Advance
  <2>1. NextIsFree
    BY DEF ProducerAt, At
  <2>2. /\ block[n].data[block[n].front] = sent + 1
        /\ Advance(block[n].front, n) = block[n].tail
    BY <1>5, <1>7 DEF ProducerAt
  <2>3. block'[n].size = block[n].size
    BY <1>8 DEF SameSize
  <2> QED
    BY <1>8, <1>9, <2>1, <2>2, <2>3 DEF Advance
<1>16. (At("producer", "link") =>
          LET r == block[Len(block)]
          IN  /\ r.front = 0 /\ r.tail = 1 /\ r.localTail = 1 /\ r.localFront = 0
              /\ r.next = block[tailBlock].next /\ r.data[0] = sent + 1)'
  <2> SUFFICES ASSUME At("producer", "link")
               PROVE  LET r == block'[Len(block)]
                      IN  /\ r.front = 0 /\ r.tail = 1 /\ r.localTail = 1 /\ r.localFront = 0
                          /\ r.next = block'[tailBlock].next /\ r.data[0] = sent' + 1
    BY <1>1
  <2>1. Len(block) \in Blocks \ InUse
    BY LinkedBlocks DEF Linked
  <2>2. LET r == block[Len(block)]
        IN  /\ r.front = 0 /\ r.tail = 1 /\ r.localTail = 1 /\ r.localFront = 0
            /\ r.next = block[tailBlock].next /\ r.data[0] = sent + 1
    BY DEF ProducerAt
  <2>3. /\ block'[Len(block)].next = block[Len(block)].next /\ block'[Len(block)].tail = block[Len(block)].tail
        /\ block'[Len(block)].localFront = block[Len(block)].localFront
    BY <2>1 DEF SameNext, SameTail, SameLocalFront
  <2> QED
    BY <1>2, <2>1, <2>2, <2>3
<1> QED
  BY <1>10, <1>11, <1>12, <1>13, <1>14, <1>15, <1>16 DEF ProducerAt

(* No block changes.                                                        *)
LEMMA Untouched ==
    ASSUME BlocksTyped, block' = block
    PROVE  /\ Len(block') = Len(block) /\ Blocks' = Blocks /\ BlocksTyped'
           /\ SameFront /\ SameLocalTail /\ SameTail /\ SameLocalFront /\ SameNext /\ SameSize /\ SameData
<1>1. Len(block') = Len(block) /\ Blocks' = Blocks
  BY DEF Blocks
<1>2. \A q : BlockType(q)' <=> BlockType(q)
  BY <1>1 DEF BlockType
<1>3. BlocksTyped'
  BY <1>1, <1>2 DEF BlocksTyped
<1> QED
  BY <1>1, <1>3 DEF SameFront, SameLocalTail, SameTail, SameLocalFront, SameNext, SameSize, SameData

(* A step that changes neither what is linked nor what is stored. *)
LEMMA Quiet ==
    ASSUME IInv, Blocks' = Blocks, SameFront, SameTail, SameNext, SameSize, SameData,
           frontBlock' = frontBlock, tailBlock' = tailBlock, sent' = sent, taken' = taken, elem' = elem,
           Linked' = Linked, Pending' = Pending, Made' = Made, Moved' = Moved
    PROVE  InUse' = InUse /\ Ring' /\ Filled' /\ Inside' /\ Chain'
<1>1. /\ BlocksTyped /\ Linked \subseteq Blocks /\ InUse \subseteq Linked
      /\ \A b \in InUse \ {frontBlock} : ~Empty(b)
  BY RingFacts
<1>2. Ring /\ Filled /\ Inside /\ Chain
  BY DEF IInv
<1>3. InUse' = InUse
  BY EmptyKept, InUseKept
<1>4. Ring'
  BY <1>1, <1>2, <1>3, RingKept DEF SameNext
<1>5. Filled'
  BY <1>2, FilledKept
<1>6. \A b \in Blocks : Occupied(b)' = Occupied(b)
  BY InTheseTerms, InTheseTermsNext DEF SameFront, SameTail, SameSize
<1>7. \A b \in Blocks : \A i : Val(b, i)' = Val(b, i)
  BY DEF Val, SameData
<1>8. Inside'
  BY <1>2, <1>6, <1>7, InsideKept
<1>9. \A b \in InUse : /\ block'[b].front = block[b].front /\ block'[b].tail = block[b].tail
                       /\ block'[b].size = block[b].size
  BY <1>1 DEF SameFront, SameTail, SameSize
<1>10. \A b \in InUse : block'[b].next = block[b].next /\ \A i : Val(b, i)' = Val(b, i)
  BY <1>1, <1>7 DEF SameNext
<1>11. Chain'
  BY <1>1, <1>2, <1>3, <1>9, <1>10, ChainKept
<1> QED
  BY <1>3, <1>4, <1>5, <1>8, <1>11

(* A step of the producer with nothing in hand, before and after. *)
LEMMA HandsStayFree ==
    ASSUME BlocksTyped, BlocksTyped', Blocks' = Blocks, HandsFree, HandsFree'
    PROVE  Linked' = Linked /\ Linked = Blocks /\ Pending' = Pending /\ Made' = Made
<1>1. Linked = Blocks /\ Pending = {} /\ Made = {}
  BY LinkedBlocks
<1>2. (BlocksTyped /\ HandsFree => Linked = Blocks /\ Pending = {} /\ Made = {})'
  BY LinkedBlocks, PTL
<1> QED
  BY <1>1, <1>2

(* The copy of front is loaded, or the copy of tail. *)
LEMMA LocalFrontLoaded ==
    ASSUME BlocksTyped, Order, Blocks' = Blocks, NEW x \in Blocks, SameFront, SameTail, SameLocalTail,
           \A b \in Blocks : block'[b].localFront = IF b = x THEN block[x].front ELSE block[b].localFront
    PROVE  Order'
<1> SUFFICES ASSUME NEW b \in Blocks
             PROVE  /\ Between(block'[b].localFront, block'[b].front, block'[b].tail)
                    /\ Between(block'[b].front, block'[b].localTail, block'[b].tail)
  BY Zenon DEF Order, Between
<1>1. /\ Between(block[b].localFront, block[b].front, block[b].tail)
      /\ Between(block[b].front, block[b].localTail, block[b].tail)
      /\ block'[b].front = block[b].front /\ block'[b].tail = block[b].tail
      /\ block'[b].localTail = block[b].localTail
  BY DEF Order, SameFront, SameTail, SameLocalTail
<1>2. block[b].front \in Nat /\ block[b].tail \in Nat
  BY BlockFacts
<1> QED
  BY <1>1, <1>2 DEF Between

(* The copy of tail is loaded.                                              *)
LEMMA LocalTailLoaded ==
    ASSUME BlocksTyped, Order, Blocks' = Blocks, NEW x \in Blocks, SameFront, SameTail, SameLocalFront,
           \A b \in Blocks : block'[b].localTail = IF b = x THEN block[x].tail ELSE block[b].localTail
    PROVE  Order'
<1> SUFFICES ASSUME NEW b \in Blocks
             PROVE  /\ Between(block'[b].localFront, block'[b].front, block'[b].tail)
                    /\ Between(block'[b].front, block'[b].localTail, block'[b].tail)
  BY Zenon DEF Order, Between
<1>1. /\ Between(block[b].localFront, block[b].front, block[b].tail)
      /\ Between(block[b].front, block[b].localTail, block[b].tail)
      /\ block'[b].front = block[b].front /\ block'[b].tail = block[b].tail
      /\ block'[b].localFront = block[b].localFront
  BY DEF Order, SameFront, SameTail, SameLocalFront
<1>2. block[b].front \in Nat /\ block[b].tail \in Nat
  BY BlockFacts
<1> QED
  BY <1>1, <1>2 DEF Between

-----------------------------------------------------------------------------
(* Each action preserves the invariant: the producer *)

(* A step of the producer that has nothing in hand, and takes nothing.      *)
LEMMA ProducerQuiet ==
    ASSUME IInv, conf' = conf, NEW l \in ProducerLabels, Goto("producer", l), HandsFree,
           l \notin {"publish", "advanceTail", "advanceBlock", "link"},
           BlocksTyped', Blocks' = Blocks, SameFront, SameLocalTail, SameTail, SameNext, SameSize, SameData,
           UNCHANGED <<frontBlock, tailBlock, largestBlockSize, sent, op, readBlock, elem, taken, walk>>,
           canAlloc' \in BOOLEAN
    PROVE  /\ Types' /\ ConsumerAt' /\ Ring' /\ Filled' /\ Inside' /\ Chain'
           /\ Linked' = Linked /\ InUse' = InUse
           /\ pc'["producer"] = l
<1>1. Types /\ ProducerAt /\ ConsumerAt /\ Order
  BY DEF IInv
<1>4. pc'["producer"] = l /\ pc'["consumer"] = pc["consumer"] /\ pc' \in [Thread -> Label]
  BY <1>1, ProducerGoes
<1>6. Types'
  BY <1>1, <1>4, TypeFacts, TypesKept
<1>7. HandsFree'
  BY <1>4 DEF HandsFree
<1>8. Linked' = Linked /\ Pending' = Pending /\ Made' = Made
  BY <1>1, <1>7, TypeFacts, HandsStayFree
<1>9. \A b \in Linked : block'[b].front = block[b].front /\ block'[b].localTail = block[b].localTail
                        /\ block'[b].tail = block[b].tail /\ block'[b].next = block[b].next
  BY RingFacts DEF SameFront, SameLocalTail, SameTail, SameNext
<1>10. ConsumerAt' /\ Moved' = Moved
  BY <1>1, <1>4, <1>8, <1>9, RingFacts, ConsumerKept
<1>11. InUse' = InUse /\ Ring' /\ Filled' /\ Inside' /\ Chain'
  BY <1>8, <1>10, Quiet
<1> QED
  BY <1>4, <1>6, <1>8, <1>10, <1>11

(* inner_enqueue compares the next tail with its copy of front.             *)
LEMMA EnqueueBeginPreserves ==
    ASSUME IInv, conf' = conf, NEW alloc \in BOOLEAN, EnqueueBegin(alloc)
    PROVE  IInv'
<1> DEFINE l == IF NextTail # block[tailBlock].localFront THEN "construct" ELSE "loadFront"
<1>1. BlocksTyped /\ Order
  BY RingFacts DEF IInv
<1>2. /\ At("producer", "idle") /\ Goto("producer", l) /\ canAlloc' = alloc
      /\ UNCHANGED <<block, frontBlock, tailBlock, largestBlockSize, sent, op, readBlock, elem, taken, walk>>
  BY DEF EnqueueBegin, Begin, consumerRegs
<1>3. l \in ProducerLabels /\ l \notin {"publish", "advanceTail", "advanceBlock", "link"}
  BY DEF ProducerLabels
<1>4. /\ Blocks' = Blocks /\ BlocksTyped'
      /\ SameFront /\ SameLocalTail /\ SameTail /\ SameLocalFront /\ SameNext /\ SameSize /\ SameData
  BY <1>1, <1>2, Untouched
<1>5. HandsFree
  BY <1>2 DEF HandsFree, At
<1>6. /\ Types' /\ ConsumerAt' /\ Ring' /\ Filled' /\ Inside' /\ Chain' /\ pc'["producer"] = l
  BY <1>2, <1>3, <1>4, <1>5, ProducerQuiet
<1>7. Order'
  BY <1>1, <1>4, OrderKept
<1>8. ProducerAt'
  <2>1. NextTail' = NextTail
    BY <1>2 DEF NextTail, Advance
  <2> QED
    BY <1>2, <1>6, <2>1 DEF ProducerAt, At
<1> QED
  BY <1>6, <1>7, <1>8 DEF IInv

(* The producer loads the front of the tail block.                          *)
LEMMA LoadFrontPreserves ==
    ASSUME IInv, conf' = conf, LoadFront
    PROVE  IInv'
<1> DEFINE l == IF NextTail # block[tailBlock].front THEN "construct" ELSE "checkNext"
<1>1. BlocksTyped /\ Order /\ Types /\ tailBlock \in Blocks
  BY TypeFacts DEF IInv
<1>2. /\ At("producer", "loadFront") /\ Goto("producer", l)
      /\ block' = [block EXCEPT ![tailBlock].localFront = block[tailBlock].front]
      /\ UNCHANGED <<frontBlock, tailBlock, largestBlockSize, sent, canAlloc, op, readBlock, elem, taken, walk>>
  BY DEF LoadFront, Step, consumerRegs, producerRegs
<1>3. l \in ProducerLabels /\ l \notin {"publish", "advanceTail", "advanceBlock", "link"}
  BY DEF ProducerLabels
<1>4. /\ Blocks' = Blocks /\ BlocksTyped'
      /\ SameFront /\ SameLocalTail /\ SameTail /\ SameNext /\ SameSize /\ SameData
      /\ \A b \in Blocks : block'[b].localFront = IF b = tailBlock THEN block[tailBlock].front
                  ELSE block[b].localFront
  BY <1>1, <1>2, BlockFacts, SetLocalFront
<1>5. HandsFree
  BY <1>2 DEF HandsFree, At
<1>6. /\ Types' /\ ConsumerAt' /\ Ring' /\ Filled' /\ Inside' /\ Chain' /\ pc'["producer"] = l
  BY <1>1, <1>2, <1>3, <1>4, <1>5, TypeFacts, ProducerQuiet
<1>7. Order'
  BY <1>1, <1>4, LocalFrontLoaded
<1>8. ProducerAt'
  <2>1. NextTail' = NextTail /\ block'[tailBlock].localFront = block[tailBlock].front
    BY <1>1, <1>2, <1>4 DEF NextTail, Advance, SameTail, SameSize
  <2> QED
    BY <1>2, <1>6, <2>1 DEF ProducerAt, At
<1> QED
  BY <1>6, <1>7, <1>8 DEF IInv

(* The producer looks whether the next block is the front block.            *)
LEMMA CheckNextPreserves ==
    ASSUME IInv, conf' = conf, CheckNext
    PROVE  IInv'
<1>1. BlocksTyped /\ Order /\ Types
  BY RingFacts DEF IInv
<1>2. PICK l \in {"useNext", "makeBlock", "idle"} :
          /\ At("producer", "checkNext") /\ Goto("producer", l)
          /\ l = "useNext" => NextBlockIsFree
  BY DEF CheckNext, Step, Return
<1>3. UNCHANGED <<block, frontBlock, tailBlock, largestBlockSize, sent, canAlloc, op, readBlock, elem,
      taken, walk>>
  BY DEF CheckNext, consumerRegs, producerRegs
<1>4. /\ Blocks' = Blocks /\ BlocksTyped'
      /\ SameFront /\ SameLocalTail /\ SameTail /\ SameLocalFront /\ SameNext /\ SameSize /\ SameData
  BY <1>1, <1>3, Untouched
<1>5. HandsFree /\ l \in ProducerLabels
  BY <1>2 DEF HandsFree, At, ProducerLabels
<1>6. /\ Types' /\ ConsumerAt' /\ Ring' /\ Filled' /\ Inside' /\ Chain' /\ pc'["producer"] = l
      /\ Linked' = Linked /\ InUse' = InUse
  BY <1>1, <1>2, <1>3, <1>4, <1>5, TypeFacts, ProducerQuiet
<1>7. Order'
  BY <1>1, <1>4, OrderKept
<1>8. ProducerAt'
  <2>1. l = "useNext" => NextIsFree
    BY <1>2, RingFacts DEF NextBlockIsFree, NextIsFree, IInv, Ring
  <2>2. NextIsFree => NextIsFree'
    BY <1>3, <1>6 DEF NextIsFree
  <2> QED
    BY <1>2, <1>6, <2>1, <2>2 DEF ProducerAt, At
<1> QED
  BY <1>6, <1>7, <1>8 DEF IInv

(* The producer goes for the next block, which is empty.                    *)
LEMMA UseNextPreserves ==
    ASSUME IInv, conf' = conf, UseNext
    PROVE  IInv'
<1>1. PICK n : n = block[tailBlock].next
  OBVIOUS
<1>2. BlocksTyped /\ Order /\ Types /\ n \in Blocks /\ tailBlock \in Blocks
  BY <1>1, RingFacts DEF IInv
<1>3. /\ At("producer", "useNext") /\ Goto("producer", "constructNext")
      /\ block' = [block EXCEPT ![n].localFront = block[n].front]
      /\ UNCHANGED <<frontBlock, tailBlock, largestBlockSize, sent, canAlloc, op, readBlock, elem, taken, walk>>
  BY <1>1 DEF UseNext, Step, consumerRegs, producerRegs
<1>4. /\ Blocks' = Blocks /\ BlocksTyped'
      /\ SameFront /\ SameLocalTail /\ SameTail /\ SameNext /\ SameSize /\ SameData
      /\ \A b \in Blocks : block'[b].localFront = IF b = n THEN block[n].front ELSE block[b].localFront
  BY <1>2, <1>3, BlockFacts, SetLocalFront
<1>5. HandsFree /\ "constructNext" \in ProducerLabels
  BY <1>3 DEF HandsFree, At, ProducerLabels
<1>6. /\ Types' /\ ConsumerAt' /\ Ring' /\ Filled' /\ Inside' /\ Chain' /\ pc'["producer"] = "constructNext"
      /\ Linked' = Linked /\ InUse' = InUse
  BY <1>2, <1>3, <1>4, <1>5, TypeFacts, ProducerQuiet
<1>7. Order'
  BY <1>2, <1>4, LocalFrontLoaded
<1>8. ProducerAt'
  <2>1. block'[tailBlock'].next = n /\ NextOfTail' = block'[n]
    BY <1>1, <1>2, <1>3, <1>4 DEF SameNext, NextOfTail
  <2>2. NextIsFree /\ Linked = Blocks
    BY <1>2, <1>3, <1>5, LinkedBlocks DEF ProducerAt, IInv, At
  <2>3. NextIsFree'
    BY <1>1, <1>3, <1>6, <2>1, <2>2 DEF NextIsFree
  <2>4. Empty(n)
    BY <1>1, <1>2, <1>5, <2>2, LinkedBlocks DEF NextIsFree, InUse
  <2>5. block'[n].localFront = block'[n].front /\ block'[n].front = block'[n].tail
    BY <1>2, <1>4, <2>4 DEF SameFront, SameTail, Empty
  <2> QED
    BY <1>6, <2>1, <2>3, <2>5 DEF ProducerAt, At
<1> QED
  BY <1>6, <1>7, <1>8 DEF IInv

(* No block can be allocated.                                               *)
LEMMA MakeBlockFailsPreserves ==
    ASSUME IInv, conf' = conf, MakeBlockFails
    PROVE  IInv'
<1>1. BlocksTyped /\ Order /\ Types
  BY RingFacts DEF IInv
<1>2. /\ At("producer", "makeBlock") /\ Goto("producer", "idle")
      /\ UNCHANGED <<block, frontBlock, tailBlock, largestBlockSize, sent, canAlloc, op, readBlock, elem,
         taken, walk>>
  BY DEF MakeBlockFails, Return, consumerRegs, producerRegs
<1>4. /\ Blocks' = Blocks /\ BlocksTyped'
      /\ SameFront /\ SameLocalTail /\ SameTail /\ SameLocalFront /\ SameNext /\ SameSize /\ SameData
  BY <1>1, <1>2, Untouched
<1>5. HandsFree /\ "idle" \in ProducerLabels
  BY <1>2 DEF HandsFree, At, ProducerLabels
<1>6. /\ Types' /\ ConsumerAt' /\ Ring' /\ Filled' /\ Inside' /\ Chain' /\ pc'["producer"] = "idle"
  BY <1>1, <1>2, <1>4, <1>5, TypeFacts, ProducerQuiet
<1>7. Order'
  BY <1>1, <1>4, OrderKept
<1>8. ProducerAt'
  BY <1>6 DEF ProducerAt, At
<1> QED
  BY <1>6, <1>7, <1>8 DEF IInv

(* An element is constructed at the tail of a block. *)
LEMMA Constructs ==
    ASSUME IInv, NEW x \in Blocks, NEW t, t = block[x].tail, Stored(x, t, sent + 1),
           UNCHANGED <<frontBlock, tailBlock, sent, elem, taken>>,
           Linked' = Linked, Pending' = Pending, Moved' = Moved, Made = {}, Made' = {<<x, t>>}
    PROVE  InUse' = InUse /\ Ring' /\ Order' /\ Filled' /\ Inside' /\ Chain'
<1>1. /\ BlocksTyped /\ Linked \subseteq Blocks /\ InUse \subseteq Linked
      /\ \A b \in InUse \ {frontBlock} : ~Empty(b)
  BY RingFacts
<1>2. Ring /\ Order /\ Filled /\ Inside /\ Chain /\ sent \in Nat /\ sent + 1 \in Nat
  BY TypeFacts DEF IInv
<1>3. t \in 0..(block[x].size - 1)
  BY <1>1, BlockFacts
<1>4. /\ Blocks' = Blocks
      /\ SameFront /\ SameLocalTail /\ SameTail /\ SameLocalFront /\ SameNext /\ SameSize
      /\ \A b \in Blocks : \A j \in 0..(block[b].size - 1) :
            block'[b].data[j] = IF b = x /\ j = t THEN sent + 1 ELSE block[b].data[j]
  BY <1>1, <1>2, <1>3, SetData
<1>5. InUse' = InUse
  BY <1>4, EmptyKept, InUseKept
<1>6. Ring'
  BY <1>1, <1>2, <1>4, <1>5, RingKept DEF SameNext
<1>7. Order'
  BY <1>2, <1>4, OrderKept
<1>8. \A b \in Blocks : Occupied(b)' = Occupied(b) /\ block'[b].size = block[b].size
  BY <1>4, InTheseTerms, InTheseTermsNext DEF SameFront, SameTail, SameSize
<1>9. \A b \in Blocks : Occupied(b) \subseteq 0..(block[b].size - 1)
  BY DEF Occupied
<1>10. t \notin Occupied(x)
  <2>1. PICK f, s : f = block[x].front /\ s = block[x].size
    OBVIOUS
  <2>2. s \in Nat /\ s >= 2 /\ f \in 0..(s - 1) /\ t \in 0..(s - 1)
    BY <1>1, <1>3, <2>1, BlockFacts
  <2>3. t \notin FromTo(f, t, s)
    BY <2>2, Slots
  <2> QED
    BY <2>1, <2>3, InTheseTerms
<1>11. Filled'
  <2> SUFFICES ASSUME NEW b \in Blocks', NEW i \in 0..(block'[b].size - 1)
               PROVE  block'[b].data[i] # Raw
                         <=> (i \in Occupied(b)' /\ <<b, i>> \notin Moved') \/ <<b, i>> \in Made'
    BY Zenon DEF Filled, Raw
  <2>0. b \in Blocks /\ i \in 0..(block[b].size - 1) /\ Occupied(b)' = Occupied(b)
    BY <1>4, <1>8
  <2>1. block[b].data[i] # Raw <=> (i \in Occupied(b) /\ <<b, i>> \notin Moved)
    BY <1>2, <2>0 DEF Filled
  <2>2. CASE b = x /\ i = t
    <3>1. block'[b].data[i] = sent + 1 /\ sent + 1 # Raw
      BY <1>2, <1>4, <2>0, <2>2 DEF Raw
    <3> QED
      BY <2>2, <3>1
  <2>3. CASE ~(b = x /\ i = t)
    <3>1. block'[b].data[i] = block[b].data[i] /\ <<b, i>> # <<x, t>>
      BY <1>4, <2>0, <2>3
    <3> QED
      BY <2>0, <2>1, <3>1
  <2> QED
    BY <2>2, <2>3
<1>12. \A b \in Blocks : \A i \in Occupied(b) : Val(b, i)' = Val(b, i)
  <2> SUFFICES ASSUME NEW b \in Blocks, NEW i \in Occupied(b)
               PROVE  block'[b].data[i] = block[b].data[i]
    BY Zenon DEF Val
  <2> QED
    BY <1>4, <1>9, <1>10
<1>13. Inside'
  BY <1>2, <1>4, <1>8, <1>12, InsideKept
<1>14. \A b \in InUse : /\ block'[b].front = block[b].front /\ block'[b].tail = block[b].tail
                        /\ block'[b].size = block[b].size
  BY <1>1, <1>4 DEF SameFront, SameTail, SameSize
<1>15. \A b \in InUse : block'[b].next = block[b].next /\ \A i \in Occupied(b) : Val(b, i)' = Val(b, i)
  BY <1>1, <1>4, <1>12 DEF SameNext
<1>16. Chain'
  BY <1>1, <1>2, <1>5, <1>14, <1>15, ChainKept
<1> QED
  BY <1>5, <1>6, <1>7, <1>11, <1>13, <1>16

(* An element is constructed in the tail block.                             *)
LEMMA ConstructPreserves ==
    ASSUME IInv, conf' = conf, Construct
    PROVE  IInv'
<1>1. PICK t : t = block[tailBlock].tail
  OBVIOUS
<1>2. BlocksTyped /\ Types /\ tailBlock \in Blocks /\ sent \in Nat /\ ConsumerAt /\ ProducerAt
  BY TypeFacts DEF IInv
<1>3. /\ At("producer", "construct") /\ Goto("producer", "publish")
      /\ Stored(tailBlock, t, sent + 1)
      /\ UNCHANGED <<frontBlock, tailBlock, largestBlockSize, sent, canAlloc, op, readBlock, elem, taken, walk>>
  BY <1>1 DEF Construct, Step, consumerRegs, producerRegs, Stored
<1>4. pc'["producer"] = "publish" /\ pc'["consumer"] = pc["consumer"] /\ pc' \in [Thread -> Label]
      /\ pc["producer"] = "construct"
  BY <1>2, <1>3, ProducerGoes DEF ProducerLabels, At
<1>5. t \in 0..(block[tailBlock].size - 1) /\ sent + 1 \in Nat
  BY <1>1, <1>2, BlockFacts
<1>6. /\ Len(block') = Len(block) /\ Blocks' = Blocks /\ BlocksTyped'
      /\ SameFront /\ SameLocalTail /\ SameTail /\ SameLocalFront /\ SameNext /\ SameSize
      /\ \A b \in Blocks : \A j \in 0..(block[b].size - 1) :
            block'[b].data[j] = IF b = tailBlock /\ j = t THEN sent + 1 ELSE block[b].data[j]
  BY <1>2, <1>3, <1>5, SetData
<1>7. Types'
  <2>1. "publish" \in ProducerLabels
    BY DEF ProducerLabels
  <2> QED
    BY <1>2, <1>3, <1>4, <1>6, <2>1, TypeFacts, TypesKept
<1>8. Linked' = Linked /\ Pending' = Pending /\ Made = {} /\ Made' = {<<tailBlock, t>>}
  <2>1. Linked' = Linked /\ Pending' = Pending /\ Made = {}
    BY <1>4, <1>6 DEF Linked, Pending, Made, At
  <2>2. Made' = {<<tailBlock', block'[tailBlock'].tail>>}
    BY <1>4 DEF Made, At
  <2> QED
    BY <1>1, <1>2, <1>3, <1>6, <2>1, <2>2 DEF SameTail
<1>9. \A b \in Linked : block'[b].front = block[b].front /\ block'[b].localTail = block[b].localTail
                        /\ block'[b].tail = block[b].tail /\ block'[b].next = block[b].next
  BY <1>6, RingFacts DEF SameFront, SameLocalTail, SameTail, SameNext
<1>10. ConsumerAt' /\ Moved' = Moved
  BY <1>2, <1>3, <1>4, <1>8, <1>9, RingFacts, ConsumerKept
<1>11. Ring' /\ Order' /\ Filled' /\ Inside' /\ Chain'
  BY <1>1, <1>2, <1>3, <1>8, <1>10, Constructs
<1>12. ProducerAt'
  <2>1. NextTail' = NextTail /\ block'[tailBlock].localFront = block[tailBlock].localFront
        /\ block'[tailBlock].tail = t
    BY <1>1, <1>2, <1>3, <1>6 DEF NextTail, Advance, SameTail, SameSize, SameLocalFront
  <2>2. block'[tailBlock].data[t] = sent + 1
    BY <1>2, <1>5, <1>6
  <2>3. NextTail # block[tailBlock].localFront
    BY <1>2, <1>4 DEF ProducerAt
  <2> QED
    BY <1>3, <1>4, <2>1, <2>2, <2>3 DEF ProducerAt, At
<1> QED
  BY <1>7, <1>10, <1>11, <1>12 DEF IInv

(* An element is constructed in the block after the tail block.             *)
LEMMA ConstructNextPreserves ==
    ASSUME IInv, conf' = conf, ConstructNext
    PROVE  IInv'
<1>0. PICK n : n = block[tailBlock].next
  OBVIOUS
<1>1. PICK t : t = block[n].tail
  OBVIOUS
<1>2. /\ BlocksTyped /\ Types /\ tailBlock \in Blocks /\ n \in Blocks /\ sent \in Nat /\ ConsumerAt
      /\ ProducerAt
  BY <1>0, TypeFacts, RingFacts DEF IInv
<1>3. /\ At("producer", "constructNext") /\ Goto("producer", "advanceTail")
      /\ Stored(n, t, sent + 1)
      /\ UNCHANGED <<frontBlock, tailBlock, largestBlockSize, sent, canAlloc, op, readBlock, elem, taken, walk>>
  BY <1>0, <1>1 DEF ConstructNext, Step, consumerRegs, producerRegs, Stored
<1>4. pc'["producer"] = "advanceTail" /\ pc'["consumer"] = pc["consumer"] /\ pc' \in [Thread -> Label]
      /\ pc["producer"] = "constructNext"
  BY <1>2, <1>3, ProducerGoes DEF ProducerLabels, At
<1>5. t \in 0..(block[n].size - 1) /\ sent + 1 \in Nat
  BY <1>1, <1>2, BlockFacts
<1>6. /\ Len(block') = Len(block) /\ Blocks' = Blocks /\ BlocksTyped'
      /\ SameFront /\ SameLocalTail /\ SameTail /\ SameLocalFront /\ SameNext /\ SameSize
      /\ \A b \in Blocks : \A j \in 0..(block[b].size - 1) :
            block'[b].data[j] = IF b = n /\ j = t THEN sent + 1 ELSE block[b].data[j]
  BY <1>2, <1>3, <1>5, SetData
<1>7. Types'
  <2>1. "advanceTail" \in ProducerLabels
    BY DEF ProducerLabels
  <2> QED
    BY <1>2, <1>3, <1>4, <1>6, <2>1, TypeFacts, TypesKept
<1>8. block'[tailBlock'].next = n /\ NextOfTail' = block'[n] /\ block'[n].tail = t
  BY <1>0, <1>1, <1>2, <1>3, <1>6 DEF NextOfTail, SameNext, SameTail
<1>9. Linked' = Linked /\ Pending' = Pending /\ Made = {} /\ Made' = {<<n, t>>}
  <2>1. Linked' = Linked /\ Pending' = Pending /\ Made = {}
    BY <1>4, <1>6 DEF Linked, Pending, Made, At
  <2>2. Made' = {<<block'[tailBlock'].next, NextOfTail'.tail>>}
    BY <1>4 DEF Made, At
  <2> QED
    BY <1>8, <2>1, <2>2
<1>10. \A b \in Linked : block'[b].front = block[b].front /\ block'[b].localTail = block[b].localTail
                        /\ block'[b].tail = block[b].tail /\ block'[b].next = block[b].next
  BY <1>6, RingFacts DEF SameFront, SameLocalTail, SameTail, SameNext
<1>11. ConsumerAt' /\ Moved' = Moved
  BY <1>2, <1>3, <1>4, <1>9, <1>10, RingFacts, ConsumerKept
<1>12. InUse' = InUse /\ Ring' /\ Order' /\ Filled' /\ Inside' /\ Chain'
  BY <1>1, <1>2, <1>3, <1>9, <1>11, Constructs
<1>13. ProducerAt'
  <2>1. NextIsFree /\ block[n].localFront = block[n].front /\ block[n].front = t
    BY <1>0, <1>1, <1>2, <1>4 DEF ProducerAt, NextOfTail
  <2>2. NextIsFree'
    BY <1>0, <1>3, <1>8, <1>9, <1>12, <2>1 DEF NextIsFree
  <2>3. block'[n].localFront = t /\ block'[n].front = t /\ block'[n].data[t] = sent + 1
    BY <1>2, <1>5, <1>6, <2>1 DEF SameLocalFront, SameFront
  <2> QED
    BY <1>3, <1>4, <1>8, <2>2, <2>3 DEF ProducerAt, At
<1> QED
  BY <1>7, <1>11, <1>12, <1>13 DEF IInv

(* The element that has been moved out is the first one of the front block. *)
LEMMA MovedIsFirst ==
    ASSUME IInv
    PROVE  /\ \A b, i : <<b, i>> \in Moved => b = frontBlock /\ i = block[frontBlock].front /\ i \in Occupied(b)
           /\ At("consumer", "release") => Moved = {<<frontBlock, block[frontBlock].front>>}
           /\ ~At("consumer", "release") => Moved = {}
<1>1. BlocksTyped /\ Order /\ frontBlock \in Blocks /\ ConsumerAt
  BY TypeFacts DEF IInv
<1>2. ~At("consumer", "release") => Moved = {}
  BY DEF Moved
<1>3. ASSUME At("consumer", "release")
      PROVE  Moved = {<<frontBlock, block[frontBlock].front>>}
         /\ block[frontBlock].front \in Occupied(frontBlock)
  <2>1. readBlock = frontBlock /\ block[frontBlock].front # block[frontBlock].localTail
    BY <1>1, <1>3 DEF ConsumerAt, HasOne
  <2>2. block[frontBlock].front # block[frontBlock].tail
    BY <1>1, <2>1, BlockFacts, SMT DEF Order, Between
  <2>3. block[frontBlock].front \in Occupied(frontBlock)
    BY <1>1, <2>2, EndsTaken DEF Empty
  <2> QED
    BY <1>3, <2>1, <2>3 DEF Moved
<1> QED
  BY <1>2, <1>3

(* The tail of a block goes past the element constructed there. *)
LEMMA Publishes ==
    ASSUME IInv, NEW x \in Blocks, NEW t, t = block[x].tail,
           block' = [block EXCEPT ![x].tail = Advance(t, x)], Advance(t, x) # block[x].localFront,
           elem' = elem, Moved' = Moved, Made = {<<x, t>>}, Made' = {},
           block[x].data[t] = sent + 1, ~Empty(x) => Latest(x) = sent
    PROVE  /\ Order' /\ Filled' /\ Inside'
           /\ \A b \in Blocks \ {x} : (Empty(b)' <=> Empty(b)) /\ Latest(b)' = Latest(b)
           /\ \A b \in Blocks : First(b)' = First(b) /\ \A i : Val(b, i)' = Val(b, i)
           /\ ~Empty(x)' /\ Latest(x)' = sent + 1 /\ (Empty(x) => First(x)' = sent + 1)
<1> DEFINE s == block[x].size
<1> DEFINE f == block[x].front
<1> DEFINE u == Round(t, s)
<1>1. BlocksTyped /\ Order /\ Filled /\ Inside /\ sent \in Nat
  BY TypeFacts DEF IInv
<1>2. /\ s \in Nat /\ s >= 2 /\ f \in 0..(s - 1) /\ t \in 0..(s - 1)
      /\ block[x].localFront \in 0..(s - 1) /\ block[x].localTail \in 0..(s - 1)
      /\ Between(block[x].localFront, f, t) /\ Between(f, block[x].localTail, t)
      /\ u # block[x].localFront /\ Advance(t, x) = u
  BY <1>1, BlockFacts, InTheseTerms DEF Order
<1>3. /\ u \in 0..(s - 1) /\ u # f
      /\ Between(block[x].localFront, f, u) /\ Between(f, block[x].localTail, u)
      /\ FromTo(f, u, s) = FromTo(f, t, s) \cup {t} /\ t \notin FromTo(f, t, s)
      /\ Back(u, s) = t
  <2> HIDE DEF s, f
  <2> QED
    BY <1>2, TailMoves
<1>4. block' = [block EXCEPT ![x].tail = u]
  BY <1>2
<1> HIDE DEF u
<1>5. /\ Blocks' = Blocks
      /\ SameFront /\ SameLocalTail /\ SameLocalFront /\ SameNext /\ SameSize /\ SameData
      /\ \A b \in Blocks : block'[b].tail = IF b = x THEN u ELSE block[b].tail
  BY <1>1, <1>3, <1>4, SetTail
<1>6. \A b \in Blocks \ {x} : Occupied(b)' = Occupied(b) /\ (Empty(b)' <=> Empty(b))
      /\ LastSlot(b)' = LastSlot(b)
  BY <1>5, InTheseTerms, InTheseTermsNext DEF SameFront, SameSize, Empty
<1>7. /\ Occupied(x)' = Occupied(x) \cup {t} /\ t \notin Occupied(x) /\ ~Empty(x)' /\ LastSlot(x)' = t
      /\ Occupied(x) = FromTo(f, t, s)
  <2>1. Occupied(x) = FromTo(f, t, s)
    BY InTheseTerms
  <2>2. block'[x].size = s /\ block'[x].front = f /\ block'[x].tail = u
    BY <1>5 DEF SameSize, SameFront
  <2>3. Occupied(x)' = FromTo(f, u, s) /\ LastSlot(x)' = Back(u, s)
    BY <2>2, InTheseTermsNext
  <2> QED
    BY <1>3, <2>1, <2>2, <2>3 DEF Empty
<1>8. \A b \in Blocks : \A i : Val(b, i)' = Val(b, i)
  BY <1>5 DEF Val, SameData
<1>9. \A b \in Blocks : \A i : Advance(i, b)' = Advance(i, b)
  BY <1>5, InTheseTerms, InTheseTermsNext DEF SameSize
<1>10. <<x, t>> \notin Moved
  BY <1>7, MovedIsFirst
<1>11. Val(x, t)' = sent + 1
  BY <1>8, <1>10 DEF Val
<1>12. Order'
  <2> SUFFICES ASSUME NEW b \in Blocks
               PROVE  /\ Between(block'[b].localFront, block'[b].front, block'[b].tail)
                      /\ Between(block'[b].front, block'[b].localTail, block'[b].tail)
    BY <1>5, Zenon DEF Order, Between
  <2>1. /\ block'[b].localFront = block[b].localFront /\ block'[b].localTail = block[b].localTail
        /\ block'[b].front = block[b].front /\ block'[b].tail = IF b = x THEN u ELSE block[b].tail
    BY <1>5 DEF SameFront, SameLocalFront, SameLocalTail
  <2>2. CASE b = x
    BY <1>3, <2>1, <2>2
  <2>3. CASE b # x
    BY <1>1, <2>1, <2>3 DEF Order
  <2> QED
    BY <2>2, <2>3
<1>13. Filled'
  <2> SUFFICES ASSUME NEW b \in Blocks', NEW i \in 0..(block'[b].size - 1)
               PROVE  block'[b].data[i] # Raw
                         <=> (i \in Occupied(b)' /\ <<b, i>> \notin Moved') \/ <<b, i>> \in Made'
    BY Zenon DEF Filled, Raw
  <2>1. b \in Blocks /\ i \in 0..(block[b].size - 1) /\ block'[b].data[i] = block[b].data[i]
    BY <1>5 DEF SameSize, SameData
  <2>2. block[b].data[i] # Raw <=> (i \in Occupied(b) /\ <<b, i>> \notin Moved) \/ <<b, i>> \in {<<x, t>>}
    BY <1>1, <2>1 DEF Filled
  <2>3. CASE b = x
    <3>1. i \in Occupied(b)' <=> i \in Occupied(b) \/ i = t
      BY <1>7, <2>3
    <3>2. i = t => <<b, i>> \notin Moved
      BY <1>10, <2>3
    <3>3. <<b, i>> \in {<<x, t>>} <=> i = t
      BY <2>3
    <3> QED
      BY <2>1, <2>2, <3>1, <3>2, <3>3
  <2>4. CASE b # x
    <3>1. Occupied(b)' = Occupied(b) /\ <<b, i>> \notin {<<x, t>>}
      BY <1>6, <2>1, <2>4
    <3> QED
      BY <2>1, <2>2, <3>1
  <2> QED
    BY <2>3, <2>4
<1>14. Inside'
  <2> SUFFICES ASSUME NEW b \in Blocks', NEW i \in Occupied(b)', NEW j \in Occupied(b)', j = Advance(i, b)'
               PROVE  Val(b, j)' = Val(b, i)' + 1
    BY Zenon DEF Inside
  <2>1. b \in Blocks /\ j = Advance(i, b) /\ Val(b, j)' = Val(b, j) /\ Val(b, i)' = Val(b, i)
    BY <1>5, <1>8, <1>9
  <2>2. CASE i \in Occupied(b) /\ j \in Occupied(b)
    BY <1>1, <2>1, <2>2 DEF Inside
  <2>3. CASE ~(i \in Occupied(b) /\ j \in Occupied(b))
    <3>1. b = x /\ (i = t \/ j = t)
      BY <1>6, <1>7, <2>1, <2>3
    <3>2. j = Round(i, s) /\ i \in FromTo(f, u, s) /\ j \in FromTo(f, u, s)
      BY <1>3, <1>7, <2>1, <3>1, InTheseTerms
    <3>3. i \in 0..(s - 1) /\ u \notin FromTo(f, u, s)
      <4> HIDE DEF s, f
      <4>1. FromTo(f, u, s) \subseteq 0..(s - 1) /\ u \notin FromTo(f, u, s)
        BY <1>2, <1>3, Slots
      <4> QED
        BY <3>2, <4>1
    <3>4. i # t
      BY <3>2, <3>3 DEF u
    <3>5. j = t /\ i \in Occupied(x)
      BY <1>7, <2>1, <3>1, <3>4
    <3>6. i = Back(t, s)
      <4> HIDE DEF s, f
      <4>1. \A k \in 0..(s - 1) : Round(k, s) = t => k = Back(t, s)
        BY <1>2, Slots
      <4> QED
        BY <3>2, <3>3, <3>5, <4>1
    <3>7. ~Empty(x)
      <4>1. Occupied(x) # {}
        BY <3>5
      <4>2. FromTo(f, t, s) = {} <=> f = t
        <5> HIDE DEF f, s
        <5> QED
          BY <1>2, Slots
      <4> QED
        BY <1>7, <4>1, <4>2 DEF Empty
    <3>8. Val(x, i) = sent
      BY <3>6, <3>7, InTheseTerms, FirstAndLatest
    <3> QED
      BY <1>11, <2>1, <3>1, <3>5, <3>8
  <2> QED
    BY <2>2, <2>3
<1>15. ASSUME NEW b \in Blocks PROVE First(b)' = First(b)
  <2>1. PICK g : g = block[b].front
    OBVIOUS
  <2>2. block'[b].front = g
    BY <1>5, <2>1 DEF SameFront
  <2> QED
    BY <1>8, <2>1, <2>2, FirstAndLatest, FirstAndLatestNext
<1>16. ASSUME NEW b \in Blocks \ {x} PROVE Latest(b)' = Latest(b)
  <2>1. PICK g : g = LastSlot(b)
    OBVIOUS
  <2>2. LastSlot(b)' = g
    BY <1>6, <2>1
  <2> QED
    BY <1>8, <2>1, <2>2, FirstAndLatest, FirstAndLatestNext
<1>17. Latest(x)' = sent + 1
  BY <1>7, <1>11, FirstAndLatestNext
<1>18. Empty(x) => First(x)' = sent + 1
  BY <1>8, <1>11, <1>15, FirstAndLatest DEF Empty
<1> QED
  BY <1>6, <1>7, <1>8, <1>12, <1>13, <1>14, <1>15, <1>16, <1>17, <1>18

(* The chain, with a name for each block. *)
LEMMA ChainAtNext ==
    ASSUME NEW x, NEW y, x = tailBlock', y = frontBlock',
           ~Empty(y)' => First(y)' = taken' + 1,
           \A b \in InUse' \ {x} : \A n : n = block'[b].next =>
               First(n)' = IF Empty(b)' THEN taken' + 1 ELSE Latest(b)' + 1,
           sent' = IF Empty(x)' THEN taken' ELSE Latest(x)'
    PROVE  Chain'
<1>1. (~Empty(frontBlock) => First(frontBlock) = taken + 1)'
  BY Zenon DEF Empty, First, Val
<1>2. (sent = IF Empty(tailBlock) THEN taken ELSE Latest(tailBlock))'
  BY Zenon DEF Empty, Latest, Val, LastSlot
<1>3. ASSUME NEW b \in InUse' \ {x}
      PROVE  (First(block[b].next) = IF Empty(b) THEN taken + 1 ELSE Latest(b) + 1)'
  <2>1. PICK n : n = block'[b].next
    OBVIOUS
  <2>2. First(n)' = IF Empty(b)' THEN taken' + 1 ELSE Latest(b)' + 1
    BY <2>1
  <2> QED
    BY <2>1, <2>2, Zenon DEF First, Val
<1> QED
  BY <1>1, <1>2, <1>3, Zenon DEF Chain

(* The tail of the tail block goes past the element.                        *)
LEMMA PublishPreserves ==
    ASSUME IInv, conf' = conf, Publish
    PROVE  IInv'
<1>1. PICK x, t, y : x = tailBlock /\ t = block[x].tail /\ y = frontBlock
  OBVIOUS
<1>2. /\ BlocksTyped /\ Types /\ x \in Blocks /\ sent \in Nat /\ ConsumerAt /\ ProducerAt /\ Ring /\ Chain
      /\ y \in Blocks
  BY <1>1, TypeFacts DEF IInv
<1>3. /\ At("producer", "publish") /\ Goto("producer", "idle")
      /\ block' = [block EXCEPT ![x].tail = Advance(t, x)] /\ sent' = sent + 1
      /\ UNCHANGED <<frontBlock, tailBlock, largestBlockSize, canAlloc, op, readBlock, elem, taken, walk>>
  BY <1>1 DEF Publish, Return, consumerRegs, NextTail
<1>4. pc'["producer"] = "idle" /\ pc'["consumer"] = pc["consumer"] /\ pc' \in [Thread -> Label]
      /\ pc["producer"] = "publish"
  BY <1>2, <1>3, ProducerGoes DEF ProducerLabels, At
<1>5. /\ Advance(t, x) # block[x].localFront /\ block[x].data[t] = sent + 1
      /\ Advance(t, x) \in 0..(block[x].size - 1)
  <2>1. Advance(t, x) # block[x].localFront /\ block[x].data[t] = sent + 1
    BY <1>1, <1>2, <1>4 DEF ProducerAt, NextTail, At
  <2>2. Advance(t, x) \in 0..(block[x].size - 1)
    BY <1>1, <1>2, BlockFacts DEF Advance
  <2> QED
    BY <2>1, <2>2
<1>6. /\ Len(block') = Len(block) /\ Blocks' = Blocks /\ BlocksTyped'
      /\ SameFront /\ SameLocalTail /\ SameLocalFront /\ SameNext /\ SameSize /\ SameData
      /\ \A b \in Blocks : block'[b].tail = IF b = x THEN Advance(t, x) ELSE block[b].tail
  BY <1>2, <1>3, <1>5, SetTail
<1>7. Types'
  <2>1. "idle" \in ProducerLabels
    BY DEF ProducerLabels
  <2> QED
    BY <1>2, <1>3, <1>4, <1>6, <2>1, TypeFacts, TypesKept
<1>8. Linked' = Linked /\ Pending' = {} /\ Pending = {} /\ Made = {<<x, t>>} /\ Made' = {}
  BY <1>1, <1>4, <1>6 DEF Linked, Pending, Made, At
<1>9. \A b \in Linked : block'[b].front = block[b].front /\ block'[b].localTail = block[b].localTail
                        /\ block'[b].next = block[b].next
                        /\ (b # x => block'[b].tail = block[b].tail)
  BY <1>6, RingFacts DEF SameFront, SameLocalTail, SameNext
<1>10. ConsumerAt' /\ Moved' = Moved
  BY <1>1, <1>2, <1>3, <1>4, <1>8, <1>9, RingFacts, ConsumerKept
<1>11. ~Empty(x) => Latest(x) = sent
  BY <1>1, <1>2 DEF Chain
<1>12. /\ Order' /\ Filled' /\ Inside'
       /\ \A b \in Blocks \ {x} : (Empty(b)' <=> Empty(b)) /\ Latest(b)' = Latest(b)
       /\ \A b \in Blocks : First(b)' = First(b)
       /\ ~Empty(x)' /\ Latest(x)' = sent + 1 /\ (Empty(x) => First(x)' = sent + 1)
  BY <1>1, <1>2, <1>3, <1>5, <1>8, <1>10, <1>11, Publishes
<1>13. InUse' = InUse
  <2>1. x \in InUse /\ y \in InUse
    BY <1>1, RingFacts
  <2>2. Empty(x) => x = y
    BY <1>1, <2>1 DEF InUse
  <2>3. InUse' = {y} \cup {b \in Blocks : ~Empty(b)'}
    BY <1>1, <1>3, <1>6, <1>8 DEF InUse
  <2>4. InUse = {y} \cup {b \in Blocks : ~Empty(b)}
    BY <1>1, <1>8 DEF InUse
  <2> QED
    BY <1>12, <2>2, <2>3, <2>4
<1>14. Ring'
  BY <1>2, <1>3, <1>8, <1>9, <1>13, RingKept
<1>15. ProducerAt'
  BY <1>4 DEF ProducerAt, At
<1>16. x = tailBlock' /\ y = frontBlock' /\ taken' = taken /\ sent' = sent + 1
  BY <1>1, <1>3
<1>17. ~Empty(y)' => First(y)' = taken + 1
  <2>1. ~Empty(y) => First(y) = taken + 1
    BY <1>1, <1>2 DEF Chain
  <2>2. Empty(x) => sent = taken
    BY <1>1, <1>2 DEF Chain
  <2> QED
    BY <1>2, <1>12, <2>1, <2>2
<1>18. ASSUME NEW b \in InUse \ {x}, NEW n, n = block[b].next
       PROVE  First(n)' = IF Empty(b)' THEN taken + 1 ELSE Latest(b)' + 1
  <2>1. First(n) = IF Empty(b) THEN taken + 1 ELSE Latest(b) + 1
    BY <1>1, <1>2, <1>18 DEF Chain
  <2>2. b \in Blocks /\ n \in Blocks
    BY <1>1, <1>18, RingFacts
  <2> QED
    BY <1>12, <2>1, <2>2
<1>19. \A b \in InUse \ {x} : block'[b].next = block[b].next
  BY <1>9, RingFacts
<1>20. Chain'
  BY <1>12, <1>13, <1>16, <1>17, <1>18, <1>19, ChainAtNext
<1> QED
  BY <1>7, <1>10, <1>12, <1>14, <1>15, <1>20 DEF IInv

(* The tail of the next block goes past the element.                        *)
LEMMA AdvanceTailPreserves ==
    ASSUME IInv, conf' = conf, AdvanceTail
    PROVE  IInv'
<1>1. PICK n, t, y : n = block[tailBlock].next /\ t = block[n].tail /\ y = frontBlock
  OBVIOUS
<1>2. /\ BlocksTyped /\ Types /\ n \in Blocks /\ tailBlock \in Blocks /\ sent \in Nat
      /\ ConsumerAt /\ ProducerAt /\ Ring /\ Chain /\ y \in Blocks
  BY <1>1, TypeFacts, RingFacts DEF IInv
<1>3. /\ At("producer", "advanceTail") /\ Goto("producer", "advanceBlock")
      /\ block' = [block EXCEPT ![n].tail = Advance(t, n)]
      /\ UNCHANGED <<frontBlock, tailBlock, largestBlockSize, sent, canAlloc, op, readBlock, elem, taken, walk>>
  BY <1>1 DEF AdvanceTail, Step, consumerRegs, producerRegs
<1>4. pc'["producer"] = "advanceBlock" /\ pc'["consumer"] = pc["consumer"] /\ pc' \in [Thread -> Label]
      /\ pc["producer"] = "advanceTail"
  BY <1>2, <1>3, ProducerGoes DEF ProducerLabels, At
<1>5. /\ NextIsFree /\ block[n].localFront = block[n].front /\ block[n].front = t /\ block[n].data[t] = sent + 1
  BY <1>1, <1>2, <1>4 DEF ProducerAt, NextOfTail, At
<1>6. Advance(t, n) # t /\ Advance(t, n) \in 0..(block[n].size - 1)
  <2>1. PICK s : s = block[n].size
    OBVIOUS
  <2>2. s \in Nat /\ s >= 2 /\ t \in 0..(s - 1) /\ Advance(t, n) = Round(t, s)
    BY <1>1, <1>2, <2>1, BlockFacts, InTheseTerms
  <2> QED
    BY <2>1, <2>2, SMT DEF Round
<1>7. /\ Len(block') = Len(block) /\ Blocks' = Blocks /\ BlocksTyped'
      /\ SameFront /\ SameLocalTail /\ SameLocalFront /\ SameNext /\ SameSize /\ SameData
      /\ \A b \in Blocks : block'[b].tail = IF b = n THEN Advance(t, n) ELSE block[b].tail
  BY <1>2, <1>3, <1>6, SetTail
<1>8. Types'
  <2>1. "advanceBlock" \in ProducerLabels
    BY DEF ProducerLabels
  <2> QED
    BY <1>2, <1>3, <1>4, <1>7, <2>1, TypeFacts, TypesKept
<1>9. block'[tailBlock'].next = n /\ NextOfTail' = block'[n]
  BY <1>1, <1>2, <1>3, <1>7 DEF NextOfTail, SameNext
<1>10. Linked' = Linked /\ Pending' = {n} /\ Pending = {} /\ Made = {<<n, t>>} /\ Made' = {}
  BY <1>1, <1>4, <1>7, <1>9 DEF Linked, Pending, Made, At, NextOfTail
<1>11. n # y /\ n \notin InUse /\ Empty(n)
  BY <1>1, <1>5 DEF NextIsFree, Empty
<1>12. \A b \in Linked : block'[b].front = block[b].front /\ block'[b].localTail = block[b].localTail
                        /\ block'[b].next = block[b].next
                        /\ (b # n => block'[b].tail = block[b].tail)
  BY <1>7, RingFacts DEF SameFront, SameLocalTail, SameNext
<1>13. ConsumerAt' /\ Moved' = Moved
  BY <1>1, <1>2, <1>3, <1>4, <1>10, <1>11, <1>12, RingFacts, ConsumerKept
<1>14. /\ Order' /\ Filled' /\ Inside'
       /\ \A b \in Blocks \ {n} : (Empty(b)' <=> Empty(b))
       /\ \A b \in Blocks : \A i : Val(b, i)' = Val(b, i)
  BY <1>1, <1>2, <1>3, <1>5, <1>6, <1>10, <1>11, <1>13, Publishes
<1>15. InUse' = InUse
  <2>1. InUse' = {y} \cup ({b \in Blocks : ~Empty(b)'} \ {n})
    BY <1>1, <1>3, <1>7, <1>10 DEF InUse
  <2>2. InUse = {y} \cup {b \in Blocks : ~Empty(b)}
    BY <1>1, <1>10 DEF InUse
  <2> QED
    BY <1>11, <1>14, <2>1, <2>2
<1>16. Ring'
  BY <1>2, <1>3, <1>10, <1>12, <1>15, RingKept
<1>17. \A b \in InUse : /\ block'[b].front = block[b].front /\ block'[b].tail = block[b].tail
                        /\ block'[b].size = block[b].size /\ block'[b].next = block[b].next
                        /\ \A i \in Occupied(b) : Val(b, i)' = Val(b, i)
  BY <1>7, <1>11, <1>12, <1>14, RingFacts DEF SameSize
<1>18. Chain'
  BY <1>2, <1>3, <1>15, <1>17, RingFacts, ChainKept
<1>19. ProducerAt'
  <2>1. NextIsFree'
    BY <1>1, <1>3, <1>5, <1>9, <1>10, <1>15 DEF NextIsFree
  <2>2. block'[n].front = t /\ block'[n].data[t] = sent + 1 /\ block'[n].tail = Advance(t, n)
        /\ block'[n].size = block[n].size
    BY <1>2, <1>5, <1>7 DEF SameFront, SameData, SameSize
  <2>3. (IF t + 1 = block'[n].size THEN 0 ELSE t + 1) = block'[n].tail
    BY <2>2 DEF Advance
  <2> QED
    BY <1>3, <1>4, <1>9, <2>1, <2>2, <2>3 DEF ProducerAt, At, Advance
<1> QED
  BY <1>8, <1>13, <1>14, <1>16, <1>18, <1>19 DEF IInv

(* The next block becomes the tail block, and its element part of the queue.*)
LEMMA AdvanceBlockPreserves ==
    ASSUME IInv, conf' = conf, AdvanceBlock
    PROVE  IInv'
<1>1. PICK x, n, y : x = tailBlock /\ n = block[x].next /\ y = frontBlock
  OBVIOUS
<1>2. /\ BlocksTyped /\ Types /\ x \in InUse /\ n \in Linked /\ y \in InUse /\ sent \in Nat
      /\ ConsumerAt /\ ProducerAt /\ Ring /\ Chain /\ Order /\ Filled /\ Inside
      /\ InUse \subseteq Linked /\ Linked \subseteq Blocks
  BY <1>1, TypeFacts, RingFacts DEF IInv
<1>3. /\ At("producer", "advanceBlock") /\ Goto("producer", "idle") /\ sent' = sent + 1 /\ tailBlock' = n
      /\ UNCHANGED <<block, frontBlock, largestBlockSize, canAlloc, op, readBlock, elem, taken, walk>>
  BY <1>1 DEF AdvanceBlock, Return, consumerRegs
<1>4. pc'["producer"] = "idle" /\ pc'["consumer"] = pc["consumer"] /\ pc' \in [Thread -> Label]
      /\ pc["producer"] = "advanceBlock"
  BY <1>2, <1>3, ProducerGoes DEF ProducerLabels, At
<1>5. /\ n # y /\ n \notin InUse /\ block[n].data[block[n].front] = sent + 1
      /\ Advance(block[n].front, n) = block[n].tail
  BY <1>1, <1>2, <1>4 DEF ProducerAt, NextIsFree, NextOfTail, At
<1>6. Round(block[n].front, block[n].size) = block[n].tail /\ ~Empty(n) /\ LastSlot(n) = block[n].front
  <2>1. /\ block[n].size \in Nat /\ block[n].size >= 2
        /\ block[n].front \in 0..(block[n].size - 1) /\ block[n].tail \in 0..(block[n].size - 1)
    BY <1>2, BlockFacts
  <2>2. Round(block[n].front, block[n].size) = block[n].tail
    BY <1>5, InTheseTerms
  <2>3. block[n].front # block[n].tail /\ Back(block[n].tail, block[n].size) = block[n].front
    <3>1. PICK f, t, s : f = block[n].front /\ t = block[n].tail /\ s = block[n].size
      OBVIOUS
    <3>2. s \in Nat /\ s >= 2 /\ f \in 0..(s - 1) /\ t \in 0..(s - 1) /\ Round(f, s) = t
      BY <2>1, <2>2, <3>1
    <3> QED
      BY <3>1, <3>2, SMT DEF Round, Back
  <2> QED
    BY <2>2, <2>3, InTheseTerms DEF Empty
<1>7. /\ Len(block') = Len(block) /\ Blocks' = Blocks /\ BlocksTyped'
      /\ SameFront /\ SameLocalTail /\ SameTail /\ SameLocalFront /\ SameNext /\ SameSize /\ SameData
  BY <1>2, <1>3, Untouched
<1>8. Types'
  <2>1. "idle" \in ProducerLabels
    BY DEF ProducerLabels
  <2> QED
    BY <1>2, <1>3, <1>4, <1>7, <2>1, TypeFacts, TypesKept
<1>9. Linked' = Linked /\ Pending' = {} /\ Pending = {n} /\ Made = {} /\ Made' = {}
  BY <1>1, <1>4, <1>7 DEF Linked, Pending, Made, At
<1>10. ConsumerAt' /\ Moved' = Moved
  BY <1>1, <1>2, <1>3, <1>4, <1>5, <1>9, RingFacts, ConsumerKept
<1>11. Order'
  BY <1>2, <1>7, OrderKept
<1>12. Filled'
  BY <1>2, <1>7, <1>9, <1>10, FilledKept
<1>13. \A b \in Blocks : Occupied(b)' = Occupied(b) /\ (Empty(b)' <=> Empty(b)) /\ \A i : Val(b, i)' = Val(b, i)
  BY <1>3, <1>7, <1>10, InTheseTerms, InTheseTermsNext DEF SameFront, SameTail, SameSize, Empty, Val
<1>14. Inside'
  BY <1>2, <1>7, <1>13, InsideKept
<1>15. InUse' = InUse \cup {n}
  <2>1. InUse' = {y} \cup {b \in Blocks : ~Empty(b)'}
    BY <1>1, <1>3, <1>7, <1>9 DEF InUse
  <2>2. InUse = {y} \cup ({b \in Blocks : ~Empty(b)} \ {n})
    BY <1>1, <1>9 DEF InUse
  <2> QED
    BY <1>2, <1>6, <1>13, <2>1, <2>2
<1>16. Ring'
  <2>1. /\ \A b \in InUse \ {x} : block[b].next \in InUse \ {y}
        /\ \A b \in InUse \ {y} : \E a \in InUse \ {x} : block[a].next = b
        /\ \A a, b \in Linked : block[a].next = block[b].next => a = b
    BY <1>1, <1>2 DEF Ring
  <2>2. /\ \A b \in Linked' : block'[b].next \in Linked'
        /\ \A a, b \in Linked' : block'[a].next = block'[b].next => a = b
        /\ \A S \in SUBSET Linked' : S # {} /\ (\A b \in S : block'[b].next \in S) => S = Linked'
    BY <1>2, <1>3, <1>9 DEF Ring
  <2>3. InUse' \subseteq Linked' /\ tailBlock' \in InUse'
    BY <1>2, <1>3, <1>9, <1>15
  <2>4. \A b \in InUse' \ {n} : block[b].next \in InUse' \ {y}
    BY <1>1, <1>5, <1>15, <2>1
  <2>5. \A b \in InUse' \ {y} : \E a \in InUse' \ {n} : block[a].next = b
    <3> SUFFICES ASSUME NEW b \in InUse' \ {y} PROVE \E a \in InUse' \ {n} : block[a].next = b
      OBVIOUS
    <3>1. CASE b = n
      BY <1>1, <1>2, <1>5, <1>15, <3>1
    <3>2. CASE b # n
      <4>1. PICK a \in InUse \ {x} : block[a].next = b
        BY <1>15, <2>1, <3>2
      <4> QED
        BY <1>5, <1>15, <4>1
    <3> QED
      BY <3>1, <3>2
  <2>6. block[n].next \notin InUse' \ {y}
    <3> SUFFICES ASSUME block[n].next \in InUse' \ {y} PROVE FALSE
      OBVIOUS
    <3>1. CASE block[n].next = n
      BY <1>1, <1>2, <1>5, <2>1, <3>1
    <3>2. CASE block[n].next # n
      <4>1. PICK a \in InUse \ {x} : block[a].next = block[n].next
        BY <1>15, <2>1, <3>2
      <4> QED
        BY <1>2, <1>5, <2>1, <4>1
    <3> QED
      BY <3>1, <3>2
  <2>7. block' = block /\ tailBlock' = n /\ frontBlock' = y
    BY <1>1, <1>3
  <2> QED
    BY <2>2, <2>3, <2>4, <2>5, <2>6, <2>7, Zenon DEF Ring
<1>17. ProducerAt'
  BY <1>4 DEF ProducerAt, At
<1>18. Chain'
  <2>1. ASSUME NEW b \in Blocks PROVE First(b)' = First(b) /\ Latest(b)' = Latest(b)
    BY <1>3, <1>10 DEF First, Latest, Val, LastSlot
  <2>2. Latest(n) = First(n) /\ First(n) = sent + 1
    <3>1. <<n, block[n].front>> \notin Moved
      BY <1>1, <1>5, MovedIsFirst
    <3>2. First(n) = sent + 1
      BY <1>5, <3>1 DEF First, Val
    <3> QED
      BY <1>6, <3>2 DEF First, Latest
  <2>3. ~Empty(y)' => First(y)' = taken' + 1
    BY <1>1, <1>2, <1>3, <1>13, <2>1 DEF Chain
  <2>4. sent' = IF Empty(n)' THEN taken' ELSE Latest(n)'
    BY <1>2, <1>3, <1>6, <1>13, <2>1, <2>2
  <2>5. ASSUME NEW b \in InUse' \ {n}, NEW m, m = block'[b].next
        PROVE  First(m)' = IF Empty(b)' THEN taken' + 1 ELSE Latest(b)' + 1
    <3>1. b \in InUse /\ b \in Blocks /\ m = block[b].next /\ m \in Blocks
      BY <1>2, <1>3, <1>15, <2>5, BlockFacts
    <3>2. First(m) = IF Empty(b) THEN taken + 1 ELSE Latest(b) + 1
      <4>1. CASE b = x
        BY <1>1, <1>2, <2>2, <3>1, <4>1 DEF Chain
      <4>2. CASE b # x
        BY <1>1, <1>2, <3>1, <4>2 DEF Chain
      <4> QED
        BY <4>1, <4>2
    <3> QED
      BY <1>3, <1>13, <2>1, <3>1, <3>2
  <2>6. n = tailBlock' /\ y = frontBlock'
    BY <1>1, <1>3
  <2> QED
    BY <2>3, <2>4, <2>5, <2>6, ChainAtNext
<1> QED
  BY <1>8, <1>10, <1>11, <1>12, <1>14, <1>16, <1>17, <1>18 DEF IInv

(* The block that is allocated, with its first element. *)
Fresh(s, n, v) == [NewBlock(s, n) EXCEPT !.data[0] = v, !.tail = 1, !.localTail = 1]

(* A block is appended to those there are.                                  *)
LEMMA BlockMade ==
    ASSUME NEW s \in Nat, s >= 2, NEW n \in Nat, NEW v \in Nat, NEW r, r = Fresh(s, n, v)
    PROVE  /\ r \in BlockRec /\ r.front = 0 /\ r.localTail = 1 /\ r.tail = 1 /\ r.localFront = 0
           /\ r.next = n /\ r.size = s /\ r.data \in [0..(s - 1) -> Nat]
           /\ \A i \in 0..(s - 1) : r.data[i] = IF i = 0 THEN v ELSE Raw
<1> DEFINE e == [i \in 0..(s - 1) |-> Raw]
<1> DEFINE d == [e EXCEPT ![0] = v]
<1>1. e \in [0..(s - 1) -> Nat] /\ 0 \in 0..(s - 1)
  BY DEF Raw
<1>2. d \in [0..(s - 1) -> Nat] /\ \A i \in 0..(s - 1) : d[i] = IF i = 0 THEN v ELSE Raw
  BY <1>1
<1>3. d \in DataArray
  BY <1>2 DEF DataArray
<1>4. r = [[front |-> 0, localTail |-> 0, tail |-> 0, localFront |-> 0, next |-> n, size |-> s, data |-> e]
              EXCEPT !.data = d, !.tail = 1, !.localTail = 1]
  BY DEF NewBlock, Fresh
<1> HIDE DEF d, e
<1>5. r = [front |-> 0, localTail |-> 1, tail |-> 1, localFront |-> 0, next |-> n, size |-> s, data |-> d]
  BY <1>4
<1>6. r \in BlockRec
  BY <1>3, <1>5 DEF BlockRec
<1>7. /\ r.front = 0 /\ r.localTail = 1 /\ r.tail = 1 /\ r.localFront = 0
      /\ r.next = n /\ r.size = s /\ r.data = d
  BY <1>5
<1> QED
  BY <1>2, <1>6, <1>7

(* A block is made, with the element in it, that nobody else can see.       *)
LEMMA MakeBlockPreserves ==
    ASSUME IInv, conf' = conf, MakeBlock
    PROVE  IInv'
<1>1. PICK k, n, r : /\ k = Len(block) + 1 /\ n = block[tailBlock].next
                     /\ r = Fresh(NewBlockSize, n, sent + 1)
  OBVIOUS
<1>2. /\ BlocksTyped /\ Types /\ n \in Linked /\ Linked \subseteq Blocks /\ sent \in Nat /\ sent + 1 \in Nat
      /\ ConsumerAt /\ ProducerAt /\ Ring /\ Chain /\ Order /\ Filled /\ Inside
      /\ InUse \subseteq Linked /\ tailBlock \in InUse /\ frontBlock \in InUse
  BY <1>1, TypeFacts, RingFacts DEF IInv
<1>3. /\ At("producer", "makeBlock") /\ Goto("producer", "link")
      /\ block' = Append(block, r) /\ largestBlockSize' = NewBlockSize
      /\ UNCHANGED <<frontBlock, tailBlock, canAlloc, sent, op, readBlock, elem, taken, walk>>
  BY <1>1 DEF MakeBlock, Step, consumerRegs, Fresh
<1>4. pc'["producer"] = "link" /\ pc'["consumer"] = pc["consumer"] /\ pc' \in [Thread -> Label]
      /\ pc["producer"] = "makeBlock"
  BY <1>2, <1>3, ProducerGoes DEF ProducerLabels, At
<1>5. NewBlockSize \in Nat /\ NewBlockSize >= 2
  <2>1. largestBlockSize \in Nat /\ largestBlockSize >= 2
    BY <1>2, TypeFacts
  <2> QED
    BY <2>1, SMT DEF NewBlockSize
<1>6. /\ r \in BlockRec /\ r.front = 0 /\ r.localTail = 1 /\ r.tail = 1 /\ r.localFront = 0
      /\ r.next = n /\ r.size = NewBlockSize /\ r.data \in [0..(r.size - 1) -> Nat]
      /\ \A i \in 0..(r.size - 1) : r.data[i] = IF i = 0 THEN sent + 1 ELSE Raw
  <2>1. n \in Nat
    BY <1>2, BlockFacts
  <2>2. PICK s, v : s = NewBlockSize /\ v = sent + 1
    OBVIOUS
  <2>3. /\ s \in Nat /\ s >= 2 /\ v \in Nat
        /\ r = Fresh(s, n, v)
    BY <1>1, <1>2, <1>5, <2>2
  <2>4. /\ r \in BlockRec /\ r.front = 0 /\ r.localTail = 1 /\ r.tail = 1 /\ r.localFront = 0
        /\ r.next = n /\ r.size = s /\ r.data \in [0..(s - 1) -> Nat]
        /\ \A i \in 0..(s - 1) : r.data[i] = IF i = 0 THEN v ELSE Raw
    BY <2>1, <2>3, BlockMade
  <2> QED
    BY <2>2, <2>4
<1>7. /\ block' \in Seq(BlockRec) /\ Len(block') = k /\ block'[k] = r /\ k \in Nat \ {0} /\ k = Len(block) + 1
      /\ \A b \in 1..Len(block) : block'[b] = block[b]
  <2>1. block \in Seq(BlockRec) /\ Len(block) \in Nat
    BY <1>2, LenProperties DEF BlocksTyped
  <2> QED
    BY <1>1, <1>3, <1>6, <2>1, AppendProperties
<1>8. /\ Blocks' = Blocks \cup {k} /\ k \notin Blocks /\ \A b \in Blocks : block'[b] = block[b]
  <2>1. Len(block) \in Nat /\ Blocks = 1..Len(block)
    BY <1>2, LenProperties DEF BlocksTyped, Blocks
  <2>2. Blocks' = 1..k
    BY <1>7 DEF Blocks
  <2> QED
    BY <1>7, <2>1, <2>2
<1>9. BlocksTyped'
  <2>1. block' # <<>>
    BY <1>7, EmptySeq
  <2>2. ASSUME NEW b \in Blocks' PROVE BlockType(block[b])' /\ block'[b].size >= 2
    <3>1. CASE b \in Blocks
      <4>1. BlockType(block[b]) /\ block[b].size >= 2 /\ block'[b] = block[b]
        BY <1>2, <1>8, <3>1 DEF BlocksTyped
      <4> QED
        BY <1>8, <4>1 DEF BlockType
    <3>2. CASE b = k
      <4>1. block'[b] = r /\ n \in Blocks'
        BY <1>2, <1>7, <1>8, <3>2
      <4>2. /\ r.size \in Nat \ {0} /\ {r.front, r.localTail, r.tail, r.localFront} \subseteq 0..(r.size - 1)
            /\ r.next \in Blocks' /\ r.data \in [0..(r.size - 1) -> Nat] /\ r.size >= 2
        BY <1>5, <1>6, <4>1
      <4> QED
        BY <4>1, <4>2 DEF BlockType
    <3> QED
      BY <1>8, <3>1, <3>2
  <2> QED
    BY <1>7, <2>1, <2>2 DEF BlocksTyped
<1>10. Types'
  <2>1. "link" \in ProducerLabels
    BY DEF ProducerLabels
  <2> QED
    BY <1>2, <1>3, <1>4, <1>5, <1>8, <1>9, <2>1, TypeFacts, TypesKept
<1>11. Linked' = Linked /\ Linked = Blocks /\ Pending' = {k} /\ Pending = {} /\ Made = {} /\ Made' = {}
  <2>1. Linked = Blocks /\ Pending = {} /\ Made = {}
    BY <1>4 DEF Linked, Pending, Made, At
  <2>2. Pending' = {k} /\ Made' = {} /\ Linked' = Blocks' \ {k}
    BY <1>4, <1>7 DEF Linked, Pending, Made, At
  <2> QED
    BY <1>8, <2>1, <2>2
<1>12. ConsumerAt' /\ Moved' = Moved
  BY <1>2, <1>3, <1>4, <1>8, <1>11, RingFacts, ConsumerKept
<1>13. \A b \in Blocks : /\ Occupied(b)' = Occupied(b) /\ (Empty(b)' <=> Empty(b))
                         /\ \A i : Val(b, i)' = Val(b, i) /\ Advance(i, b)' = Advance(i, b)
  BY <1>3, <1>8, <1>12, InTheseTerms, InTheseTermsNext DEF Empty, Val
<1>14. InUse' = InUse
  <2>1. InUse' = {frontBlock} \cup ({b \in Blocks' : ~Empty(b)'} \ {k})
    BY <1>3, <1>11 DEF InUse
  <2>2. InUse = {frontBlock} \cup {b \in Blocks : ~Empty(b)}
    BY <1>11 DEF InUse
  <2> QED
    BY <1>8, <1>13, <2>1, <2>2
<1>15. Ring'
  BY <1>2, <1>3, <1>8, <1>11, <1>14, RingKept
<1>16. Chain'
  <2>1. \A b \in InUse : block'[b] = block[b] /\ \A i : Val(b, i)' = Val(b, i)
    BY <1>2, <1>8, <1>13
  <2> QED
    BY <1>2, <1>3, <1>14, <2>1, RingFacts, ChainKept
<1>17. Occupied(k)' = {0} /\ \A i : Advance(i, k)' = Round(i, r.size)
  <2>1. Round(0, r.size) = 1
    BY <1>5, <1>6, SMT DEF Round
  <2>2. FromTo(0, 1, r.size) = {0}
    BY <1>5, <1>6, <2>1, SMT DEF FromTo
  <2> QED
    BY <1>6, <1>7, <2>2, InTheseTermsNext
<1>18. Order'
  <2> SUFFICES ASSUME NEW b \in Blocks'
               PROVE  /\ Between(block'[b].localFront, block'[b].front, block'[b].tail)
                      /\ Between(block'[b].front, block'[b].localTail, block'[b].tail)
    BY Zenon DEF Order, Between
  <2>1. CASE b \in Blocks
    BY <1>2, <1>8, <2>1 DEF Order
  <2>2. CASE b = k
    BY <1>6, <1>7, <2>2 DEF Between
  <2> QED
    BY <1>8, <2>1, <2>2
<1>19. k # frontBlock
  BY <1>2, <1>8
<1>20. Filled'
  <2> SUFFICES ASSUME NEW b \in Blocks', NEW i \in 0..(block'[b].size - 1)
               PROVE  block'[b].data[i] # Raw
                         <=> (i \in Occupied(b)' /\ <<b, i>> \notin Moved') \/ <<b, i>> \in Made'
    BY Zenon DEF Filled, Raw
  <2>1. CASE b \in Blocks
    <3>1. block'[b] = block[b] /\ Occupied(b)' = Occupied(b)
      BY <1>8, <1>13, <2>1
    <3> QED
      BY <1>2, <1>11, <1>12, <2>1, <3>1 DEF Filled
  <2>2. CASE b = k
    <3>1. <<b, i>> \notin Moved
      BY <1>19, <2>2, MovedIsFirst
    <3>2. block'[b].data[i] # Raw <=> i = 0
      BY <1>2, <1>6, <1>7, <2>2 DEF Raw
    <3> QED
      BY <1>11, <1>12, <1>17, <2>2, <3>1, <3>2
  <2> QED
    BY <1>8, <2>1, <2>2
<1>21. Inside'
  <2> SUFFICES ASSUME NEW b \in Blocks', NEW i \in Occupied(b)', NEW j \in Occupied(b)', j = Advance(i, b)'
               PROVE  Val(b, j)' = Val(b, i)' + 1
    BY Zenon DEF Inside
  <2>1. CASE b \in Blocks
    <3>1. i \in Occupied(b) /\ j \in Occupied(b) /\ j = Advance(i, b)
      BY <1>13, <2>1
    <3>2. Val(b, j) = Val(b, i) + 1
      BY <1>2, <2>1, <3>1 DEF Inside
    <3> QED
      BY <1>13, <2>1, <3>2
  <2>2. CASE b = k
    <3>1. i = 0 /\ j = 0 /\ j = Round(i, r.size)
      BY <1>17, <2>2
    <3>2. Round(0, r.size) # 0
      BY <1>5, <1>6, SMT DEF Round
    <3> QED
      BY <3>1, <3>2
  <2> QED
    BY <1>8, <2>1, <2>2
<1>22. ProducerAt'
  <2>1. 0 \in 0..(r.size - 1)
    BY <1>5, <1>6
  <2>2. r.data[0] = sent' + 1
    BY <1>3, <1>6, <2>1
  <2>3. r.next = block'[tailBlock'].next
    BY <1>1, <1>2, <1>3, <1>6, <1>8
  <2> QED
    BY <1>4, <1>6, <1>7, <2>2, <2>3 DEF ProducerAt, At
<1> QED
  BY <1>10, <1>12, <1>15, <1>16, <1>18, <1>20, <1>21, <1>22 DEF IInv

(* The new block is linked in after the tail block.                         *)
LEMMA LinkPreserves ==
    ASSUME IInv, conf' = conf, Link
    PROVE  IInv'
<1>1. PICK x, k, n, y : x = tailBlock /\ k = Len(block) /\ n = block[x].next /\ y = frontBlock
  OBVIOUS
<1>2. /\ BlocksTyped /\ Types /\ n \in Linked /\ Linked \subseteq Blocks /\ x \in Blocks /\ k \in Blocks
      /\ ConsumerAt /\ ProducerAt /\ Ring /\ Chain /\ Order /\ Filled /\ Inside
      /\ InUse \subseteq Linked /\ x \in InUse /\ y \in InUse
  BY <1>1, TypeFacts, RingFacts, LinkedBlocks DEF IInv
<1>3. /\ At("producer", "link") /\ Goto("producer", "advanceBlock")
      /\ block' = [block EXCEPT ![x].next = k]
      /\ UNCHANGED <<frontBlock, tailBlock, largestBlockSize, sent, canAlloc, op, readBlock, elem, taken, walk>>
  BY <1>1 DEF Link, Step, consumerRegs, producerRegs
<1>4. pc'["producer"] = "advanceBlock" /\ pc'["consumer"] = pc["consumer"] /\ pc' \in [Thread -> Label]
      /\ pc["producer"] = "link"
  BY <1>2, <1>3, ProducerGoes DEF ProducerLabels, At
<1>5. /\ Len(block') = Len(block) /\ Blocks' = Blocks /\ BlocksTyped'
      /\ SameFront /\ SameLocalTail /\ SameTail /\ SameLocalFront /\ SameSize /\ SameData
      /\ \A b \in Blocks : block'[b].next = IF b = x THEN k ELSE block[b].next
  BY <1>2, <1>3, SetNext
<1>6. Types'
  <2>1. "advanceBlock" \in ProducerLabels
    BY DEF ProducerLabels
  <2> QED
    BY <1>2, <1>3, <1>4, <1>5, <2>1, TypeFacts, TypesKept
<1>7. block'[tailBlock'].next = k /\ NextOfTail' = block'[k]
  BY <1>1, <1>2, <1>3, <1>5 DEF NextOfTail
<1>8. Linked = Blocks \ {k} /\ Linked' = Blocks /\ Pending' = {k} /\ Pending = {k} /\ Made = {} /\ Made' = {}
  BY <1>1, <1>4, <1>5, <1>7 DEF Linked, Pending, Made, At
<1>9. \A b \in Linked : block'[b].front = block[b].front /\ block'[b].localTail = block[b].localTail
                        /\ block'[b].tail = block[b].tail /\ (b # x => block'[b].next = block[b].next)
  BY <1>2, <1>5 DEF SameFront, SameLocalTail, SameTail
<1>10. ConsumerAt' /\ Moved' = Moved
  BY <1>1, <1>2, <1>3, <1>4, <1>8, <1>9, RingFacts, ConsumerKept
<1>11. InUse' = InUse
  BY <1>3, <1>5, <1>8, EmptyKept, InUseKept
<1>12. Order'
  BY <1>2, <1>5, OrderKept
<1>13. Filled'
  BY <1>2, <1>5, <1>8, <1>10, FilledKept
<1>14. \A b \in Blocks : Occupied(b)' = Occupied(b) /\ \A i : Val(b, i)' = Val(b, i)
  BY <1>3, <1>5, <1>10, InTheseTerms, InTheseTermsNext DEF SameFront, SameTail, SameSize, SameData, Val
<1>15. Inside'
  BY <1>2, <1>5, <1>14, InsideKept
<1>16. Chain'
  <2>1. \A b \in InUse : /\ block'[b].front = block[b].front /\ block'[b].tail = block[b].tail
                         /\ block'[b].size = block[b].size /\ (b # x => block'[b].next = block[b].next)
                         /\ \A i : Val(b, i)' = Val(b, i)
    BY <1>2, <1>5, <1>9, <1>14 DEF SameSize
  <2> QED
    BY <1>1, <1>2, <1>3, <1>11, <2>1, RingFacts, ChainKept
<1>17. block[k].next = n /\ block[k].front = 0 /\ block[k].tail = 1 /\ block[k].data[0] = sent + 1
  BY <1>1, <1>2, <1>4 DEF ProducerAt, At
<1>18. /\ k \notin Linked /\ x \in Linked /\ n # k /\ k # x
       /\ block'[x].next = k /\ block'[k].next = n
       /\ \A b \in Linked \ {x} : /\ block'[b].next = block[b].next /\ block[b].next \in Linked
                                  /\ block[b].next # n
  <2>1. k \notin Linked /\ x \in Linked /\ n # k /\ k # x
    BY <1>2, <1>8
  <2>2. \A b \in Linked \ {x} : block[b].next \in Linked /\ block[b].next # n
    BY <1>1, <1>2, <2>1 DEF Ring
  <2> QED
    BY <1>2, <1>5, <1>17, <2>1, <2>2
<1>19. Ring'
  <2>1. \A b \in Linked' : block'[b].next \in Linked'
    BY <1>2, <1>8, <1>18
  <2>2. \A a, b \in Linked' : block'[a].next = block'[b].next => a = b
    <3>1. \A a, b \in Linked : block[a].next = block[b].next => a = b
      BY <1>2 DEF Ring
    <3>2. Linked' = Linked \cup {k}
      BY <1>2, <1>8
    <3>3. \A a, b \in Linked \ {x} : block'[a].next = block'[b].next => a = b
      BY <1>18, <3>1
    <3>4. \A b \in Linked \ {x} : block'[b].next # k /\ block'[b].next # n
      BY <1>18
    <3> QED
      BY <1>18, <3>2, <3>3, <3>4
  <2>3. \A S \in SUBSET Linked' : S # {} /\ (\A b \in S : block'[b].next \in S) => S = Linked'
    <3> SUFFICES ASSUME NEW S \in SUBSET Linked', S # {}, \A b \in S : block'[b].next \in S PROVE S = Linked'
      BY Zenon
    <3>1. Linked' = Linked \cup {k}
      BY <1>2, <1>8
    <3>2. S \ {k} \in SUBSET Linked /\ S \ {k} # {}
      <4>1. k \in S => n \in S
        BY <1>18
      <4> QED
        BY <1>18, <3>1, <4>1
    <3>3. \A b \in S \ {k} : block[b].next \in S \ {k}
      <4> SUFFICES ASSUME NEW b \in S \ {k} PROVE block[b].next \in S \ {k}
        OBVIOUS
      <4>1. CASE b = x
        <5>1. k \in S
          BY <1>18, <4>1
        <5>2. n \in S
          BY <1>18, <5>1
        <5> QED
          BY <1>1, <1>18, <4>1, <5>2
      <4>2. CASE b # x
        <5>1. b \in Linked \ {x}
          BY <3>2, <4>2
        <5>2. block'[b].next \in S
          OBVIOUS
        <5> QED
          BY <1>18, <5>1, <5>2
      <4> QED
        BY <4>1, <4>2
    <3>4. S \ {k} = Linked
      <4>1. \A R \in SUBSET Linked : R # {} /\ (\A b \in R : block[b].next \in R) => R = Linked
        BY <1>2 DEF Ring
      <4> QED
        BY <3>2, <3>3, <4>1, Zenon
    <3>5. k \in S
      BY <1>18, <3>4
    <3> QED
      BY <3>1, <3>4, <3>5
  <2>4. InUse' \subseteq Linked' /\ tailBlock' \in InUse'
    BY <1>1, <1>2, <1>3, <1>8, <1>11
  <2>5. \A b \in InUse' \ {x} : block'[b].next = block[b].next
    BY <1>2, <1>11, <1>18
  <2>6. \A b \in InUse' \ {tailBlock'} : block'[b].next \in InUse' \ {frontBlock'}
    BY <1>1, <1>2, <1>3, <1>11, <2>5 DEF Ring
  <2>7. \A b \in InUse' \ {frontBlock'} : \E a \in InUse' \ {tailBlock'} : block'[a].next = b
    <3>1. \A b \in InUse \ {y} : \E a \in InUse \ {x} : block[a].next = b
      BY <1>1, <1>2 DEF Ring
    <3> QED
      BY <1>1, <1>3, <1>11, <2>5, <3>1
  <2>8. block'[tailBlock'].next \notin InUse' \ {frontBlock'}
    BY <1>2, <1>7, <1>11, <1>18
  <2> QED
    BY <2>1, <2>2, <2>3, <2>4, <2>6, <2>7, <2>8, Zenon DEF Ring
<1>20. ProducerAt'
  <2>1. NextIsFree'
    BY <1>1, <1>2, <1>3, <1>7, <1>8, <1>11, <1>18 DEF NextIsFree
  <2>2. block'[k].front = 0 /\ block'[k].tail = 1 /\ block'[k].data[0] = sent + 1
        /\ block'[k].size = block[k].size
    BY <1>2, <1>5, <1>17 DEF SameFront, SameTail, SameData, SameSize
  <2>3. block[k].size \in Nat /\ block[k].size >= 2
    BY <1>2, BlockFacts
  <2>4. (IF 0 + 1 = block'[k].size THEN 0 ELSE 0 + 1) = block'[k].tail
    BY <2>2, <2>3, SMT
  <2> QED
    BY <1>3, <1>4, <1>7, <2>1, <2>2, <2>4 DEF ProducerAt, At, Advance
<1> QED
  BY <1>6, <1>10, <1>12, <1>13, <1>15, <1>16, <1>19, <1>20 DEF IInv

-----------------------------------------------------------------------------
(* Each action preserves the invariant: the consumer *)

(* A step of the consumer that neither moves an element nor the front.      *)
LEMMA ConsumerQuiet ==
    ASSUME IInv, conf' = conf, NEW l \in ConsumerLabels, Goto("consumer", l), ~At("consumer", "release"),
           l # "release", BlocksTyped', Len(block') = Len(block), Blocks' = Blocks,
           SameFront, SameTail, SameLocalFront, SameNext, SameSize, SameData,
           \A b \in Blocks \ InUse : block'[b].localTail = block[b].localTail,
           UNCHANGED <<frontBlock, tailBlock, largestBlockSize, sent, canAlloc, elem, taken, walk>>,
           readBlock' \in Blocks, op' \in {"dequeue", "peek"}
    PROVE  /\ Types' /\ ProducerAt' /\ Ring' /\ Filled' /\ Inside' /\ Chain'
           /\ Linked' = Linked /\ InUse' = InUse
           /\ pc'["consumer"] = l
<1>1. Types /\ ProducerAt /\ BlocksTyped /\ tailBlock \in Blocks /\ block[tailBlock].next \in Blocks
      /\ Linked \subseteq Blocks /\ InUse \subseteq Linked /\ frontBlock \in InUse
      /\ block[tailBlock].next \in Linked
  BY TypeFacts, RingFacts DEF IInv
<1>2. pc'["consumer"] = l /\ pc'["producer"] = pc["producer"] /\ pc' \in [Thread -> Label]
  BY <1>1, ConsumerGoes
<1>3. Types'
  BY <1>1, <1>2, TypeFacts, TypesKept
<1>4. Linked' = Linked /\ Pending' = Pending /\ Made' = Made
  BY <1>1, <1>2, HandKept
<1>5. Moved = {} /\ Moved' = {}
  BY <1>2 DEF Moved, At
<1>6. InUse' = InUse /\ Ring' /\ Filled' /\ Inside' /\ Chain'
  BY <1>4, <1>5, Quiet
<1>7. /\ \A b \in Blocks \ InUse : block'[b].front = block[b].front /\ block'[b].data = block[b].data
      /\ block'[tailBlock].data = block[tailBlock].data
  BY <1>1 DEF SameFront, SameData
<1>8. ProducerAt'
  BY <1>1, <1>2, <1>4, <1>6, <1>7, ProducerKept
<1> QED
  BY <1>2, <1>3, <1>4, <1>6, <1>8

(* try_dequeue, pop or peek compares front with its copy of tail.           *)
LEMMA DequeueBeginPreserves ==
    ASSUME IInv, conf' = conf, NEW o \in {"dequeue", "peek"}, DequeueBegin(o)
    PROVE  IInv'
<1> DEFINE l == IF block[frontBlock].front # block[frontBlock].localTail THEN "read" ELSE "loadTail"
<1>1. BlocksTyped /\ Order /\ Linked \subseteq Blocks /\ frontBlock \in Linked
  BY RingFacts DEF IInv
<1>2. /\ At("consumer", "idle") /\ Goto("consumer", l) /\ op' = o /\ readBlock' = frontBlock
      /\ UNCHANGED <<block, frontBlock, tailBlock, largestBlockSize, sent, canAlloc, elem, taken, walk>>
  BY DEF DequeueBegin, Begin, producerRegs
<1>3. /\ Len(block') = Len(block) /\ Blocks' = Blocks /\ BlocksTyped'
      /\ SameFront /\ SameLocalTail /\ SameTail /\ SameLocalFront /\ SameNext /\ SameSize /\ SameData
  BY <1>1, <1>2, Untouched
<1>4. /\ l \in ConsumerLabels /\ l # "release" /\ ~At("consumer", "release")
      /\ \A b \in Blocks \ InUse : block'[b].localTail = block[b].localTail
  BY <1>2, <1>3 DEF ConsumerLabels, At, SameLocalTail
<1>5. /\ Types' /\ ProducerAt' /\ Ring' /\ Filled' /\ Inside' /\ Chain' /\ Linked' = Linked
      /\ pc'["consumer"] = l
  BY <1>1, <1>2, <1>3, <1>4, ConsumerQuiet
<1>6. Order'
  BY <1>1, <1>3, OrderKept
<1>7. ConsumerAt'
  BY <1>1, <1>2, <1>5 DEF ConsumerAt, At, HasOne
<1> QED
  BY <1>5, <1>6, <1>7 DEF IInv

(* The consumer loads the tail of the front block.                          *)
LEMMA RefreshPreserves ==
    ASSUME IInv, conf' = conf, NEW from, NEW otherwise,
           (from = "loadTail" /\ otherwise = "loadTailBlock") \/ (from = "recheck" /\ otherwise = "loadNext"),
           RefreshLocalTail(from, otherwise)
    PROVE  IInv'
<1>1. PICK y : y = frontBlock
  OBVIOUS
<1> DEFINE l == IF block[y].front # block[y].tail THEN "read" ELSE otherwise
<1>2. BlocksTyped /\ Order /\ Linked \subseteq Blocks /\ y \in Linked /\ y \in InUse /\ Types /\ ConsumerAt
  BY <1>1, RingFacts DEF IInv
<1>3. /\ At("consumer", from) /\ Goto("consumer", l)
      /\ block' = [block EXCEPT ![y].localTail = block[y].tail]
      /\ UNCHANGED <<frontBlock, tailBlock, largestBlockSize, sent, canAlloc, op, readBlock, elem, taken, walk>>
  BY <1>1 DEF RefreshLocalTail, Step, producerRegs, consumerRegs
<1>4. /\ Len(block') = Len(block) /\ Blocks' = Blocks /\ BlocksTyped'
      /\ SameFront /\ SameTail /\ SameLocalFront /\ SameNext /\ SameSize /\ SameData
      /\ \A b \in Blocks : block'[b].localTail = IF b = y THEN block[y].tail ELSE block[b].localTail
  <2>1. y \in Blocks /\ block[y].tail \in 0..(block[y].size - 1)
    BY <1>2, BlockFacts
  <2>2. PICK v : v = block[y].tail
    OBVIOUS
  <2>3. v \in 0..(block[y].size - 1) /\ block' = [block EXCEPT ![y].localTail = v]
    BY <1>3, <2>1, <2>2
  <2> HIDE DEF l
  <2> QED
    BY <1>2, <2>1, <2>2, <2>3, SetLocalTail
<1>5. /\ l \in ConsumerLabels /\ l # "release" /\ ~At("consumer", "release")
      /\ \A b \in Blocks \ InUse : block'[b].localTail = block[b].localTail
  BY <1>2, <1>3, <1>4 DEF ConsumerLabels, At
<1>6. /\ Types' /\ ProducerAt' /\ Ring' /\ Filled' /\ Inside' /\ Chain' /\ Linked' = Linked
      /\ pc'["consumer"] = l
  BY <1>2, <1>3, <1>4, <1>5, TypeFacts, ConsumerQuiet
<1>7. Order'
  BY <1>2, <1>4, LocalTailLoaded
<1>8. ConsumerAt'
  <2>1. readBlock' = y /\ frontBlock' = y /\ y \in Linked'
    BY <1>1, <1>2, <1>3, <1>6 DEF ConsumerAt, At
  <2>2. block'[y].front = block[y].front /\ block'[y].tail = block[y].tail
        /\ block'[y].localTail = block[y].tail
    BY <1>2, <1>4 DEF SameFront, SameTail
  <2>3. from = "recheck" => y # tailBlock'
    BY <1>1, <1>2, <1>3 DEF ConsumerAt, At
  <2>4. l = "read" => HasOne(y)'
    BY <2>2 DEF HasOne
  <2>5. l = "loadNext" => y # tailBlock' /\ block'[y].front = block'[y].tail
    BY <2>2, <2>3
  <2>6. l \in {"read", "loadTailBlock", "loadNext"}
    OBVIOUS
  <2> HIDE DEF l
  <2> QED
    BY <1>6, <2>1, <2>4, <2>5, <2>6 DEF ConsumerAt, At, HasOne, FrontDone, Empty
<1> QED
  BY <1>6, <1>7, <1>8 DEF IInv

(* The consumer looks whether the front block is the tail block.            *)
LEMMA LoadTailBlockPreserves ==
    ASSUME IInv, conf' = conf, LoadTailBlock
    PROVE  IInv'
<1>1. BlocksTyped /\ Order /\ Linked \subseteq Blocks /\ Types /\ ConsumerAt
  BY RingFacts DEF IInv
<1>2. PICK l \in {"recheck", "idle"} :
         /\ At("consumer", "loadTailBlock") /\ Goto("consumer", l)
         /\ l = "recheck" => frontBlock # tailBlock
  BY DEF LoadTailBlock, Step, Return
<1>3. UNCHANGED <<block, frontBlock, tailBlock, largestBlockSize, sent, canAlloc, op, readBlock, elem,
      taken, walk>>
  BY DEF LoadTailBlock, producerRegs, consumerRegs
<1>4. /\ Len(block') = Len(block) /\ Blocks' = Blocks /\ BlocksTyped'
      /\ SameFront /\ SameLocalTail /\ SameTail /\ SameLocalFront /\ SameNext /\ SameSize /\ SameData
  BY <1>1, <1>3, Untouched
<1>5. /\ l \in ConsumerLabels /\ l # "release" /\ ~At("consumer", "release")
      /\ \A b \in Blocks \ InUse : block'[b].localTail = block[b].localTail
  BY <1>2, <1>4 DEF ConsumerLabels, At, SameLocalTail
<1>6. /\ Types' /\ ProducerAt' /\ Ring' /\ Filled' /\ Inside' /\ Chain' /\ Linked' = Linked
      /\ pc'["consumer"] = l
  BY <1>1, <1>2, <1>3, <1>4, <1>5, TypeFacts, ConsumerQuiet
<1>7. Order'
  BY <1>1, <1>4, OrderKept
<1>8. ConsumerAt'
  <2>1. readBlock \in Linked /\ readBlock = frontBlock
    BY <1>1, <1>2 DEF ConsumerAt, At
  <2> QED
    BY <1>2, <1>3, <1>6, <2>1 DEF ConsumerAt, At
<1> QED
  BY <1>6, <1>7, <1>8 DEF IInv

(* The consumer loads the block after the front block.                      *)
LEMMA LoadNextPreserves ==
    ASSUME IInv, conf' = conf, LoadNext
    PROVE  IInv'
<1>1. BlocksTyped /\ Order /\ Linked \subseteq Blocks /\ frontBlock \in Linked /\ Types /\ ConsumerAt
      /\ block[frontBlock].next \in Linked
  BY RingFacts DEF IInv, Ring
<1>2. /\ At("consumer", "loadNext") /\ Goto("consumer", "loadNextTail") /\ readBlock' = block[frontBlock].next
      /\ UNCHANGED <<block, frontBlock, tailBlock, largestBlockSize, sent, canAlloc, op, elem, taken, walk>>
  BY DEF LoadNext, Step, producerRegs
<1>3. /\ Len(block') = Len(block) /\ Blocks' = Blocks /\ BlocksTyped'
      /\ SameFront /\ SameLocalTail /\ SameTail /\ SameLocalFront /\ SameNext /\ SameSize /\ SameData
  BY <1>1, <1>2, Untouched
<1>4. /\ "loadNextTail" \in ConsumerLabels /\ ~At("consumer", "release")
      /\ \A b \in Blocks \ InUse : block'[b].localTail = block[b].localTail
  BY <1>2, <1>3 DEF ConsumerLabels, At, SameLocalTail
<1>5. /\ Types' /\ ProducerAt' /\ Ring' /\ Filled' /\ Inside' /\ Chain' /\ Linked' = Linked
      /\ pc'["consumer"] = "loadNextTail"
  BY <1>1, <1>2, <1>3, <1>4, TypeFacts, ConsumerQuiet
<1>6. Order'
  BY <1>1, <1>3, OrderKept
<1>7. ConsumerAt'
  <2>1. FrontDone
    BY <1>1, <1>2 DEF ConsumerAt
  <2>2. FrontDone'
    BY <1>2, <2>1 DEF FrontDone, Empty
  <2> QED
    BY <1>1, <1>2, <1>5, <2>2 DEF ConsumerAt, At
<1> QED
  BY <1>5, <1>6, <1>7 DEF IInv

(* The consumer loads the tail of that block, which is not empty.           *)
LEMMA LoadNextTailPreserves ==
    ASSUME IInv, conf' = conf, LoadNextTail
    PROVE  IInv'
<1>1. PICK z : z = readBlock
  OBVIOUS
<1>2. BlocksTyped /\ Order /\ Linked \subseteq Blocks /\ frontBlock \in Linked /\ Types /\ ConsumerAt
      /\ z \in Linked
  BY <1>1, RingFacts DEF IInv
<1>3. At("consumer", "loadNextTail") /\ FrontDone /\ z = block[frontBlock].next
  BY <1>1, <1>2 DEF LoadNextTail, Step, ConsumerAt, At
<1>4. z \in InUse /\ ~Empty(z) /\ z # frontBlock
  <2>1. frontBlock # tailBlock
    BY <1>3 DEF FrontDone
  <2> QED
    BY <1>3, <2>1, RingFacts
<1>5. UNCHANGED <<frontBlock, tailBlock, largestBlockSize, sent, canAlloc, op, readBlock, elem, taken, walk>>
  BY DEF LoadNextTail, producerRegs, consumerRegs
<1>6. CASE op = "peek"
  <2>1. Goto("consumer", "read") /\ block' = block
    BY <1>6 DEF LoadNextTail, Step
  <2>2. /\ Len(block') = Len(block) /\ Blocks' = Blocks /\ BlocksTyped'
        /\ SameFront /\ SameLocalTail /\ SameTail /\ SameLocalFront /\ SameNext /\ SameSize /\ SameData
    BY <1>2, <2>1, Untouched
  <2>3. /\ "read" \in ConsumerLabels /\ ~At("consumer", "release")
        /\ \A b \in Blocks \ InUse : block'[b].localTail = block[b].localTail
    BY <1>3, <2>2 DEF ConsumerLabels, At, SameLocalTail
  <2>4. /\ Types' /\ ProducerAt' /\ Ring' /\ Filled' /\ Inside' /\ Chain' /\ Linked' = Linked
        /\ pc'["consumer"] = "read"
    BY <1>2, <1>5, <2>1, <2>2, <2>3, TypeFacts, ConsumerQuiet
  <2>5. Order'
    BY <1>2, <2>2, OrderKept
  <2>6. FrontDone'
    BY <1>3, <1>5, <2>1 DEF FrontDone, Empty
  <2>7. ConsumerAt'
    BY <1>1, <1>2, <1>3, <1>5, <1>6, <2>1, <2>4, <2>6 DEF ConsumerAt, At
  <2> QED
    BY <2>4, <2>5, <2>7 DEF IInv
<1>7. CASE op = "dequeue"
  <2>1. Goto("consumer", "moveFront") /\ block' = [block EXCEPT ![z].localTail = block[z].tail]
    BY <1>1, <1>7 DEF LoadNextTail, Step
  <2>2. /\ Len(block') = Len(block) /\ Blocks' = Blocks /\ BlocksTyped'
        /\ SameFront /\ SameTail /\ SameLocalFront /\ SameNext /\ SameSize /\ SameData
        /\ \A b \in Blocks : block'[b].localTail = IF b = z THEN block[z].tail ELSE block[b].localTail
    <3>1. z \in Blocks /\ block[z].tail \in 0..(block[z].size - 1)
      BY <1>2, BlockFacts
    <3>2. PICK v : v = block[z].tail
      OBVIOUS
    <3>3. v \in 0..(block[z].size - 1) /\ block' = [block EXCEPT ![z].localTail = v]
      BY <2>1, <3>1, <3>2
    <3> QED
      BY <1>2, <3>1, <3>2, <3>3, SetLocalTail
  <2>3. /\ "moveFront" \in ConsumerLabels /\ ~At("consumer", "release")
        /\ \A b \in Blocks \ InUse : block'[b].localTail = block[b].localTail
    BY <1>3, <1>4, <2>2 DEF ConsumerLabels, At
  <2>4. /\ Types' /\ ProducerAt' /\ Ring' /\ Filled' /\ Inside' /\ Chain' /\ Linked' = Linked
        /\ pc'["consumer"] = "moveFront"
    BY <1>2, <1>5, <2>1, <2>2, <2>3, TypeFacts, ConsumerQuiet
  <2>5. Order'
    BY <1>2, <2>2, LocalTailLoaded
  <2>6. FrontDone' /\ block'[frontBlock'].next = z
    BY <1>2, <1>3, <1>5, <2>2 DEF FrontDone, Empty, SameFront, SameTail, SameNext
  <2>7. block'[z].front # block'[z].localTail
    BY <1>2, <1>4, <2>2 DEF SameFront, Empty
  <2>8. ConsumerAt'
    BY <1>1, <1>2, <1>5, <1>7, <2>4, <2>6, <2>7 DEF ConsumerAt, At, HasOne
  <2> QED
    BY <2>4, <2>5, <2>8 DEF IInv
<1> QED
  BY <1>6, <1>7 DEF LoadNextTail

(* The caller of peek reads the element.                                    *)
LEMMA ReadPeekedPreserves ==
    ASSUME IInv, conf' = conf, ReadPeeked
    PROVE  IInv'
<1>1. BlocksTyped /\ Order /\ Linked \subseteq Blocks /\ Types /\ readBlock \in Linked
  BY RingFacts DEF IInv
<1>2. /\ At("consumer", "read") /\ Goto("consumer", "idle")
      /\ UNCHANGED <<block, frontBlock, tailBlock, largestBlockSize, sent, canAlloc, op, readBlock, elem,
         taken, walk>>
  BY DEF ReadPeeked, Return, producerRegs, consumerRegs
<1>3. /\ Len(block') = Len(block) /\ Blocks' = Blocks /\ BlocksTyped'
      /\ SameFront /\ SameLocalTail /\ SameTail /\ SameLocalFront /\ SameNext /\ SameSize /\ SameData
  BY <1>1, <1>2, Untouched
<1>4. /\ "idle" \in ConsumerLabels /\ ~At("consumer", "release")
      /\ \A b \in Blocks \ InUse : block'[b].localTail = block[b].localTail
  BY <1>2, <1>3 DEF ConsumerLabels, At, SameLocalTail
<1>5. /\ Types' /\ ProducerAt' /\ Ring' /\ Filled' /\ Inside' /\ Chain' /\ Linked' = Linked
      /\ pc'["consumer"] = "idle"
  BY <1>1, <1>2, <1>3, <1>4, TypeFacts, ConsumerQuiet
<1>6. Order'
  BY <1>1, <1>3, OrderKept
<1>7. ConsumerAt'
  BY <1>1, <1>2, <1>5 DEF ConsumerAt, At
<1> QED
  BY <1>5, <1>6, <1>7 DEF IInv

(* The front block, found empty, leaves the blocks in use.                  *)
LEMMA FrontBlockMoves ==
    ASSUME IInv, NEW y, NEW z, y = frontBlock, FrontDone, z = block[y].next, frontBlock' = z,
           Blocks' = Blocks, Linked' = Linked, Pending' = Pending, tailBlock' = tailBlock,
           SameFront, SameTail, SameNext
    PROVE  InUse' = InUse \ {y} /\ z \in InUse \ {y} /\ Ring'
<1>1. Ring /\ Linked \subseteq Blocks /\ InUse \subseteq Linked /\ y # tailBlock /\ Empty(y) /\ y \in InUse
      /\ tailBlock \in InUse
  BY RingFacts DEF IInv, FrontDone
<1>2. z \in InUse \ {y}
  BY <1>1, RingFacts
<1>3. InUse = {y} \cup ({b \in Blocks : ~Empty(b)} \ Pending)
  BY DEF InUse
<1>4. InUse' = {z} \cup ({b \in Blocks : ~Empty(b)'} \ Pending)
  BY Zenon DEF InUse
<1>5. \A b \in Blocks : Empty(b)' <=> Empty(b)
  BY EmptyKept
<1>6. InUse' = InUse \ {y}
  BY <1>1, <1>2, <1>3, <1>4, <1>5
<1>7. \A b \in Linked : block'[b].next = block[b].next
  BY <1>1 DEF SameNext
<1>8. \A b \in Linked' : block'[b].next \in Linked'
  BY <1>1, <1>7 DEF Ring
<1>9. \A a, b \in Linked' : block'[a].next = block'[b].next => a = b
  BY <1>1, <1>7 DEF Ring
<1>10. \A S \in SUBSET Linked' : S # {} /\ (\A b \in S : block'[b].next \in S) => S = Linked'
  <2> SUFFICES ASSUME NEW S \in SUBSET Linked, S # {}, \A b \in S : block'[b].next \in S PROVE S = Linked
    BY Zenon
  <2>1. \A b \in S : block[b].next \in S
    BY <1>7
  <2>2. \A R \in SUBSET Linked : R # {} /\ (\A b \in R : block[b].next \in R) => R = Linked
    BY <1>1 DEF Ring
  <2> QED
    BY <2>1, <2>2, Zenon
<1>11. InUse' \subseteq Linked' /\ tailBlock' \in InUse'
  BY <1>1, <1>6
<1>12. \A b \in InUse' \ {tailBlock'} : block'[b].next \in InUse' \ {frontBlock'}
  <2> SUFFICES ASSUME NEW b \in InUse \ {y}, b # tailBlock
               PROVE  block[b].next \in InUse \ {y} /\ block[b].next # z
    BY <1>1, <1>6, <1>7
  <2>1. block[b].next \in InUse \ {y}
    BY RingFacts
  <2>2. block[b].next # block[y].next
    BY <1>1 DEF Ring
  <2> QED
    BY <2>1, <2>2
<1>13. \A b \in InUse' \ {frontBlock'} : \E a \in InUse' \ {tailBlock'} : block'[a].next = b
  <2> SUFFICES ASSUME NEW b \in InUse \ {y}, b # z
               PROVE  \E a \in InUse \ {y} : a # tailBlock /\ block[a].next = b
    BY <1>1, <1>6, <1>7
  <2>1. PICK a \in InUse \ {tailBlock} : block[a].next = b
    BY <1>1 DEF Ring
  <2> QED
    BY <2>1
<1>14. block'[tailBlock'].next \notin InUse' \ {frontBlock'}
  <2>1. block[tailBlock].next \notin InUse \ {y}
    BY <1>1 DEF Ring
  <2> QED
    BY <1>1, <1>6, <1>7, <2>1
<1>15. Ring'
  BY <1>8, <1>9, <1>10, <1>11, <1>12, <1>13, <1>14, Zenon DEF Ring
<1> QED
  BY <1>2, <1>6, <1>15

(* The next block becomes the front block.                                  *)
LEMMA MoveFrontPreserves ==
    ASSUME IInv, conf' = conf, MoveFront
    PROVE  IInv'
<1>1. PICK y, z, x : y = frontBlock /\ z = readBlock /\ x = tailBlock
  OBVIOUS
<1>2. /\ BlocksTyped /\ Order /\ Linked \subseteq Blocks /\ Types /\ ConsumerAt /\ ProducerAt /\ Filled
      /\ Inside
      /\ Chain /\ InUse \subseteq Linked /\ y \in InUse /\ x \in InUse /\ block[tailBlock].next \in Linked
      /\ z \in Linked
  BY <1>1, RingFacts DEF IInv
<1>3. /\ At("consumer", "moveFront") /\ Goto("consumer", "read") /\ frontBlock' = z
      /\ UNCHANGED <<block, tailBlock, largestBlockSize, sent, canAlloc, op, readBlock, elem, taken, walk>>
  BY <1>1 DEF MoveFront, Step, producerRegs, consumerRegs
<1>4. FrontDone /\ z = block[y].next /\ op = "dequeue" /\ HasOne(z)
  BY <1>1, <1>2, <1>3 DEF ConsumerAt, At
<1>5. /\ Len(block') = Len(block) /\ Blocks' = Blocks /\ BlocksTyped'
      /\ SameFront /\ SameLocalTail /\ SameTail /\ SameLocalFront /\ SameNext /\ SameSize /\ SameData
  BY <1>2, <1>3, Untouched
<1>6. pc'["consumer"] = "read" /\ pc'["producer"] = pc["producer"] /\ pc' \in [Thread -> Label]
  BY <1>2, <1>3, ConsumerGoes DEF ConsumerLabels
<1>7. Types'
  <2>1. "read" \in ConsumerLabels
    BY DEF ConsumerLabels
  <2> QED
    BY <1>2, <1>3, <1>5, <1>6, <2>1, TypeFacts, TypesKept
<1>8. Linked' = Linked /\ Pending' = Pending /\ Made' = Made
  <2>1. tailBlock \in Blocks /\ block[tailBlock].next \in Blocks
    BY <1>1, <1>2
  <2> QED
    BY <1>3, <1>5, <1>6, <2>1, HandKept
<1>9. InUse' = InUse \ {y} /\ z \in InUse \ {y} /\ Ring'
  BY <1>1, <1>3, <1>4, <1>5, <1>8, FrontBlockMoves
<1>10. Moved = {} /\ Moved' = {}
  BY <1>3, <1>6 DEF Moved, At
<1>11. Order'
  BY <1>2, <1>5, OrderKept
<1>12. Filled'
  BY <1>2, <1>5, <1>8, <1>10, FilledKept
<1>13. \A b \in Blocks : Occupied(b)' = Occupied(b) /\ LastSlot(b)' = LastSlot(b) /\ (Empty(b)' <=> Empty(b))
  BY <1>5, InTheseTerms, InTheseTermsNext DEF SameFront, SameTail, SameSize, Empty
<1>14. \A b \in Blocks : \A i : Val(b, i)' = Val(b, i)
  BY <1>5, <1>10 DEF Val, SameData
<1>15. Inside'
  BY <1>2, <1>5, <1>13, <1>14, InsideKept
<1>16. ProducerAt'
  <2>1. InUse' \subseteq InUse /\ frontBlock' \in InUse
    BY <1>3, <1>9
  <2>2. \A b \in Blocks \ InUse : /\ block'[b].front = block[b].front
                                  /\ block'[b].localTail = block[b].localTail
                                  /\ block'[b].data = block[b].data
    BY <1>3
  <2>3. tailBlock \in Blocks /\ block'[tailBlock].data[block[tailBlock].tail]
              = block[tailBlock].data[block[tailBlock].tail]
    BY <1>1, <1>2, <1>3
  <2> QED
    BY <1>2, <1>3, <1>5, <1>6, <1>8, <2>1, <2>2, <2>3, ProducerKept
<1>17. ConsumerAt'
  <2>1. readBlock' = z /\ frontBlock' = z /\ z \in Linked'
    BY <1>1, <1>2, <1>3, <1>8
  <2>2. block'[z].front # block'[z].localTail
    BY <1>3, <1>4 DEF HasOne
  <2> QED
    BY <1>6, <2>1, <2>2 DEF ConsumerAt, At, HasOne
<1>18. ASSUME NEW b \in Blocks PROVE First(b)' = First(b) /\ Latest(b)' = Latest(b)
  <2>1. PICK g, l : g = block[b].front /\ l = LastSlot(b)
    OBVIOUS
  <2>2. block'[b].front = g /\ LastSlot(b)' = l
    BY <1>5, <1>13, <2>1 DEF SameFront
  <2> QED
    BY <1>14, <2>1, <2>2, FirstAndLatest, FirstAndLatestNext
<1>19. Chain'
  <2>1. x = tailBlock' /\ z = frontBlock' /\ taken' = taken /\ sent' = sent
    BY <1>1, <1>3
  <2>2. z \in Blocks /\ y \in Blocks /\ x \in Blocks /\ y # x
    BY <1>1, <1>2, <1>4 DEF FrontDone
  <2>3. First(z)' = taken' + 1
    <3>1. First(z) = taken + 1
      BY <1>1, <1>2, <1>4, <2>2 DEF Chain, FrontDone
    <3> QED
      BY <1>18, <2>1, <2>2, <3>1
  <2>4. ASSUME NEW b \in InUse \ {x}, NEW n, n = block[b].next
        PROVE  First(n)' = IF Empty(b)' THEN taken + 1 ELSE Latest(b)' + 1
    <3>1. First(n) = IF Empty(b) THEN taken + 1 ELSE Latest(b) + 1
      BY <1>1, <1>2, <2>4 DEF Chain
    <3>2. b \in Blocks /\ n \in Blocks
      BY <1>1, <1>2, <2>4, RingFacts
    <3> QED
      BY <1>13, <1>18, <3>1, <3>2
  <2>5. \A b \in InUse' \ {x} : \A n : n = block'[b].next =>
            First(n)' = IF Empty(b)' THEN taken' + 1 ELSE Latest(b)' + 1
    BY <1>3, <1>9, <2>1, <2>4
  <2>6. sent' = IF Empty(x)' THEN taken' ELSE Latest(x)'
    <3>1. sent = IF Empty(x) THEN taken ELSE Latest(x)
      BY <1>1, <1>2 DEF Chain
    <3> QED
      BY <1>13, <1>18, <2>1, <2>2, <3>1
  <2> QED
    BY <2>1, <2>3, <2>5, <2>6, ChainAtNext
<1> QED
  BY <1>7, <1>9, <1>11, <1>12, <1>15, <1>16, <1>17, <1>19 DEF IInv

(* What the consumer sees in front of it is an element that was published.  *)
LEMMA FrontIsTaken ==
    ASSUME IInv, HasOne(frontBlock)
    PROVE  /\ ~Empty(frontBlock) /\ block[frontBlock].front \in Occupied(frontBlock)
           /\ <<frontBlock, block[frontBlock].front>> \notin Made
<1>1. BlocksTyped /\ Order /\ frontBlock \in Blocks /\ ProducerAt
  BY TypeFacts DEF IInv
<1>2. ~Empty(frontBlock)
  BY <1>1, BlockFacts, SMT DEF Order, Between, HasOne, Empty
<1>3. block[frontBlock].front \in Occupied(frontBlock)
  BY <1>1, <1>2, EndsTaken
<1>4. At("producer", "publish") =>
         <<tailBlock, block[tailBlock].tail>> # <<frontBlock, block[frontBlock].front>>
  BY <1>2 DEF Empty
<1>5. At("producer", "advanceTail") => block[tailBlock].next # frontBlock
  BY <1>1 DEF ProducerAt, At, NextIsFree
<1>6. <<frontBlock, block[frontBlock].front>> \notin Made
  BY <1>4, <1>5 DEF Made
<1> QED
  BY <1>2, <1>3, <1>6

(* The first element is moved out and destroyed.                            *)
LEMMA ReadPreserves ==
    ASSUME IInv, conf' = conf, Read
    PROVE  IInv'
<1>1. PICK y, f, x : y = frontBlock /\ f = block[y].front /\ x = tailBlock
  OBVIOUS
<1>2. /\ BlocksTyped /\ Order /\ Linked \subseteq Blocks /\ Types /\ ConsumerAt /\ ProducerAt /\ Filled
      /\ Inside
      /\ Chain /\ Ring /\ InUse \subseteq Linked /\ y \in InUse /\ x \in InUse /\ block[x].next \in Linked
      /\ y \in Linked /\ y \in Blocks /\ x \in Blocks /\ \A b \in InUse \ {frontBlock} : ~Empty(b)
  BY <1>1, RingFacts DEF IInv
<1>3. At("consumer", "read") /\ Goto("consumer", "release") /\ op = "dequeue"
  BY DEF Read, Step
<1>4. readBlock = y /\ HasOne(y)
  BY <1>1, <1>2, <1>3 DEF ConsumerAt
<1>5. /\ elem' = block[y].data[f] /\ Stored(y, f, Raw)
      /\ UNCHANGED <<frontBlock, tailBlock, largestBlockSize, sent, canAlloc, op, readBlock, taken, walk>>
  BY <1>1, <1>4 DEF Read, producerRegs, Stored
<1>6. /\ ~Empty(y) /\ f \in Occupied(y) /\ <<y, f>> \notin Made
  BY <1>1, <1>4, FrontIsTaken
<1>7. f \in 0..(block[y].size - 1) /\ Raw \in Nat /\ block[y].data[f] \in Nat
  BY <1>1, <1>2, BlockFacts DEF Raw
<1>8. /\ Len(block') = Len(block) /\ Blocks' = Blocks /\ BlocksTyped'
      /\ SameFront /\ SameLocalTail /\ SameTail /\ SameLocalFront /\ SameNext /\ SameSize
      /\ \A b \in Blocks : \A j \in 0..(block[b].size - 1) :
            block'[b].data[j] = IF b = y /\ j = f THEN Raw ELSE block[b].data[j]
  <2>1. BlocksTyped /\ y \in Blocks
    BY <1>2
  <2>2. f \in 0..(block[y].size - 1) /\ Raw \in Nat
    BY <1>7
  <2>3. Stored(y, f, Raw)
    BY <1>5
  <2> QED
    BY <2>1, <2>2, <2>3, SetData
<1>9. pc'["consumer"] = "release" /\ pc'["producer"] = pc["producer"] /\ pc' \in [Thread -> Label]
  BY <1>2, <1>3, ConsumerGoes DEF ConsumerLabels
<1>10. Types'
  <2>1. "release" \in ConsumerLabels
    BY DEF ConsumerLabels
  <2> QED
    BY <1>2, <1>5, <1>7, <1>8, <1>9, <2>1, TypeFacts, TypesKept
<1>11. Linked' = Linked /\ Pending' = Pending /\ Made' = Made
  <2>1. tailBlock \in Blocks /\ block[tailBlock].next \in Blocks
    BY <1>1, <1>2
  <2> QED
    BY <1>5, <1>8, <1>9, <2>1, HandKept
<1>12. Moved = {} /\ Moved' = {<<y, f>>}
  <2>1. block'[y].front = f /\ readBlock' = y
    BY <1>1, <1>2, <1>4, <1>5, <1>8 DEF SameFront
  <2> QED
    BY <1>3, <1>9, <2>1 DEF Moved, At
<1>13. InUse' = InUse
  BY <1>5, <1>8, <1>11, EmptyKept, InUseKept
<1>14. Ring'
  BY <1>2, <1>5, <1>8, <1>11, <1>13, RingKept DEF SameNext
<1>15. Order'
  BY <1>2, <1>8, OrderKept
<1>16. \A b \in Blocks : Occupied(b)' = Occupied(b)
  BY <1>8, InTheseTerms, InTheseTermsNext DEF SameFront, SameTail, SameSize
<1>17. \A b \in Blocks : Occupied(b) \subseteq 0..(block[b].size - 1)
  BY DEF Occupied
<1>18. Filled'
  <2> SUFFICES ASSUME NEW b \in Blocks', NEW i \in 0..(block'[b].size - 1)
               PROVE  block'[b].data[i] # Raw
                         <=> (i \in Occupied(b)' /\ <<b, i>> \notin Moved') \/ <<b, i>> \in Made'
    BY Zenon DEF Filled, Raw
  <2>1. b \in Blocks /\ i \in 0..(block[b].size - 1) /\ Occupied(b)' = Occupied(b)
    BY <1>8, <1>16 DEF SameSize
  <2>2. block[b].data[i] # Raw <=> i \in Occupied(b) \/ <<b, i>> \in Made
    BY <1>2, <1>12, <2>1 DEF Filled
  <2>3. block'[b].data[i] = IF b = y /\ i = f THEN Raw ELSE block[b].data[i]
    BY <1>8, <2>1
  <2>4. <<b, i>> \in Moved' <=> b = y /\ i = f
    BY <1>12
  <2> QED
    BY <1>6, <1>11, <2>1, <2>2, <2>3, <2>4
<1>19. \A b \in Blocks : \A i \in Occupied(b) : Val(b, i)' = Val(b, i)
  <2> SUFFICES ASSUME NEW b \in Blocks, NEW i \in Occupied(b)
               PROVE  (IF <<b, i>> \in Moved' THEN elem' ELSE block'[b].data[i]) = block[b].data[i]
    BY <1>12 DEF Val
  <2>1. block'[b].data[i] = IF b = y /\ i = f THEN Raw ELSE block[b].data[i]
    BY <1>8, <1>17
  <2>2. <<b, i>> \in Moved' <=> b = y /\ i = f
    BY <1>12
  <2> QED
    BY <1>5, <2>1, <2>2
<1>20. Inside'
  BY <1>2, <1>8, <1>16, <1>19, InsideKept
<1>21. Chain'
  <2>1. \A b \in InUse \ {tailBlock} : block'[b].next = block[b].next
    BY <1>2, <1>8 DEF SameNext
  <2>2. \A b \in InUse : /\ block'[b].front = block[b].front /\ block'[b].tail = block[b].tail
                         /\ block'[b].size = block[b].size
    BY <1>2, <1>8 DEF SameFront, SameTail, SameSize
  <2>3. \A b \in InUse : \A i \in Occupied(b) : Val(b, i)' = Val(b, i)
    BY <1>2, <1>19
  <2> QED
    BY <1>2, <1>5, <1>13, <2>1, <2>2, <2>3, ChainKept
<1>22. ProducerAt'
  <2>1. \A b \in Blocks \ InUse : /\ block'[b].front = block[b].front
                                  /\ block'[b].localTail = block[b].localTail
                                  /\ block'[b].data = block[b].data
    BY <1>2, <1>5, <1>8 DEF SameFront, SameLocalTail, Stored
  <2>2. block'[x].data[block[x].tail] = block[x].data[block[x].tail]
    <3>1. block[x].tail \in 0..(block[x].size - 1)
      BY <1>2, BlockFacts
    <3>2. ~(x = y /\ block[x].tail = f)
      BY <1>1, <1>6 DEF Empty
    <3> QED
      BY <1>2, <1>8, <3>1, <3>2
  <2>3. tailBlock \in Blocks /\ block[tailBlock].next \in Linked /\ InUse' \subseteq InUse
        /\ frontBlock' \in InUse
        /\ block'[tailBlock].data[block[tailBlock].tail] = block[tailBlock].data[block[tailBlock].tail]
    BY <1>1, <1>2, <1>5, <1>13, <2>2
  <2> QED
    BY <1>2, <1>5, <1>8, <1>9, <1>11, <2>1, <2>3, ProducerKept
<1>23. ConsumerAt'
  <2>1. readBlock' = y /\ frontBlock' = y /\ y \in Linked'
    BY <1>1, <1>2, <1>4, <1>5, <1>11
  <2>2. block'[y].front # block'[y].localTail
    BY <1>2, <1>4, <1>8 DEF SameFront, SameLocalTail, HasOne
  <2> QED
    BY <1>9, <2>1, <2>2 DEF ConsumerAt, At, HasOne
<1> QED
  BY <1>10, <1>14, <1>15, <1>18, <1>20, <1>21, <1>22, <1>23 DEF IInv

(* The front of a block goes past the element that was moved out.           *)
LEMMA Releases ==
    ASSUME IInv, NEW y \in Blocks, NEW f, f = block[y].front, HasOne(y), Moved = {<<y, f>>}, Moved' = {},
           block' = [block EXCEPT ![y].front = Advance(f, y)], Made' = Made, <<y, f>> \notin Made
    PROVE  /\ Blocks' = Blocks /\ Order' /\ Filled' /\ Inside'
           /\ \A b \in Blocks \ {y} : /\ Empty(b)' <=> Empty(b)
                                      /\ ~Empty(b) => First(b)' = First(b) /\ Latest(b)' = Latest(b)
           /\ Val(y, f) = elem
           /\ Empty(y)' => Latest(y) = elem
           /\ ~Empty(y)' => First(y)' = elem + 1 /\ Latest(y)' = Latest(y)
<1> DEFINE s == block[y].size
<1> DEFINE t == block[y].tail
<1> DEFINE u == Round(f, s)
<1>1. BlocksTyped /\ Order /\ Filled /\ Inside
  BY TypeFacts DEF IInv
<1>2. /\ s \in Nat /\ s >= 2 /\ f \in 0..(s - 1) /\ t \in 0..(s - 1)
      /\ block[y].localFront \in 0..(s - 1) /\ block[y].localTail \in 0..(s - 1)
      /\ Between(block[y].localFront, f, t) /\ Between(f, block[y].localTail, t)
      /\ f # block[y].localTail /\ Advance(f, y) = u
  BY <1>1, BlockFacts, InTheseTerms DEF Order, HasOne
<1>3. /\ u \in 0..(s - 1) /\ f # t
      /\ Between(block[y].localFront, u, t) /\ Between(u, block[y].localTail, t)
      /\ FromTo(u, t, s) = FromTo(f, t, s) \ {f} /\ f \in FromTo(f, t, s)
  <2> HIDE DEF s, t
  <2> QED
    BY <1>2, FrontMoves
<1>4. block' = [block EXCEPT ![y].front = u]
  BY <1>2
<1>5. /\ u = t => Back(t, s) = f
      /\ u # t => u \in FromTo(f, t, s) \ {f} /\ Back(t, s) \in FromTo(f, t, s) /\ Back(t, s) # f
  <2>1. \A i \in FromTo(f, t, s) : Round(i, s) # t => Round(i, s) \in FromTo(f, t, s) \ {f}
    <3> HIDE DEF s, t
    <3> QED
      BY <1>2, Slots
  <2>2. Back(t, s) \in FromTo(f, t, s) /\ Round(Back(t, s), s) = t /\ (Round(f, s) = t => Back(t, s) = f)
    <3> HIDE DEF s, t
    <3> QED
      BY <1>2, <1>3, Slots
  <2> QED
    BY <1>3, <2>1, <2>2
<1> HIDE DEF u
<1>6. /\ Len(block') = Len(block) /\ Blocks' = Blocks
      /\ SameLocalTail /\ SameTail /\ SameLocalFront /\ SameNext /\ SameSize /\ SameData
      /\ \A b \in Blocks : block'[b].front = IF b = y THEN u ELSE block[b].front
  BY <1>1, <1>3, <1>4, SetFront
<1>7. \A b \in Blocks \ {y} : Occupied(b)' = Occupied(b) /\ (Empty(b)' <=> Empty(b))
      /\ block'[b].front = block[b].front
  BY <1>6, InTheseTerms, InTheseTermsNext DEF SameTail, SameSize, Empty
<1>8. /\ Occupied(y) = FromTo(f, t, s) /\ Occupied(y)' = Occupied(y) \ {f} /\ f \in Occupied(y)
      /\ block'[y].front = u /\ (Empty(y)' <=> u = t) /\ LastSlot(y) = Back(t, s)
  <2>1. Occupied(y) = FromTo(f, t, s) /\ LastSlot(y) = Back(t, s)
    BY InTheseTerms
  <2>2. block'[y].size = s /\ block'[y].front = u /\ block'[y].tail = t
    BY <1>6 DEF SameSize, SameTail
  <2>3. Occupied(y)' = FromTo(u, t, s)
    BY <2>2, InTheseTermsNext
  <2> QED
    BY <1>3, <2>1, <2>2, <2>3 DEF Empty
<1>9. \A b \in Blocks : LastSlot(b)' = LastSlot(b)
  BY <1>6, InTheseTerms, InTheseTermsNext DEF SameTail, SameSize
<1>10. ASSUME NEW b \in Blocks, NEW i, b = y => i # f
       PROVE  Val(b, i)' = Val(b, i)
  <2>1. <<b, i>> # <<y, f>> /\ block'[b].data[i] = block[b].data[i]
    BY <1>6, <1>10 DEF SameData
  <2>2. <<b, i>> \notin Moved /\ <<b, i>> \notin Moved'
    BY <2>1
  <2> QED
    BY <2>1, <2>2 DEF Val
<1>11. Val(y, f) = elem
  BY DEF Val
<1>12. Order'
  <2> SUFFICES ASSUME NEW b \in Blocks
               PROVE  /\ Between(block'[b].localFront, block'[b].front, block'[b].tail)
                      /\ Between(block'[b].front, block'[b].localTail, block'[b].tail)
    BY <1>6, Zenon DEF Order, Between
  <2>1. /\ block'[b].localFront = block[b].localFront /\ block'[b].localTail = block[b].localTail
        /\ block'[b].tail = block[b].tail /\ block'[b].front = IF b = y THEN u ELSE block[b].front
    BY <1>6 DEF SameTail, SameLocalFront, SameLocalTail
  <2>2. CASE b = y
    BY <1>3, <2>1, <2>2
  <2>3. CASE b # y
    BY <1>1, <2>1, <2>3 DEF Order
  <2> QED
    BY <2>2, <2>3
<1>13. Filled'
  <2> SUFFICES ASSUME NEW b \in Blocks', NEW i \in 0..(block'[b].size - 1)
               PROVE  block'[b].data[i] # Raw
                         <=> (i \in Occupied(b)' /\ <<b, i>> \notin Moved') \/ <<b, i>> \in Made'
    BY Zenon DEF Filled, Raw
  <2>1. b \in Blocks /\ i \in 0..(block[b].size - 1) /\ block'[b].data[i] = block[b].data[i]
    BY <1>6 DEF SameSize, SameData
  <2>2. block[b].data[i] # Raw <=> (i \in Occupied(b) /\ ~(b = y /\ i = f)) \/ <<b, i>> \in Made
    BY <1>1, <2>1 DEF Filled
  <2>3. i \in Occupied(b)' <=> i \in Occupied(b) /\ ~(b = y /\ i = f)
    BY <1>7, <1>8, <2>1
  <2> QED
    BY <2>1, <2>2, <2>3
<1>14. Inside'
  <2>1. \A b \in Blocks : Occupied(b)' \subseteq Occupied(b)
    BY <1>7, <1>8
  <2>2. \A b \in Blocks : \A i \in Occupied(b)' : Val(b, i)' = Val(b, i)
    BY <1>8, <1>10
  <2> QED
    BY <1>1, <1>6, <2>1, <2>2, InsideKept
<1>15. ASSUME NEW b \in Blocks \ {y}
       PROVE  First(b)' = First(b) /\ Latest(b)' = Latest(b)
  <2>1. PICK g, l : g = block[b].front /\ l = LastSlot(b)
    OBVIOUS
  <2>2. block'[b].front = g /\ LastSlot(b)' = l
    BY <1>7, <1>9, <2>1
  <2> QED
    BY <1>10, <2>1, <2>2, FirstAndLatest, FirstAndLatestNext
<1>16. Empty(y)' => Latest(y) = elem
  BY <1>5, <1>8, <1>11, FirstAndLatest
<1>17. ASSUME ~Empty(y)'
       PROVE  First(y)' = elem + 1 /\ Latest(y)' = Latest(y)
  <2>1. PICK l, v : l = Back(t, s) /\ v = u
    OBVIOUS
  <2>2. v \in Occupied(y) /\ v # f /\ l # f /\ v = Advance(f, y)
    BY <1>2, <1>5, <1>8, <1>17, <2>1
  <2>3. Val(y, v) = Val(y, f) + 1
    BY <1>1, <1>8, <2>2 DEF Inside
  <2>4. Val(y, v)' = Val(y, v) /\ Val(y, l)' = Val(y, l)
    BY <1>10, <2>2
  <2>5. LastSlot(y) = l /\ LastSlot(y)' = l /\ block'[y].front = v
    BY <1>8, <1>9, <2>1
  <2> QED
    BY <1>11, <2>3, <2>4, <2>5, FirstAndLatest, FirstAndLatestNext
<1> QED
  BY <1>6, <1>7, <1>11, <1>12, <1>13, <1>14, <1>15, <1>16, <1>17

(* The front goes past the slot, which the producer may use again.          *)
LEMMA ReleasePreserves ==
    ASSUME IInv, conf' = conf, Release
    PROVE  IInv'
<1>1. PICK y, f, x : y = frontBlock /\ f = block[y].front /\ x = tailBlock
  OBVIOUS
<1>2. /\ BlocksTyped /\ Types /\ ConsumerAt /\ ProducerAt /\ Chain /\ Ring
      /\ Linked \subseteq Blocks /\ InUse \subseteq Linked /\ y \in InUse /\ x \in InUse
      /\ block[x].next \in Linked /\ y \in Linked /\ y \in Blocks /\ x \in Blocks
      /\ \A b \in InUse \ {y} : ~Empty(b)
  BY <1>1, RingFacts DEF IInv
<1>3. At("consumer", "release") /\ Goto("consumer", "idle")
  BY DEF Release, Return
<1>4. readBlock = y /\ HasOne(y)
  BY <1>1, <1>2, <1>3 DEF ConsumerAt
<1>5. /\ block' = [block EXCEPT ![y].front = Advance(f, y)] /\ taken' = taken + 1 /\ elem' = Raw
      /\ UNCHANGED <<frontBlock, tailBlock, largestBlockSize, sent, canAlloc, op, readBlock, walk>>
  BY <1>1, <1>4 DEF Release, producerRegs
<1>6. ~Empty(y) /\ f \in Occupied(y) /\ <<y, f>> \notin Made
  BY <1>1, <1>4, FrontIsTaken
<1>7. Advance(f, y) \in 0..(block[y].size - 1) /\ Raw \in Nat
  BY <1>1, <1>2, BlockFacts DEF Advance, Raw
<1>8. /\ Len(block') = Len(block) /\ Blocks' = Blocks /\ BlocksTyped'
      /\ SameLocalTail /\ SameTail /\ SameLocalFront /\ SameNext /\ SameSize /\ SameData
      /\ \A b \in Blocks : block'[b].front = IF b = y THEN Advance(f, y) ELSE block[b].front
  BY <1>2, <1>5, <1>7, SetFront
<1>9. pc'["consumer"] = "idle" /\ pc'["producer"] = pc["producer"] /\ pc' \in [Thread -> Label]
  BY <1>2, <1>3, ConsumerGoes DEF ConsumerLabels
<1>10. Types'
  <2>1. "idle" \in ConsumerLabels /\ taken' \in Nat
    BY <1>2, <1>5, TypeFacts DEF ConsumerLabels
  <2> QED
    BY <1>2, <1>5, <1>7, <1>8, <1>9, <2>1, TypeFacts, TypesKept
<1>11. Linked' = Linked /\ Pending' = Pending /\ Made' = Made
  <2>1. tailBlock \in Blocks /\ block[tailBlock].next \in Blocks
    BY <1>1, <1>2
  <2> QED
    BY <1>5, <1>8, <1>9, <2>1, HandKept
<1>12. Moved = {<<y, f>>} /\ Moved' = {}
  BY <1>1, <1>3, <1>4, <1>9 DEF Moved, At
<1>13. /\ Order' /\ Filled' /\ Inside'
       /\ \A b \in Blocks \ {y} : /\ Empty(b)' <=> Empty(b)
                                  /\ ~Empty(b) => First(b)' = First(b) /\ Latest(b)' = Latest(b)
       /\ Val(y, f) = elem
       /\ Empty(y)' => Latest(y) = elem
       /\ ~Empty(y)' => First(y)' = elem + 1 /\ Latest(y)' = Latest(y)
  BY <1>1, <1>2, <1>4, <1>5, <1>6, <1>11, <1>12, Releases
<1>14. InUse' = InUse
  <2>1. InUse = {y} \cup ({b \in Blocks : ~Empty(b)} \ Pending)
    BY <1>1 DEF InUse
  <2>2. InUse' = {y} \cup ({b \in Blocks : ~Empty(b)'} \ Pending)
    BY <1>1, <1>5, <1>8, <1>11 DEF InUse
  <2> QED
    BY <1>13, <2>1, <2>2
<1>15. Ring'
  BY <1>2, <1>5, <1>8, <1>11, <1>14, RingKept DEF SameNext
<1>16. ProducerAt'
  <2>1. \A b \in Blocks \ InUse : /\ block'[b].front = block[b].front
                                  /\ block'[b].localTail = block[b].localTail
                                  /\ block'[b].data = block[b].data
    BY <1>2, <1>8 DEF SameLocalTail, SameData
  <2>2. tailBlock \in Blocks /\ block[tailBlock].next \in Linked /\ InUse' \subseteq InUse
        /\ frontBlock' \in InUse
        /\ block'[tailBlock].data[block[tailBlock].tail] = block[tailBlock].data[block[tailBlock].tail]
    BY <1>1, <1>2, <1>5, <1>8, <1>14 DEF SameData
  <2> QED
    BY <1>2, <1>5, <1>8, <1>9, <1>11, <2>1, <2>2, ProducerKept
<1>17. ConsumerAt'
  BY <1>2, <1>4, <1>5, <1>9, <1>11 DEF ConsumerAt, At
<1>18. elem = taken + 1 /\ taken \in Nat
  <2>1. First(y) = taken + 1
    BY <1>1, <1>2, <1>6 DEF Chain
  <2> QED
    BY <1>1, <1>2, <1>13, <2>1, FirstAndLatest, TypeFacts
<1>19. Chain'
  <2>1. x = tailBlock' /\ y = frontBlock' /\ taken' = elem /\ sent' = sent
    BY <1>1, <1>5, <1>18
  <2>2. ~Empty(y)' => First(y)' = taken' + 1
    BY <1>13, <2>1
  <2>3. ASSUME NEW b \in InUse \ {x}, NEW n, n = block[b].next
        PROVE  First(n)' = IF Empty(b)' THEN taken' + 1 ELSE Latest(b)' + 1
    <3>1. First(n) = IF Empty(b) THEN taken + 1 ELSE Latest(b) + 1
      BY <1>1, <1>2, <2>3 DEF Chain
    <3>2. b \in Blocks /\ n \in Blocks \ {y} /\ ~Empty(n)
      BY <1>1, <1>2, <2>3, RingFacts
    <3>3. First(n)' = First(n)
      BY <1>13, <3>2
    <3>4. CASE b = y
      BY <1>6, <1>13, <2>1, <3>1, <3>3, <3>4
    <3>5. CASE b # y
      BY <1>2, <1>13, <2>3, <3>1, <3>2, <3>3, <3>5
    <3> QED
      BY <3>4, <3>5
  <2>4. \A b \in InUse' \ {x} : \A n : n = block'[b].next =>
            First(n)' = IF Empty(b)' THEN taken' + 1 ELSE Latest(b)' + 1
    BY <1>2, <1>8, <1>14, <2>3 DEF SameNext
  <2>5. sent' = IF Empty(x)' THEN taken' ELSE Latest(x)'
    <3>1. sent = IF Empty(x) THEN taken ELSE Latest(x)
      BY <1>1, <1>2 DEF Chain
    <3>2. CASE x = y
      BY <1>6, <1>13, <2>1, <3>1, <3>2
    <3>3. CASE x # y
      BY <1>2, <1>13, <2>1, <3>1, <3>3
    <3> QED
      BY <3>2, <3>3
  <2> QED
    BY <2>1, <2>2, <2>4, <2>5, ChainAtNext
<1> QED
  BY <1>10, <1>13, <1>15, <1>16, <1>17, <1>19 DEF IInv

-----------------------------------------------------------------------------
(* Each action preserves the invariant: size_approx *)

WalkLabels == {"idle", "sizeFront", "sizeTail", "sizeNext"}

Walks == walk \in [Thread -> WalkRec] /\ \A t \in Thread : walk[t].at \in Blocks /\ walk[t].start \in Blocks

(* A step of a thread that counts changes only how far it has come.         *)
LEMMA Counts ==
    ASSUME IInv, conf' = conf, NEW t \in Thread, NEW from \in WalkLabels, NEW to \in WalkLabels,
           At(t, from), Goto(t, to), UNCHANGED <<block, frontBlock, tailBlock, producerRegs, consumerRegs>>,
           Walks'
    PROVE  IInv'
<1>1. /\ BlocksTyped /\ Order /\ Linked \subseteq Blocks /\ Types /\ ConsumerAt /\ ProducerAt /\ Filled
      /\ Inside
      /\ Chain /\ Ring /\ InUse \subseteq Linked /\ tailBlock \in Blocks /\ block[tailBlock].next \in Linked
      /\ frontBlock \in Linked /\ readBlock \in Linked /\ frontBlock \in InUse
  BY RingFacts DEF IInv
<1>2. UNCHANGED <<block, frontBlock, tailBlock, largestBlockSize, sent, canAlloc, op, readBlock, elem, taken>>
  BY DEF producerRegs, consumerRegs
<1>3. /\ Len(block') = Len(block) /\ Blocks' = Blocks /\ BlocksTyped'
      /\ SameFront /\ SameLocalTail /\ SameTail /\ SameLocalFront /\ SameNext /\ SameSize /\ SameData
  BY <1>1, <1>2, Untouched
<1>4. /\ pc' \in [Thread -> Label] /\ pc'["producer"] \in ProducerLabels /\ pc'["consumer"] \in ConsumerLabels
      /\ pc' = [pc EXCEPT ![t] = to] /\ pc \in [Thread -> Label] /\ pc[t] = from
  <2>1. pc \in [Thread -> Label] /\ pc["producer"] \in ProducerLabels /\ pc["consumer"] \in ConsumerLabels
    BY <1>1, TypeFacts
  <2>2. to \in ProducerLabels /\ to \in ConsumerLabels /\ to \in Label
    BY DEF WalkLabels, ProducerLabels, ConsumerLabels, Label
  <2>3. pc' = [pc EXCEPT ![t] = to]
    BY DEF Goto
  <2> HIDE DEF Goto
  <2> QED
    BY <2>1, <2>2, <2>3 DEF Thread, At
<1>5. \A u \in Thread : \/ pc'[u] = pc[u]
                        \/ pc[u] \in WalkLabels /\ pc'[u] \in WalkLabels
  BY <1>4
<1>6. Types'
  BY <1>1, <1>2, <1>3, <1>4, TypeFacts, TypesKept DEF Walks
<1>7. "producer" \in Thread /\ "consumer" \in Thread
  BY DEF Thread
<1>8. Linked' = Linked /\ Pending' = Pending /\ Made' = Made
  <2>1. CASE pc'["producer"] = pc["producer"]
    BY <1>1, <1>2, <1>3, <2>1, HandKept
  <2>2. CASE pc["producer"] \in WalkLabels /\ pc'["producer"] \in WalkLabels
    <3>1. HandsFree /\ HandsFree'
      BY <2>2 DEF HandsFree, WalkLabels
    <3> QED
      BY <1>1, <1>3, <3>1, HandsStayFree
  <2> QED
    BY <1>5, <1>7, <2>1, <2>2
<1>9. Moved' = Moved
  <2>1. At("consumer", "release")' <=> At("consumer", "release")
    BY <1>5, <1>7 DEF At, WalkLabels
  <2> QED
    BY <1>2, <2>1 DEF Moved
<1>10. InUse' = InUse /\ Ring' /\ Filled' /\ Inside' /\ Chain'
  BY <1>2, <1>3, <1>8, <1>9, Quiet
<1>11. Order'
  BY <1>1, <1>3, OrderKept
<1>12. ProducerAt'
  <2>1. CASE pc'["producer"] = pc["producer"]
    <3>1. \A b \in Blocks \ InUse : /\ block'[b].front = block[b].front
                                    /\ block'[b].localTail = block[b].localTail
                                    /\ block'[b].data = block[b].data
      BY <1>2
    <3>2. /\ block'[tailBlock].data[block[tailBlock].tail] = block[tailBlock].data[block[tailBlock].tail]
          /\ InUse' \subseteq InUse /\ frontBlock' \in InUse
      BY <1>1, <1>2, <1>10
    <3> QED
      BY <1>1, <1>2, <1>3, <1>8, <2>1, <3>1, <3>2, ProducerKept
  <2>2. CASE pc["producer"] \in WalkLabels /\ pc'["producer"] \in WalkLabels
    BY <2>2 DEF ProducerAt, WalkLabels, At
  <2> QED
    BY <1>5, <1>7, <2>1, <2>2
<1>13. ConsumerAt'
  <2>1. CASE pc'["consumer"] = pc["consumer"]
    <3>1. \A b \in Linked : block'[b].front = block[b].front /\ block'[b].localTail = block[b].localTail
      BY <1>2
    <3> QED
      BY <1>1, <1>2, <1>8, <2>1, <3>1, ConsumerKept
  <2>2. CASE pc["consumer"] \in WalkLabels /\ pc'["consumer"] \in WalkLabels
    <3>1. readBlock' \in Linked'
      BY <1>1, <1>2, <1>8
    <3> QED
      BY <2>2, <3>1 DEF ConsumerAt, WalkLabels, At
  <2> QED
    BY <1>5, <1>7, <2>1, <2>2
<1> QED
  BY <1>6, <1>10, <1>11, <1>12, <1>13 DEF IInv

(* What a walk becomes when one thread goes on. *)
LEMMA WalksOn ==
    ASSUME IInv, block' = block, NEW t \in Thread, NEW w \in WalkRec, w.at \in Blocks, w.start \in Blocks,
           walk' = [walk EXCEPT ![t] = w]
    PROVE  Walks'
<1>1. walk \in [Thread -> WalkRec] /\ \A u \in Thread : walk[u].at \in Blocks /\ walk[u].start \in Blocks
  BY TypeFacts DEF IInv
<1>2. Blocks' = Blocks
  BY DEF Blocks
<1>3. walk' \in [Thread -> WalkRec] /\ \A u \in Thread : walk'[u] = IF u = t THEN w ELSE walk[u]
  BY <1>1
<1> QED
  BY <1>1, <1>2, <1>3 DEF Walks

(* size_approx reads, and changes nothing but its own registers.            *)
LEMMA SizeApproxPreserves ==
    ASSUME IInv, conf' = conf, NEW t \in SizeCallers, SizeApprox(t)
    PROVE  IInv'
<1>1. /\ BlocksTyped /\ frontBlock \in Blocks /\ walk \in [Thread -> WalkRec] /\ conf \in Configurations
      /\ \A u \in Thread : walk[u].at \in Blocks /\ walk[u].start \in Blocks
  BY TypeFacts DEF IInv
<1>2. t \in Thread
  BY <1>1 DEF SizeCallers
<1>3. PICK w : w = walk[t]
  OBVIOUS
<1>4. /\ w \in WalkRec /\ w.at \in Blocks /\ w.start \in Blocks
      /\ w = [start |-> w.start, at |-> w.at, front |-> w.front, sum |-> w.sum]
      /\ w.start \in Nat /\ w.at \in Nat /\ w.front \in Int /\ w.sum \in Int
  BY <1>1, <1>2, <1>3 DEF WalkRec
<1>5. PICK r : r = block[w.at]
  OBVIOUS
<1>6. r.front \in Nat /\ r.tail \in Nat /\ r.size \in Nat /\ r.size >= 2 /\ r.next \in Blocks /\ r.next \in Nat
  BY <1>1, <1>4, <1>5, BlockFacts
<1>7. \A b \in Blocks : WalkFrom(b) \in WalkRec /\ WalkFrom(b).at \in Blocks /\ WalkFrom(b).start \in Blocks
  <2>1. Blocks \subseteq Nat
    BY DEF Blocks
  <2> QED
    BY <2>1 DEF WalkFrom, WalkRec
<1>8. CASE SizeBegin(t)
  <2>1. PICK v : v = WalkFrom(frontBlock)
    OBVIOUS
  <2>2. walk' = [walk EXCEPT ![t] = v] /\ v \in WalkRec /\ v.at \in Blocks /\ v.start \in Blocks
    BY <1>1, <1>7, <1>8, <2>1 DEF SizeBegin
  <2>3. At(t, "idle") /\ Goto(t, "sizeFront") /\ UNCHANGED <<block, frontBlock, tailBlock, producerRegs,
        consumerRegs>>
    BY <1>8 DEF SizeBegin, Begin
  <2>4. Walks'
    BY <1>2, <2>2, <2>3, WalksOn
  <2>5. "idle" \in WalkLabels /\ "sizeFront" \in WalkLabels
    BY DEF WalkLabels
  <2> QED
    BY <1>2, <2>3, <2>4, <2>5, Counts
<1>9. CASE SizeFront(t)
  <2>1. PICK v : v = [w EXCEPT !.front = r.front]
    OBVIOUS
  <2>2. v \in WalkRec /\ v.at \in Blocks /\ v.start \in Blocks
    BY <1>4, <1>6, <2>1 DEF WalkRec
  <2>3. walk' = [walk EXCEPT ![t] = v]
    BY <1>1, <1>2, <1>3, <1>5, <1>9, <2>1 DEF SizeFront
  <2>4. /\ At(t, "sizeFront") /\ Goto(t, "sizeTail")
        /\ UNCHANGED <<block, frontBlock, tailBlock, producerRegs, consumerRegs>>
    BY <1>9 DEF SizeFront, Step
  <2>5. Walks'
    BY <1>2, <2>2, <2>3, <2>4, WalksOn
  <2>6. "sizeFront" \in WalkLabels /\ "sizeTail" \in WalkLabels
    BY DEF WalkLabels
  <2> QED
    BY <1>2, <2>4, <2>5, <2>6, Counts
<1>10. CASE SizeTail(t)
  <2>1. PICK m : m = w.sum + ((r.tail - w.front) % r.size)
    OBVIOUS
  <2>2. m \in Int
    BY <1>4, <1>6, <2>1, SMT
  <2>3. PICK v : v = [w EXCEPT !.sum = m]
    OBVIOUS
  <2>4. v \in WalkRec /\ v.at \in Blocks /\ v.start \in Blocks
    BY <1>4, <2>2, <2>3 DEF WalkRec
  <2>5. walk' = [walk EXCEPT ![t] = v]
    BY <1>1, <1>2, <1>3, <1>5, <1>10, <2>1, <2>3 DEF SizeTail
  <2>6. /\ At(t, "sizeTail") /\ Goto(t, "sizeNext")
        /\ UNCHANGED <<block, frontBlock, tailBlock, producerRegs, consumerRegs>>
    BY <1>10 DEF SizeTail, Step
  <2>7. Walks'
    BY <1>2, <2>4, <2>5, <2>6, WalksOn
  <2>8. "sizeTail" \in WalkLabels /\ "sizeNext" \in WalkLabels
    BY DEF WalkLabels
  <2> QED
    BY <1>2, <2>6, <2>7, <2>8, Counts
<1>11. CASE SizeNext(t)
  <2>1. UNCHANGED <<block, frontBlock, tailBlock, producerRegs, consumerRegs>> /\ At(t, "sizeNext")
    BY <1>11 DEF SizeNext, Step
  <2>2. PICK to, v : /\ to \in {"idle", "sizeFront"} /\ Goto(t, to) /\ walk' = [walk EXCEPT ![t] = v]
                     /\ (v = WalkFrom(1) \/ v = [w EXCEPT !.at = r.next])
    <3>1. CASE r.next = w.start
      <4>1. Goto(t, "idle") /\ walk' = [walk EXCEPT ![t] = WalkFrom(1)]
        BY <1>3, <1>5, <1>11, <3>1 DEF SizeNext, Return
      <4> QED
        BY <4>1
    <3>2. CASE r.next # w.start
      <4>1. Goto(t, "sizeFront") /\ walk' = [walk EXCEPT ![t].at = r.next]
        BY <1>3, <1>5, <1>11, <3>2 DEF SizeNext, Step
      <4>2. walk' = [walk EXCEPT ![t] = [w EXCEPT !.at = r.next]]
        BY <1>1, <1>2, <1>3, <4>1
      <4> QED
        BY <4>1, <4>2
    <3> QED
      BY <3>1, <3>2
  <2>3. v \in WalkRec /\ v.at \in Blocks /\ v.start \in Blocks
    <3>1. 1 \in Blocks
      <4>1. Len(block) \in Nat \ {0} /\ Blocks = 1..Len(block)
        BY <1>1, BlockFacts
      <4> QED
        BY <4>1
    <3>2. CASE v = WalkFrom(1)
      BY <1>7, <3>1, <3>2
    <3>3. CASE v = [w EXCEPT !.at = r.next]
      BY <1>4, <1>6, <3>3 DEF WalkRec
    <3> QED
      BY <2>2, <3>2, <3>3
  <2>4. Walks'
    BY <1>2, <2>1, <2>2, <2>3, WalksOn
  <2>5. "sizeNext" \in WalkLabels /\ to \in WalkLabels
    BY <2>2 DEF WalkLabels
  <2> QED
    BY <1>2, <2>1, <2>2, <2>4, <2>5, Counts
<1> QED
  BY <1>8, <1>9, <1>10, <1>11 DEF SizeApprox

-----------------------------------------------------------------------------
(* The invariant *)

(* A new block is empty.                                                    *)
LEMMA NewBlockFacts ==
    ASSUME NEW s \in Nat, s >= 2, NEW q \in Nat
    PROVE  /\ NewBlock(s, q) \in BlockRec
           /\ NewBlock(s, q).front = 0 /\ NewBlock(s, q).localTail = 0 /\ NewBlock(s, q).tail = 0
           /\ NewBlock(s, q).localFront = 0 /\ NewBlock(s, q).next = q /\ NewBlock(s, q).size = s
           /\ NewBlock(s, q).data \in [0..(s - 1) -> Nat]
           /\ \A i \in 0..(s - 1) : NewBlock(s, q).data[i] = Raw
<1> DEFINE d == [i \in 0..(s - 1) |-> Raw]
<1>1. d \in [0..(s - 1) -> Nat] /\ \A i \in 0..(s - 1) : d[i] = Raw
  BY DEF Raw
<1>2. d \in DataArray
  BY <1>1 DEF DataArray
<1>3. NewBlock(s, q) = [front |-> 0, localTail |-> 0, tail |-> 0, localFront |-> 0, next |-> q, size |-> s,
                        data |-> d]
  BY DEF NewBlock
<1> HIDE DEF d
<1> QED
  BY <1>1, <1>2, <1>3 DEF BlockRec

(* A ring of n blocks, each linked to the next, is one ring.                *)
LEMMA OneRing ==
    ASSUME NEW n \in Nat \ {0}, NEW e, \A b \in 1..n : e[b] = IF b = n THEN 1 ELSE b + 1,
           NEW S, S \subseteq 1..n, S # {}, \A b \in S : e[b] \in S
    PROVE  S = 1..n
<1>1. PICK b \in S : TRUE
  OBVIOUS
<1> DEFINE From(a) == {k \in Nat : a + k <= n => a + k \in S}
<1>2. ASSUME NEW a \in S PROVE Nat \subseteq From(a)
  <2>0. a \in 1..n
    OBVIOUS
  <2>1. 0 \in From(a)
    BY <2>0
  <2>2. ASSUME NEW k \in Nat, k \in From(a) PROVE k + 1 \in From(a)
    <3> SUFFICES ASSUME a + (k + 1) <= n PROVE a + (k + 1) \in S
      BY SMT
    <3>1. a + k \in S /\ a + k \in 1..n /\ a + k # n
      BY <2>0, <2>2, SMT
    <3>2. e[a + k] = (a + k) + 1 /\ e[a + k] \in S
      BY <3>1
    <3>3. (a + k) + 1 = a + (k + 1)
      BY <2>0, SMT
    <3> QED
      BY <3>2, <3>3
  <2> HIDE DEF From
  <2> QED
    BY <2>1, <2>2, Induction
<1>3. n \in S
  <2>1. b \in 1..n /\ n - b \in Nat /\ b + (n - b) = n
    BY <1>1, SMT
  <2>2. n - b \in From(b)
    BY <1>2, <2>1
  <2> QED
    BY <2>1, <2>2
<1>4. 1 \in S
  BY <1>3
<1>5. ASSUME NEW c \in 1..n PROVE c \in S
  <2>1. c - 1 \in Nat /\ 1 + (c - 1) = c
    BY SMT
  <2>2. c - 1 \in From(1)
    BY <1>2, <1>4, <2>1
  <2> QED
    BY <2>1, <2>2
<1> QED
  BY <1>5

(* The queue is constructed empty, one ring of blocks.                      *)
LEMMA InitInvariant == Init => IInv
<1> SUFFICES ASSUME Init PROVE IInv
  OBVIOUS
<1>1. conf \in Configurations
  BY DEF Init
<1>2. PICK n, s : n = InitialBlockCount /\ s = InitialBlockSize
  OBVIOUS
<1>3. s \in Nat /\ s >= 2 /\ n \in Nat \ {0}
  BY <1>1, <1>2, Sizes
<1>4. /\ block = [b \in 1..n |-> NewBlock(s, IF b = n THEN 1 ELSE b + 1)]
      /\ frontBlock = 1 /\ tailBlock = 1 /\ largestBlockSize = s /\ pc = [t \in Thread |-> "idle"]
      /\ canAlloc = FALSE /\ op = "dequeue" /\ readBlock = 1 /\ elem = Raw
      /\ walk = [t \in Thread |-> WalkFrom(1)] /\ sent = 0 /\ taken = 0
  BY <1>2 DEF Init
<1>5. ASSUME NEW b \in 1..n
      PROVE  /\ block[b] \in BlockRec /\ block[b].front = 0 /\ block[b].localTail = 0 /\ block[b].tail = 0
             /\ block[b].localFront = 0 /\ block[b].next = IF b = n THEN 1 ELSE b + 1
             /\ block[b].size = s /\ block[b].next \in 1..n /\ block[b].data \in [0..(s - 1) -> Nat]
             /\ \A i \in 0..(s - 1) : block[b].data[i] = Raw
  <2>1. PICK q : q = IF b = n THEN 1 ELSE b + 1
    OBVIOUS
  <2>2. q \in 1..n /\ q \in Nat
    BY <1>3, <2>1
  <2>3. PICK r : r = NewBlock(s, q) /\ block[b] = r
    BY <1>4, <2>1
  <2>4. /\ r \in BlockRec /\ r.front = 0 /\ r.localTail = 0 /\ r.tail = 0 /\ r.localFront = 0
        /\ r.next = q /\ r.size = s /\ r.data \in [0..(s - 1) -> Nat]
        /\ \A i \in 0..(s - 1) : r.data[i] = Raw
    BY <1>3, <2>2, <2>3, NewBlockFacts
  <2> QED
    BY <2>1, <2>2, <2>3, <2>4
<1>6. block \in Seq(BlockRec) /\ Len(block) = n /\ block # <<>> /\ Blocks = 1..n
  <2>1. block \in [1..n -> BlockRec]
    BY <1>4, <1>5
  <2>2. block \in Seq(BlockRec)
    BY <1>3, <2>1, SeqDef
  <2>3. Len(block) \in Nat /\ DOMAIN block = 1..Len(block) /\ DOMAIN block = 1..n
    BY <1>4, <2>2, LenProperties
  <2>4. Len(block) = n
    <3>1. PICK l \in Nat : l = Len(block) /\ 1..l = 1..n
      BY <2>3
    <3>2. n \in 1..n
      BY <1>3
    <3>3. n \in 1..l
      BY <3>1, <3>2
    <3>4. l \in 1..l
      BY <3>1, <3>3
    <3>5. l \in 1..n
      BY <3>1, <3>4
    <3> QED
      BY <1>3, <3>1, <3>3, <3>5
  <2>5. block # <<>>
    BY <1>3, <2>2, <2>4, EmptySeq
  <2> QED
    BY <2>2, <2>4, <2>5 DEF Blocks
<1>7. BlocksTyped
  <2>1. ASSUME NEW b \in Blocks PROVE BlockType(block[b]) /\ block[b].size >= 2
    BY <1>3, <1>5, <1>6 DEF BlockType
  <2> QED
    BY <1>6, <2>1 DEF BlocksTyped
<1>8. 1 \in Blocks
  BY <1>3, <1>6
<1>9. pc \in [Thread -> Label] /\ pc["producer"] = "idle" /\ pc["consumer"] = "idle"
  <2>1. "idle" \in Label
    BY DEF Label, ProducerLabels
  <2> QED
    BY <1>4, <2>1 DEF Thread
<1>10. Types
  <2>1. WalkFrom(1) \in WalkRec /\ WalkFrom(1).at = 1 /\ WalkFrom(1).start = 1
    BY DEF WalkFrom, WalkRec
  <2>2. walk \in [Thread -> WalkRec] /\ \A t \in Thread : walk[t].at \in Blocks /\ walk[t].start \in Blocks
    BY <1>4, <1>8, <2>1
  <2>3. \A b \in Blocks : BlockType(block[b])
    BY <1>7 DEF BlocksTyped
  <2>4. TypeOK
    <3>1. frontBlock \in Blocks /\ tailBlock \in Blocks /\ readBlock \in Blocks
      BY <1>4, <1>8
    <3>2. largestBlockSize \in Nat \ {0} /\ canAlloc \in BOOLEAN /\ op \in {"dequeue", "peek"}
          /\ {elem, sent, taken} \subseteq Nat
      <4>1. largestBlockSize \in Nat /\ largestBlockSize # 0
        BY <1>3, <1>4
      <4>2. canAlloc \in BOOLEAN /\ op \in {"dequeue", "peek"} /\ elem = 0 /\ sent = 0 /\ taken = 0
        BY <1>4 DEF Raw
      <4> QED
        BY <4>1, <4>2
    <3> QED
      BY <1>1, <1>6, <1>9, <2>2, <2>3, <3>1, <3>2 DEF TypeOK
  <2> QED
    BY <1>3, <1>4, <1>7, <1>9, <2>2, <2>4 DEF Types
<1>11. HandsFree /\ Linked = Blocks /\ Pending = {} /\ Made = {} /\ Moved = {}
  BY <1>7, <1>9, LinkedBlocks DEF HandsFree, Moved, At
<1>12. \A b \in Blocks : Empty(b) /\ Occupied(b) = {}
  <2> SUFFICES ASSUME NEW b \in Blocks PROVE Empty(b) /\ Occupied(b) = {}
    OBVIOUS
  <2>1. block[b].front = 0 /\ block[b].tail = 0 /\ block[b].size = s
    BY <1>5, <1>6
  <2>2. Occupied(b) = FromTo(0, 0, s)
    BY <2>1, InTheseTerms
  <2>3. FromTo(0, 0, s) = {}
    BY <1>3, SMT DEF FromTo
  <2> QED
    BY <2>1, <2>2, <2>3 DEF Empty
<1>13. InUse = {1}
  BY <1>4, <1>12 DEF InUse
<1>14. Ring
  <2>1. \A b \in Linked : block[b].next \in Linked
    BY <1>5, <1>6, <1>11
  <2>2. \A a, b \in Linked : block[a].next = block[b].next => a = b
    <3> SUFFICES ASSUME NEW a \in 1..n, NEW b \in 1..n, block[a].next = block[b].next PROVE a = b
      BY <1>6, <1>11
    <3>1. (IF a = n THEN 1 ELSE a + 1) = (IF b = n THEN 1 ELSE b + 1)
      BY <1>5
    <3> QED
      BY <1>3, <3>1
  <2>3. \A S \in SUBSET Linked : S # {} /\ (\A b \in S : block[b].next \in S) => S = Linked
    <3> SUFFICES ASSUME NEW S \in SUBSET (1..n), S # {}, \A b \in S : block[b].next \in S PROVE S = 1..n
      BY <1>6, <1>11, Zenon
    <3> DEFINE e == [b \in 1..n |-> block[b].next]
    <3>1. \A b \in 1..n : e[b] = IF b = n THEN 1 ELSE b + 1
      BY <1>5
    <3>2. \A b \in S : e[b] \in S
      OBVIOUS
    <3> HIDE DEF e
    <3> QED
      BY <1>3, <3>1, <3>2, OneRing
  <2> QED
    BY <1>4, <1>8, <1>11, <1>13, <2>1, <2>2, <2>3, Zenon DEF Ring
<1>15. Order
  BY <1>5, <1>6 DEF Order, Between
<1>16. ProducerAt
  BY <1>9 DEF ProducerAt, At
<1>17. ConsumerAt
  BY <1>4, <1>8, <1>9, <1>11 DEF ConsumerAt, At
<1>18. Filled
  BY <1>5, <1>6, <1>11, <1>12 DEF Filled
<1>19. Inside
  BY <1>12 DEF Inside
<1>20. Chain
  BY <1>4, <1>8, <1>12, <1>13 DEF Chain
<1> QED
  BY <1>10, <1>14, <1>15, <1>16, <1>17, <1>18, <1>19, <1>20 DEF IInv

(* A step that changes nothing.                                             *)
LEMMA Stutters ==
    ASSUME IInv, UNCHANGED vars
    PROVE  IInv'
<1>3. /\ conf' = conf /\ block' = block /\ frontBlock' = frontBlock /\ tailBlock' = tailBlock /\ pc' = pc
      /\ canAlloc' = canAlloc /\ op' = op /\ readBlock' = readBlock /\ elem' = elem /\ walk' = walk
      /\ sent' = sent /\ taken' = taken /\ largestBlockSize' = largestBlockSize
  BY DEF vars
<1>4. Types'
  BY <1>3 DEF IInv, Types, TypeOK, BlocksTyped, BlockType, Blocks, At
<1>5. Ring'
  BY <1>3 DEF IInv, Ring, Linked, Blocks, InUse, Pending, Empty, At
<1>6. Order' /\ Filled' /\ Inside'
  BY <1>3 DEF IInv, Order, Between, Blocks, Filled, Inside, Val, Moved, Made, Occupied, Advance, At, NextOfTail
<1>7. ProducerAt'
  BY <1>3 DEF IInv, ProducerAt, NextTail, Advance, NextIsFree, NextOfTail, InUse, Linked, Blocks, Pending,
     Empty, At
<1>8. ConsumerAt'
  BY <1>3 DEF IInv, ConsumerAt, FrontDone, HasOne, Empty, Linked, Blocks, At
<1>9. Chain'
  BY <1>3 DEF IInv, Chain, Empty, First, Latest, LastSlot, Val, Moved, InUse, Pending, Blocks, At
<1> QED
  BY <1>4, <1>5, <1>6, <1>7, <1>8, <1>9 DEF IInv

(* Every step preserves the invariant.                                      *)
LEMMA StepInvariant ==
    ASSUME IInv, [Next]_vars
    PROVE  IInv'
<1>1. CASE UNCHANGED vars
  BY <1>1, Stutters
<1>2. CASE Next
  <2>1. conf' = conf
    BY <1>2 DEF Next
  <2>2. CASE InnerEnqueue
    BY <2>1, <2>2, EnqueueBeginPreserves, LoadFrontPreserves, ConstructPreserves, PublishPreserves,
       CheckNextPreserves, UseNextPreserves, ConstructNextPreserves, AdvanceTailPreserves,
       AdvanceBlockPreserves, MakeBlockPreserves, MakeBlockFailsPreserves, LinkPreserves DEF InnerEnqueue
  <2>3. CASE TryDequeue
    <3>1. CASE LoadTail
      BY <2>1, <3>1, RefreshPreserves DEF LoadTail
    <3>2. CASE Recheck
      BY <2>1, <3>2, RefreshPreserves DEF Recheck
    <3>3. CASE ~LoadTail /\ ~Recheck
      BY <2>1, <2>3, <3>3, DequeueBeginPreserves, LoadTailBlockPreserves, LoadNextPreserves,
         LoadNextTailPreserves,
         MoveFrontPreserves, ReadPeekedPreserves, ReadPreserves, ReleasePreserves DEF TryDequeue
    <3> QED
      BY <3>1, <3>2, <3>3
  <2>4. CASE \E t \in SizeCallers : SizeApprox(t)
    BY <2>1, <2>4, SizeApproxPreserves
  <2> QED
    BY <1>2, <2>2, <2>3, <2>4 DEF Next
<1> QED
  BY <1>1, <1>2

(* The invariant holds in every state.                                      *)
LEMMA Invariance == Spec => []IInv
<1>1. IInv /\ [Next]_vars => IInv'
  BY StepInvariant
<1> QED
  BY <1>1, InitInvariant, PTL DEF Spec

-----------------------------------------------------------------------------
(* What the invariant gives *)

(* Every pointer is a block that exists, every index is inside its block and*)
(* every thread is at a point of the call it is making.                     *)
THEOREM TypeCorrect == Spec => []TypeOK
<1>1. IInv => TypeOK
  BY DEF IInv, Types
<1> QED
  BY <1>1, Invariance, PTL

(* The assertions of inner_enqueue (line 589), try_dequeue, peek and pop (lines *)
(* 352, 417 and 468) never fail: a block the producer moves to is empty, one the*)
(* consumer moves to is not.                                                    *)
THEOREM AssertionsNeverFail == Spec => []AssertionsHold
<1>1. IInv => AssertionsHold
  <2> SUFFICES ASSUME IInv PROVE AssertionsHold
    OBVIOUS
  <2>1. ProducerAt /\ ConsumerAt
    BY DEF IInv
  <2>2. At("producer", "constructNext") => NextOfTail.localFront = NextOfTail.tail
    BY <2>1 DEF ProducerAt, At
  <2>3. At("consumer", "loadNextTail") => block[readBlock].front # block[readBlock].tail
    <3> SUFFICES ASSUME At("consumer", "loadNextTail") PROVE ~Empty(readBlock)
      BY DEF Empty
    <3>1. FrontDone /\ readBlock = block[frontBlock].next
      BY <2>1 DEF ConsumerAt, At
    <3>2. frontBlock \in InUse \ {tailBlock}
      BY <3>1, RingFacts DEF FrontDone
    <3> QED
      BY <3>1, <3>2, RingFacts
  <2>4. At("consumer", "moveFront") => block[readBlock].front # block[readBlock].localTail
    BY <2>1 DEF ConsumerAt, HasOne
  <2> QED
    BY <2>2, <2>3, <2>4 DEF AssertionsHold
<1> QED
  BY <1>1, Invariance, PTL

(* The threads are never at the same slot; an element is constructed where none *)
(* lives, and the one that is read is the first that was not taken: the queue is*)
(* first in first out, for every size and number of blocks.                     *)
THEOREM ThreadsKeepApart == Spec => []SlotsExclusive
<1>1. IInv => SlotsExclusive
  <2> SUFFICES ASSUME IInv PROVE SlotsExclusive
    OBVIOUS
  <2>1. /\ BlocksTyped /\ Order /\ ProducerAt /\ ConsumerAt /\ Filled /\ Chain /\ frontBlock \in Blocks
        /\ tailBlock \in Blocks /\ block[tailBlock].next \in Blocks /\ Linked \subseteq Blocks
    BY RingFacts DEF IInv
  <2>2. PICK x, y, n, t : x = tailBlock /\ y = frontBlock /\ n = block[x].next /\ t = block[x].tail
    OBVIOUS
  <2>3. \A b \in Blocks : /\ block[b].tail \in 0..(block[b].size - 1) /\ block[b].tail \notin Occupied(b)
                          /\ block[b].front \in 0..(block[b].size - 1)
    <3> SUFFICES ASSUME NEW b \in Blocks PROVE block[b].tail \notin Occupied(b)
      BY <2>1, BlockFacts
    <3>1. block[b].front \in Nat /\ block[b].tail \in Nat
      BY <2>1, BlockFacts
    <3> QED
      BY <3>1, SMT DEF Occupied
  <2>4. At("producer", "construct") \/ At("producer", "constructNext") => Made = {}
    BY DEF Made, At
  <2>5. ASSUME NEW p \in SlotWritten
        PROVE  SlotValue(p) = Raw /\ \E b \in Blocks : p = <<b, block[b].tail>>
           /\ (b = y => ~At("producer", "constructNext"))
    <3>1. PICK b \in Blocks : /\ p = <<b, block[b].tail>> /\ Made = {}
                              /\ (b = y => ~At("producer", "constructNext"))
      <4>1. CASE At("producer", "construct")
        BY <2>1, <2>2, <2>4, <2>5, <4>1 DEF SlotWritten, At
      <4>2. CASE At("producer", "constructNext")
        <5>1. p = <<n, block[n].tail>>
          BY <2>2, <2>5, <4>2 DEF SlotWritten, At, NextOfTail
        <5>2. n # y
          BY <2>1, <2>2, <4>2 DEF ProducerAt, At, NextIsFree
        <5> QED
          BY <2>1, <2>2, <2>4, <4>2, <5>1, <5>2
      <4>3. CASE ~At("producer", "construct") /\ ~At("producer", "constructNext")
        BY <2>5, <4>3 DEF SlotWritten
      <4> QED
        BY <4>1, <4>2, <4>3
    <3>2. block[b].data[block[b].tail] = Raw
      BY <2>1, <2>3, <3>1 DEF Filled
    <3> QED
      BY <3>1, <3>2 DEF SlotValue
  <2>6. ASSUME NEW p \in SlotRead
        PROVE  /\ SlotValue(p) = taken + 1
               /\ \E b \in Blocks : p = <<b, block[b].front>> /\ ~Empty(b)
    <3>1. At("consumer", "read") /\ p = <<readBlock, block[readBlock].front>> /\ Moved = {}
      BY <2>6 DEF SlotRead, Moved, At
    <3>2. PICK b : b = readBlock
      OBVIOUS
    <3>3. b \in Blocks /\ ~Empty(b)
      <4>1. CASE b = y /\ HasOne(y)
        BY <2>1, <2>2, <4>1, FrontIsTaken
      <4>2. CASE FrontDone /\ b = block[y].next
        BY <2>1, <2>2, <3>2, <4>2, RingFacts DEF FrontDone
      <4> QED
        BY <2>1, <2>2, <3>1, <3>2, <4>1, <4>2 DEF ConsumerAt
    <3>4. First(b) = taken + 1
      <4>1. CASE b = y
        BY <2>1, <2>2, <3>3, <4>1 DEF Chain
      <4>2. CASE FrontDone /\ b = block[y].next
        <5>1. y \in InUse \ {tailBlock} /\ Empty(y)
          BY <2>2, <4>2, RingFacts DEF FrontDone
        <5> QED
          BY <2>1, <4>2, <5>1 DEF Chain
      <4> QED
        BY <2>1, <2>2, <3>1, <3>2, <4>1, <4>2 DEF ConsumerAt
    <3>5. block[b].data[block[b].front] = taken + 1
      BY <3>1, <3>4 DEF First, Val
    <3> QED
      BY <3>1, <3>2, <3>3, <3>5 DEF SlotValue
  <2>7. SlotWritten \cap SlotRead = {}
    BY <2>5, <2>6 DEF Empty
  <2> QED
    BY <2>5, <2>6, <2>7 DEF SlotsExclusive
<1> QED
  BY <1>1, Invariance, PTL

(* Between calls the elements alive are those from front to tail of each block,*)
(* which the destructor destroys.                                              *)
THEOREM NothingLeaks == Spec => []DestructorDestroysTheLive
<1>1. IInv => DestructorDestroysTheLive
  <2> SUFFICES ASSUME IInv, \A t \in Thread : At(t, "idle"), NEW b \in Blocks
               PROVE  Occupied(b) = {i \in DOMAIN block[b].data : block[b].data[i] # Raw}
    BY DEF DestructorDestroysTheLive
  <2>1. BlocksTyped /\ Filled
    BY RingFacts DEF IInv
  <2>2. Moved = {} /\ Made = {}
    BY DEF Moved, Made, At, Thread
  <2>3. DOMAIN block[b].data = 0..(block[b].size - 1)
    BY <2>1, BlockFacts
  <2>4. \A i \in 0..(block[b].size - 1) : block[b].data[i] # Raw <=> i \in Occupied(b)
    BY <2>1, <2>2 DEF Filled
  <2>5. Occupied(b) \subseteq 0..(block[b].size - 1)
    BY DEF Occupied
  <2> QED
    BY <2>3, <2>4, <2>5
<1> QED
  BY <1>1, Invariance, PTL

-----------------------------------------------------------------------------
(* The ring, walked *)

(* A step that goes through the whole of L goes through it once and comes back. *)
LEMMA RoundTrip ==
    ASSUME NEW L, NEW a \in L, NEW g \in [L -> L], \A x, z \in L : g[x] = g[z] => x = z,
           \A S \in SUBSET L : S # {} /\ (\A b \in S : g[b] \in S) => S = L,
           NEW h, Iterates(h, L, a, g)
    PROVE  LET n == Cardinality(L)
           IN  n \in Nat /\ {h[k] : k \in 0..(n - 1)} = L /\ h[n] = a
<1>1. h \in [Nat -> L] /\ h[0] = a /\ \A k \in Nat : h[k + 1] = g[h[k]]
  BY DEF Iterates
<1> DEFINE R == {k \in Nat : k # 0 /\ h[k] = a}
<1>2. R # {}
  <2> DEFINE S == {h[k] : k \in Nat \ {0}}
  <2>1. S \in SUBSET L /\ h[1] \in S
    BY <1>1
  <2>2. ASSUME NEW b \in S PROVE g[b] \in S
    <3>1. PICK k \in Nat \ {0} : b = h[k]
      BY <2>2
    <3>2. k + 1 \in Nat \ {0} /\ g[b] = h[k + 1]
      BY <1>1, <3>1
    <3> QED
      BY <3>2
  <2> HIDE DEF S
  <2>3. S = L
    BY <2>1, <2>2
  <2>4. a \in S
    BY <2>3
  <2>5. PICK k \in Nat \ {0} : a = h[k]
    BY <2>4 DEF S
  <2> QED
    BY <2>5
<1>3. R \subseteq Nat
  OBVIOUS
<1>4. PICK m \in R : \A k \in R : m <= k
  BY <1>2, <1>3, LeastNumber
<1>5. m \in Nat /\ m # 0 /\ h[m] = a
  BY <1>4
<1>6. ASSUME NEW k \in Nat, k # 0, k < m PROVE h[k] # a
  <2> SUFFICES ASSUME h[k] = a PROVE FALSE
    OBVIOUS
  <2>1. k \in R
    BY <1>6
  <2>2. m <= k
    BY <1>4, <2>1
  <2> QED
    BY <1>5, <1>6, <2>2
<1> HIDE DEF R
<1>7. {h[k] : k \in 0..(m - 1)} = L
  <2> DEFINE S == {h[k] : k \in 0..(m - 1)}
  <2>1. S \in SUBSET L
    BY <1>1, <1>5
  <2>2. 0 \in 0..(m - 1)
    BY <1>5, SMT
  <2>3. a \in S
    BY <1>1, <2>2
  <2>4. ASSUME NEW b \in S PROVE g[b] \in S
    <3>1. PICK k \in 0..(m - 1) : b = h[k]
      BY <2>4
    <3>2. k \in Nat /\ g[b] = h[k + 1]
      BY <1>1, <3>1
    <3>3. CASE k + 1 = m
      BY <1>5, <2>3, <3>2, <3>3
    <3>4. CASE k + 1 # m
      <4>1. k + 1 \in 0..(m - 1)
        BY <1>5, <3>1, <3>4, SMT
      <4> QED
        BY <3>2, <4>1
    <3> QED
      BY <3>3, <3>4
  <2> HIDE DEF S
  <2>5. S = L
    BY <2>1, <2>3, <2>4
  <2> QED
    BY <2>5 DEF S
<1>8. \A d \in Nat : \A k \in Nat : h[k] = h[k + d] => h[d] = a
  <2> SUFFICES ASSUME NEW d \in Nat
               PROVE  \A k \in Nat : h[k] = h[k + d] => h[d] = a
    OBVIOUS
  <2> DEFINE D == {k \in Nat : h[k] = h[k + d] => h[d] = a}
  <2>1. 0 \in D
    <3>1. 0 + d = d
      BY SMT
    <3> QED
      BY <1>1, <3>1
  <2>2. ASSUME NEW k \in Nat, k \in D PROVE k + 1 \in D
    <3> SUFFICES ASSUME h[k + 1] = h[(k + 1) + d] PROVE h[d] = a
      OBVIOUS
    <3>1. (k + 1) + d = (k + d) + 1 /\ k + d \in Nat
      BY SMT
    <3>2. h[k + 1] = g[h[k]] /\ h[(k + d) + 1] = g[h[k + d]]
      BY <1>1, <3>1
    <3>3. h[k] \in L /\ h[k + d] \in L
      BY <1>1, <3>1
    <3>4. h[k] = h[k + d]
      BY <3>1, <3>2, <3>3
    <3> QED
      BY <2>2, <3>4
  <2> HIDE DEF D
  <2>3. Nat \subseteq D
    BY <2>1, <2>2, Induction
  <2> QED
    BY <2>3 DEF D
<1>9. ASSUME NEW i \in 0..(m - 1), NEW j \in 0..(m - 1), i < j PROVE h[i] # h[j]
  <2>1. i \in Nat /\ j - i \in Nat /\ j - i # 0 /\ j - i < m /\ i + (j - i) = j
    BY <1>5, <1>9, SMT
  <2>2. h[j - i] # a
    BY <1>6, <2>1
  <2> QED
    BY <1>8, <2>1, <2>2
<1>10. Cardinality(L) = m
  <2> DEFINE f == [i \in 1..m |-> h[i - 1]]
  <2>1. \A i \in 1..m : i - 1 \in 0..(m - 1) /\ i - 1 \in Nat
    BY <1>5, SMT
  <2>2. f \in [1..m -> L]
    BY <1>1, <2>1
  <2>3. ASSUME NEW i \in 1..m, NEW j \in 1..m, f[i] = f[j] PROVE i = j
    <3>1. h[i - 1] = h[j - 1]
      BY <2>3
    <3>2. ~(i - 1 < j - 1) /\ ~(j - 1 < i - 1)
      BY <1>9, <2>1, <3>1
    <3> QED
      BY <3>2, SMT
  <2>4. ASSUME NEW b \in L PROVE \E i \in 1..m : f[i] = b
    <3>1. PICK k \in 0..(m - 1) : h[k] = b
      BY <1>7
    <3>2. k + 1 \in 1..m /\ (k + 1) - 1 = k
      BY <1>5, SMT
    <3>3. f[k + 1] = b
      BY <3>1, <3>2
    <3> QED
      BY <3>2, <3>3
  <2> HIDE DEF f
  <2>5. f \in Bijection(1..m, L)
    BY <2>2, <2>3, <2>4, Fun_IsBij
  <2>6. ExistsBijection(1..m, L)
    BY <2>5 DEF ExistsBijection
  <2> QED
    BY <1>5, <2>6, FS_CountingElements
<1> QED
  BY <1>5, <1>7, <1>10

(* Hop, which is written by recursion, follows the next pointers.           *)
LEMMA HopIterates ==
    ASSUME NEW L, frontBlock \in L, NEW g \in [L -> L], \A b \in L : g[b] = block[b].next
    PROVE  Iterates(Hop, L, frontBlock, g)
<1>1. PICK h : Iterates(h, L, frontBlock, g)
  BY Iteration
<1>2. h = [n \in Nat |-> IF n = 0 THEN frontBlock ELSE block[h[n - 1]].next]
  <2>1. ASSUME NEW n \in Nat PROVE h[n] = IF n = 0 THEN frontBlock ELSE block[h[n - 1]].next
    <3>1. CASE n = 0
      BY <1>1, <3>1 DEF Iterates
    <3>2. CASE n # 0
      <4>1. n - 1 \in Nat /\ (n - 1) + 1 = n
        BY <3>2, SMT
      <4>2. h[(n - 1) + 1] = g[h[n - 1]] /\ h[n - 1] \in L
        BY <1>1, <4>1 DEF Iterates
      <4> QED
        BY <3>2, <4>1, <4>2
    <3> QED
      BY <3>1, <3>2
  <2> QED
    BY <1>1, <2>1 DEF Iterates
<1>3. Hop = [n \in Nat |-> IF n = 0 THEN frontBlock ELSE block[Hop[n - 1]].next]
  BY <1>2, Zenon DEF Hop
<1>4. Hop[0] = frontBlock
  BY <1>3
<1>5. \A n \in Nat : Hop[n + 1] = block[Hop[n]].next
  <2> SUFFICES ASSUME NEW n \in Nat PROVE Hop[n + 1] = block[Hop[n]].next
    OBVIOUS
  <2>1. n + 1 \in Nat /\ n + 1 # 0 /\ (n + 1) - 1 = n
    BY SMT
  <2>2. Hop[n + 1] = block[Hop[(n + 1) - 1]].next
    BY <1>3, <2>1, Zenon
  <2> QED
    BY <2>1, <2>2
<1> DEFINE S == {n \in Nat : Hop[n] \in L}
<1>6. Nat \subseteq S
  <2>1. 0 \in S
    BY <1>4
  <2>2. ASSUME NEW n \in Nat, n \in S PROVE n + 1 \in S
    <3>1. Hop[n] \in L
      BY <2>2
    <3>2. Hop[n + 1] = g[Hop[n]]
      BY <1>5, <3>1
    <3>3. Hop[n + 1] \in L
      BY <3>1, <3>2
    <3> QED
      BY <3>3
  <2> HIDE DEF S
  <2> QED
    BY <2>1, <2>2, Induction
<1>7. \A n \in Nat : Hop[n] \in L
  BY <1>6
<1>8. DOMAIN Hop = Nat /\ Hop = [n \in Nat |-> Hop[n]]
  <2>1. PICK e : e = [n \in Nat |-> IF n = 0 THEN frontBlock ELSE block[Hop[n - 1]].next]
    OBVIOUS
  <2>2. DOMAIN e = Nat /\ e = [n \in Nat |-> e[n]]
    BY <2>1
  <2> QED
    BY <1>3, <2>1, <2>2
<1>9. Hop \in [Nat -> L]
  BY <1>7, <1>8
<1> QED
  BY <1>4, <1>5, <1>7, <1>9 DEF Iterates

(* From the front block the next pointers visit every linked block once and come*)
(* back, as max_capacity, size_approx and the destructor take for granted.      *)
THEOREM TheRingIsWhole == Spec => []RingIntact
<1>1. IInv => RingIntact
  <2> SUFFICES ASSUME IInv PROVE RingIntact
    OBVIOUS
  <2>1. Ring /\ frontBlock \in Linked
    BY RingFacts DEF IInv
  <2> DEFINE g == [b \in Linked |-> block[b].next]
  <2>2. /\ g \in [Linked -> Linked] /\ \A b \in Linked : g[b] = block[b].next
        /\ \A x, z \in Linked : g[x] = g[z] => x = z
    BY <2>1 DEF Ring
  <2>3. \A S \in SUBSET Linked : S # {} /\ (\A b \in S : g[b] \in S) => S = Linked
    <3> SUFFICES ASSUME NEW S \in SUBSET Linked, S # {}, \A b \in S : g[b] \in S PROVE S = Linked
      OBVIOUS
    <3>1. \A b \in S : block[b].next \in S
      BY <2>2
    <3> QED
      BY <2>1, <3>1 DEF Ring
  <2> HIDE DEF g
  <2>4. Iterates(Hop, Linked, frontBlock, g)
    BY <2>1, <2>2, HopIterates
  <2>5. PICK L, f : L = Linked /\ f = frontBlock
    OBVIOUS
  <2>6. LET n == Cardinality(L) IN n \in Nat /\ {Hop[k] : k \in 0..(n - 1)} = L /\ Hop[n] = f
    BY <2>1, <2>2, <2>3, <2>4, <2>5, RoundTrip
  <2> QED
    BY <2>5, <2>6 DEF RingIntact
<1> QED
  BY <1>1, Invariance, PTL

(* The assumption on the constants is not needed below. *)
HIDE RWQAssumption

-----------------------------------------------------------------------------
(* How many elements some blocks hold *)

(* The slots from front to tail in the blocks of W, r being the blocks.      *)
Cells(r, W) == UNION {{b} \X FromTo(r[b].front, r[b].tail, r[b].size) : b \in W}
Amount(r, W) == Cardinality(Cells(r, W))

(* The blocks of W are finitely many, and their indices are inside.          *)
Sound(r, W) ==
    /\ IsFiniteSet(W)
    /\ \A b \in W : /\ r[b].size \in Nat /\ r[b].size >= 2
                    /\ r[b].front \in 0..(r[b].size - 1) /\ r[b].tail \in 0..(r[b].size - 1)

(* A cell is a block and a slot of it.                                       *)
LEMMA CellIsSlot ==
    ASSUME NEW r, NEW W, NEW c
    PROVE  c \in Cells(r, W) <=>
              \E b \in W : \E i \in FromTo(r[b].front, r[b].tail, r[b].size) : c = <<b, i>>
BY DEF Cells

(* The number of slots from front to tail of a buffer.                       *)
LEMMA SlotCount ==
    ASSUME NEW s \in Nat, s >= 2, NEW f \in 0..(s - 1), NEW t \in 0..(s - 1)
    PROVE  /\ IsFiniteSet(FromTo(f, t, s))
           /\ Cardinality(FromTo(f, t, s)) = (t - f) % s
           /\ Cardinality(FromTo(f, t, s)) \in Nat
<1>1. CASE f <= t
  <2>1. FromTo(f, t, s) = f..(t - 1)
    <3>1. \A i : i \in FromTo(f, t, s) <=> i \in f..(t - 1)
      BY <1>1, SMT DEF FromTo
    <3> QED
      BY <3>1
  <2>2. f \in Int /\ t - 1 \in Int
    BY SMT
  <2>3. IsFiniteSet(f..(t - 1)) /\ Cardinality(f..(t - 1)) = IF f > t - 1 THEN 0 ELSE (t - 1) - f + 1
    BY <2>2, FS_Interval
  <2>4. Cardinality(f..(t - 1)) = t - f /\ t - f \in Nat /\ (t - f) % s = t - f
    BY <1>1, <2>3, SMT
  <2> QED
    BY <2>1, <2>3, <2>4
<1>2. CASE ~(f <= t)
  <2> DEFINE A == f..(s - 1)
  <2> DEFINE B == 0..(t - 1)
  <2>1. FromTo(f, t, s) = A \cup B
    <3>1. \A i : i \in FromTo(f, t, s) <=> i \in A \/ i \in B
      BY <1>2, SMT DEF FromTo
    <3> QED
      BY <3>1
  <2>2. A \cap B = {}
    BY <1>2, SMT
  <2>3. IsFiniteSet(A) /\ Cardinality(A) = s - f
    <3>1. f \in Int /\ s - 1 \in Int
      BY SMT
    <3>2. IsFiniteSet(A) /\ Cardinality(A) = IF f > s - 1 THEN 0 ELSE (s - 1) - f + 1
      BY <3>1, FS_Interval
    <3> QED
      BY <3>2, SMT
  <2>4. IsFiniteSet(B) /\ Cardinality(B) = t
    <3>1. 0 \in Int /\ t - 1 \in Int
      BY SMT
    <3>2. IsFiniteSet(B) /\ Cardinality(B) = IF 0 > t - 1 THEN 0 ELSE (t - 1) - 0 + 1
      BY <3>1, FS_Interval
    <3> QED
      BY <3>2, SMT
  <2> HIDE DEF A, B
  <2>5. IsFiniteSet(A \cup B) /\ Cardinality(A \cup B) = Cardinality(A) + Cardinality(B) - Cardinality(A \cap B)
    BY <2>3, <2>4, FS_Union
  <2>6. Cardinality(A \cap B) = 0
    BY <2>2, FS_EmptySet
  <2>7. (t - f) % s = s - f + t
    BY <1>2, SMT
  <2>8. s - f + t \in Nat
    BY SMT
  <2>9. Cardinality(A \cup B) = s - f + t
    BY <2>3, <2>4, <2>5, <2>6, SMT
  <2> QED
    BY <2>1, <2>5, <2>7, <2>8, <2>9
<1> QED
  BY <1>1, <1>2

(* One block. *)
LEMMA OneBlock ==
    ASSUME NEW r, NEW b, Sound(r, {b})
    PROVE  IsFiniteSet(Cells(r, {b})) /\ Amount(r, {b}) = (r[b].tail - r[b].front) % r[b].size
           /\ Amount(r, {b}) \in Nat
<1> DEFINE F == FromTo(r[b].front, r[b].tail, r[b].size)
<1>1. IsFiniteSet(F) /\ Cardinality(F) = (r[b].tail - r[b].front) % r[b].size /\ Cardinality(F) \in Nat
  BY SlotCount DEF Sound
<1>2. Cells(r, {b}) = {b} \X F
  <2>1. ASSUME NEW c PROVE c \in Cells(r, {b}) <=> \E i \in F : c = <<b, i>>
    <3>1. c \in Cells(r, {b}) <=>
             \E a \in {b} : \E i \in FromTo(r[a].front, r[a].tail, r[a].size) : c = <<a, i>>
      BY CellIsSlot
    <3> QED
      BY <3>1
  <2> HIDE DEF F
  <2> QED
    BY <2>1
<1> HIDE DEF F
<1>3. IsFiniteSet({b}) /\ Cardinality({b}) = 1
  BY FS_Singleton
<1>4. IsFiniteSet({b} \X F) /\ Cardinality({b} \X F) = Cardinality({b}) * Cardinality(F)
  BY <1>1, <1>3, FS_Product
<1>5. Cardinality({b} \X F) = Cardinality(F)
  BY <1>1, <1>3, <1>4, SMT
<1> QED
  BY <1>1, <1>2, <1>4, <1>5 DEF Amount

(* Some blocks.                                                              *)
LEMMA SomeBlocks ==
    ASSUME NEW r, NEW W, Sound(r, W)
    PROVE  IsFiniteSet(Cells(r, W)) /\ Amount(r, W) \in Nat
<1> DEFINE g == [b \in W |-> {b} \X FromTo(r[b].front, r[b].tail, r[b].size)]
<1> DEFINE S == {{b} \X FromTo(r[b].front, r[b].tail, r[b].size) : b \in W}
<1>1. g \in Surjection(W, S)
  BY DEF Surjection
<1>2. IsFiniteSet(W)
  BY DEF Sound
<1>3. IsFiniteSet(S)
  <2> HIDE DEF S, g
  <2> QED
    BY <1>1, <1>2, FS_Surjection
<1>4. ASSUME NEW T \in S PROVE IsFiniteSet(T)
  <2>1. PICK b \in W : T = {b} \X FromTo(r[b].front, r[b].tail, r[b].size)
    OBVIOUS
  <2> DEFINE F == FromTo(r[b].front, r[b].tail, r[b].size)
  <2>2. IsFiniteSet(F)
    BY SlotCount DEF Sound
  <2> HIDE DEF F
  <2>3. IsFiniteSet({b})
    BY FS_Singleton
  <2>4. IsFiniteSet({b} \X F)
    BY <2>2, <2>3, FS_Product
  <2> QED
    BY <2>1, <2>4 DEF F
<1>5. IsFiniteSet(UNION S)
  <2> HIDE DEF S
  <2> QED
    BY <1>3, <1>4, FS_UNION
<1>6. Cells(r, W) = UNION S
  BY DEF Cells
<1> QED
  BY <1>5, <1>6, FS_CardinalityType DEF Amount

(* Blocks counted apart.                                                     *)
LEMMA Apart ==
    ASSUME NEW r, NEW V, NEW W, Sound(r, V), Sound(r, W), V \cap W = {}
    PROVE  Amount(r, V \cup W) = Amount(r, V) + Amount(r, W)
<1>1. Cells(r, V \cup W) = Cells(r, V) \cup Cells(r, W)
  <2>1. ASSUME NEW c PROVE c \in Cells(r, V \cup W) <=> c \in Cells(r, V) \/ c \in Cells(r, W)
    <3> DEFINE In(b) == \E i \in FromTo(r[b].front, r[b].tail, r[b].size) : c = <<b, i>>
    <3>1. \A U : c \in Cells(r, U) <=> \E b \in U : In(b)
      BY CellIsSlot
    <3> HIDE DEF In
    <3> QED
      BY <3>1
  <2> QED
    BY <2>1
<1>2. Cells(r, V) \cap Cells(r, W) = {}
  <2> SUFFICES ASSUME NEW c, c \in Cells(r, V), c \in Cells(r, W) PROVE FALSE
    OBVIOUS
  <2>1. PICK a \in V : \E i : c = <<a, i>>
    BY CellIsSlot
  <2>2. PICK b \in W : \E i : c = <<b, i>>
    BY CellIsSlot
  <2>3. a = b
    BY <2>1, <2>2
  <2> QED
    BY <2>3
<1>3. /\ IsFiniteSet(Cells(r, V)) /\ IsFiniteSet(Cells(r, W))
      /\ Cardinality(Cells(r, V)) \in Nat /\ Cardinality(Cells(r, W)) \in Nat
  BY SomeBlocks DEF Amount
<1>4. Cardinality(Cells(r, V) \cup Cells(r, W)) =
         Cardinality(Cells(r, V)) + Cardinality(Cells(r, W)) - Cardinality(Cells(r, V) \cap Cells(r, W))
  BY <1>3, FS_Union
<1>5. Cardinality(Cells(r, V) \cap Cells(r, W)) = 0
  BY <1>2, FS_EmptySet
<1>6. Cardinality(Cells(r, V) \cup Cells(r, W)) = Cardinality(Cells(r, V)) + Cardinality(Cells(r, W))
  BY <1>3, <1>4, <1>5, SMT
<1> QED
  BY <1>1, <1>6 DEF Amount

(* A part holds no more than the whole. *)
LEMMA PartOfWhole ==
    ASSUME NEW r, NEW V, NEW W, Sound(r, W), V \subseteq W
    PROVE  /\ Sound(r, V) /\ Amount(r, V) \in Nat /\ Amount(r, W) \in Nat
           /\ Amount(r, V) <= Amount(r, W)
           /\ Amount(r, W) = Amount(r, V) + Amount(r, W \ V) /\ Amount(r, W \ V) \in Nat
<1>1. Sound(r, V) /\ Sound(r, W \ V)
  BY FS_Subset DEF Sound
<1>2. Amount(r, V) \in Nat /\ Amount(r, W) \in Nat /\ Amount(r, W \ V) \in Nat
  BY <1>1, SomeBlocks
<1>3. V \cup (W \ V) = W /\ V \cap (W \ V) = {}
  OBVIOUS
<1>4. Amount(r, V \cup (W \ V)) = Amount(r, V) + Amount(r, W \ V)
  BY <1>1, <1>3, Apart, Zenon
<1>5. V \cup (W \ V) = W
  BY <1>3
<1>6. Amount(r, W) = Amount(r, V) + Amount(r, W \ V)
  BY <1>4, <1>5
<1>7. Amount(r, V) <= Amount(r, W)
  BY <1>2, <1>6, SMT
<1> QED
  BY <1>1, <1>2, <1>6, <1>7

(* No blocks hold nothing. *)
LEMMA NoBlocks == \A r : Amount(r, {}) = 0
<1> SUFFICES ASSUME NEW r PROVE Amount(r, {}) = 0
  OBVIOUS
<1>1. Cells(r, {}) = {}
  BY DEF Cells
<1> QED
  BY <1>1, FS_EmptySet DEF Amount

(* What the blocks hold depends on their indices. *)
LEMMA SameCells ==
    ASSUME NEW r, NEW q, NEW W,
           \A b \in W : q[b].front = r[b].front /\ q[b].tail = r[b].tail /\ q[b].size = r[b].size
    PROVE  Cells(q, W) = Cells(r, W) /\ Amount(q, W) = Amount(r, W)
<1>1. \A c : c \in Cells(q, W) <=> c \in Cells(r, W)
  BY CellIsSlot
<1>2. Cells(q, W) = Cells(r, W)
  BY <1>1
<1> QED
  BY <1>2 DEF Amount

(* Of two states of the blocks, the second differs in x at most.             *)
OnlyAt(r, q, W, x) ==
    \A b \in W \ {x} : q[b].front = r[b].front /\ q[b].tail = r[b].tail /\ q[b].size = r[b].size

(* What they hold differs by what x holds. *)
LEMMA OneChanges ==
    ASSUME NEW r, NEW q, NEW W, NEW x, Sound(r, W), Sound(q, W), OnlyAt(r, q, W, x)
    PROVE  /\ x \notin W => Amount(q, W) = Amount(r, W)
           /\ x \in W => Amount(q, W) = Amount(r, W) + (Amount(q, {x}) - Amount(r, {x}))
<1>1. CASE x \notin W
  <2>1. Amount(q, W) = Amount(r, W)
    BY <1>1, SameCells DEF OnlyAt
  <2> QED
    BY <1>1, <2>1
<1>2. CASE x \in W
  <2>1. {x} \subseteq W
    BY <1>2
  <2>2. /\ Amount(r, W) = Amount(r, {x}) + Amount(r, W \ {x})
        /\ Amount(r, {x}) \in Nat /\ Amount(r, W \ {x}) \in Nat
    BY <2>1, PartOfWhole
  <2>3. /\ Amount(q, W) = Amount(q, {x}) + Amount(q, W \ {x})
        /\ Amount(q, {x}) \in Nat /\ Amount(q, W \ {x}) \in Nat
    BY <2>1, PartOfWhole
  <2>4. Amount(q, W \ {x}) = Amount(r, W \ {x})
    BY SameCells DEF OnlyAt
  <2>5. Amount(q, W) = Amount(r, W) + (Amount(q, {x}) - Amount(r, {x}))
    BY <2>2, <2>3, <2>4, SMT
  <2> QED
    BY <1>2, <2>5
<1> QED
  BY <1>1, <1>2

(* Blocks that hold k elements each. *)
LEMMA AtLeast ==
    ASSUME NEW r, NEW k \in Nat, NEW W, Sound(r, W), \A b \in W : Amount(r, {b}) >= k
    PROVE  Amount(r, W) >= Cardinality(W) * k /\ Cardinality(W) \in Nat
<1> DEFINE S == {n \in Nat : \A V \in SUBSET W : Cardinality(V) = n => Amount(r, V) >= n * k}
<1>0. IsFiniteSet(W) /\ \A V \in SUBSET W : IsFiniteSet(V) /\ Sound(r, V) /\ Amount(r, V) \in Nat
  BY FS_Subset, PartOfWhole DEF Sound
<1>1. 0 \in S
  <2> SUFFICES ASSUME NEW V \in SUBSET W PROVE Amount(r, V) >= 0 * k
    OBVIOUS
  <2> QED
    BY <1>0, SMT
<1>2. ASSUME NEW n \in Nat, n \in S PROVE n + 1 \in S
  <2> SUFFICES ASSUME NEW V \in SUBSET W, Cardinality(V) = n + 1 PROVE Amount(r, V) >= (n + 1) * k
    OBVIOUS
  <2>1. PICK b \in V : TRUE
    <3>1. Cardinality(V) # 0
      BY SMT
    <3> QED
      BY <1>0, <3>1, FS_EmptySet
  <2>2. Cardinality(V \ {b}) = n
    <3>1. Cardinality(V \ {b}) = Cardinality(V) - 1
      BY <1>0, <2>1, FS_RemoveElement
    <3> QED
      BY <3>1, SMT
  <2>3. Amount(r, V \ {b}) >= n * k
    <3>1. \A U \in SUBSET W : Cardinality(U) = n => Amount(r, U) >= n * k
      BY <1>2
    <3>2. V \ {b} \in SUBSET W
      OBVIOUS
    <3> QED
      BY <2>2, <3>1, <3>2, Zenon
  <2>4. Amount(r, V) = Amount(r, {b}) + Amount(r, V \ {b}) /\ Amount(r, {b}) \in Nat /\ Amount(r, V \ {b}) \in Nat
    <3>1. {b} \subseteq V /\ Sound(r, V)
      BY <1>0, <2>1
    <3> QED
      BY <3>1, PartOfWhole
  <2>5. Amount(r, {b}) >= k
    BY <2>1
  <2>6. (n + 1) * k = n * k + k /\ n * k \in Nat
    BY SMT
  <2> QED
    BY <2>3, <2>4, <2>5, <2>6, SMT
<1>3. Nat \subseteq S
  <2> HIDE DEF S
  <2> QED
    BY <1>1, <1>2, Induction
<1>4. Cardinality(W) \in Nat
  BY <1>0, FS_CardinalityType
<1>5. Cardinality(W) \in S
  BY <1>3, <1>4
<1>6. W \in SUBSET W
  OBVIOUS
<1> QED
  BY <1>4, <1>5, <1>6, Zenon

(* What the tail's step does to a block, and what the front's does.          *)
LEMMA OneMoreOrLess ==
    ASSUME NEW r, NEW q, NEW x, Sound(r, {x}), Sound(q, {x}), q[x].size = r[x].size
    PROVE  /\ q[x].front = r[x].front /\ q[x].tail = Round(r[x].tail, r[x].size) /\ q[x].tail # r[x].front
                 => Amount(q, {x}) = Amount(r, {x}) + 1
           /\ q[x].tail = r[x].tail /\ q[x].front = Round(r[x].front, r[x].size) /\ r[x].front # r[x].tail
                 => Amount(q, {x}) = Amount(r, {x}) - 1
           /\ Round(r[x].tail, r[x].size) = r[x].front => Amount(r, {x}) = r[x].size - 1
<1> DEFINE f == r[x].front
<1> DEFINE t == r[x].tail
<1> DEFINE s == r[x].size
<1>1. s \in Nat /\ s >= 2 /\ f \in 0..(s - 1) /\ t \in 0..(s - 1)
  BY DEF Sound
<1>2. Amount(r, {x}) = (t - f) % s /\ Amount(q, {x}) = (q[x].tail - q[x].front) % s
  BY OneBlock, Zenon
<1>3. ASSUME NEW a, NEW b, NEW n \in Nat, n >= 2, a \in 0..(n - 1), b \in 0..(n - 1)
      PROVE  (b - a) % n = IF a <= b THEN b - a ELSE n - a + b
  BY <1>3, SMT
<1> HIDE DEF f, t, s
<1>4. ASSUME q[x].front = f, q[x].tail = Round(t, s), q[x].tail # f
      PROVE  Amount(q, {x}) = Amount(r, {x}) + 1
  <2>1. Round(t, s) \in 0..(s - 1) /\ Round(t, s) # f
    BY <1>1, <1>4, SMT DEF Round
  <2>2. Amount(q, {x}) = IF f <= Round(t, s) THEN Round(t, s) - f ELSE s - f + Round(t, s)
    BY <1>1, <1>2, <1>3, <1>4, <2>1
  <2>3. Amount(r, {x}) = IF f <= t THEN t - f ELSE s - f + t
    BY <1>1, <1>2, <1>3
  <2> QED
    BY <1>1, <2>1, <2>2, <2>3, SMT DEF Round
<1>5. ASSUME q[x].tail = t, q[x].front = Round(f, s), f # t
      PROVE  Amount(q, {x}) = Amount(r, {x}) - 1
  <2>1. Round(f, s) \in 0..(s - 1)
    BY <1>1, SMT DEF Round
  <2>2. Amount(q, {x}) = IF Round(f, s) <= t THEN t - Round(f, s) ELSE s - Round(f, s) + t
    BY <1>1, <1>2, <1>3, <1>5, <2>1
  <2>3. Amount(r, {x}) = IF f <= t THEN t - f ELSE s - f + t
    BY <1>1, <1>2, <1>3
  <2> QED
    BY <1>1, <1>5, <2>1, <2>2, <2>3, SMT DEF Round
<1>6. ASSUME Round(t, s) = f PROVE Amount(r, {x}) = s - 1
  <2>1. Amount(r, {x}) = IF f <= t THEN t - f ELSE s - f + t
    BY <1>1, <1>2, <1>3
  <2> QED
    BY <1>1, <1>6, <2>1, SMT DEF Round
<1> QED
  BY <1>4, <1>5, <1>6 DEF f, t, s

-----------------------------------------------------------------------------
(* What the queue holds *)

(* The numbers after a up to b, with v in place of the first. *)
Run(v, a, b) == [k \in 1..(b - a) |-> IF k = 1 THEN v ELSE a + k]

(* FlattenSeq, which is written by recursion, appends one after the other.   *)
LEMMA Flattened ==
    ASSUME NEW n \in Nat \ {0}, NEW s, Len(s) = n, NEW e,
           e[1] = s[1], \A i \in 1..(n - 1) : e[i + 1] = e[i] \o s[i + 1]
    PROVE  FlattenSeq(s) = e[n]
<1> DEFINE Flat(f) == f = [i \in 1..n |-> IF i = 1 THEN s[i] ELSE f[i - 1] \o s[i]]
<1> DEFINE f == CHOOSE f : Flat(f)
<1>1. FlattenSeq(s) = f[n]
  BY DEF FlattenSeq
<1>2. Flat([i \in 1..n |-> e[i]])
  <2> DEFINE d == [i \in 1..n |-> e[i]]
  <2>1. ASSUME NEW i \in 1..n PROVE d[i] = IF i = 1 THEN s[i] ELSE d[i - 1] \o s[i]
    <3>1. CASE i = 1
      BY <3>1
    <3>2. CASE i # 1
      <4>1. i - 1 \in 1..(n - 1) /\ i - 1 \in 1..n /\ (i - 1) + 1 = i
        BY <3>2, SMT
      <4>2. e[(i - 1) + 1] = e[i - 1] \o s[(i - 1) + 1]
        BY <4>1
      <4>3. d[i - 1] = e[i - 1]
        BY <4>1
      <4> QED
        BY <3>2, <4>1, <4>2, <4>3
    <3> QED
      BY <3>1, <3>2
  <2>2. d = [i \in 1..n |-> d[i]]
    OBVIOUS
  <2> HIDE DEF d
  <2>3. Flat(d)
    BY <2>1, <2>2
  <2> QED
    BY <2>3 DEF d
<1> HIDE DEF Flat
<1>3. Flat(f)
  BY <1>2
<1> HIDE DEF f
<1>4. \A i \in 1..n : f[i] = IF i = 1 THEN s[i] ELSE f[i - 1] \o s[i]
  <2>1. f = [i \in 1..n |-> IF i = 1 THEN s[i] ELSE f[i - 1] \o s[i]]
    BY <1>3 DEF Flat
  <2>2. PICK h : h = [i \in 1..n |-> IF i = 1 THEN s[i] ELSE f[i - 1] \o s[i]]
    OBVIOUS
  <2>3. \A i \in 1..n : h[i] = IF i = 1 THEN s[i] ELSE f[i - 1] \o s[i]
    BY <2>2
  <2>4. h = f
    BY <2>1, <2>2
  <2> QED
    BY <2>3, <2>4
<1> DEFINE S == {i \in Nat : i < n => f[i + 1] = e[i + 1]}
<1>5. 0 \in S
  <2>1. 0 + 1 \in 1..n /\ 0 + 1 = 1
    BY SMT
  <2> QED
    BY <1>4, <2>1
<1>6. ASSUME NEW i \in Nat, i \in S PROVE i + 1 \in S
  <2> SUFFICES ASSUME i + 1 < n PROVE f[(i + 1) + 1] = e[(i + 1) + 1]
    OBVIOUS
  <2>1. i < n /\ i + 1 \in 1..(n - 1) /\ (i + 1) + 1 \in 1..n /\ (i + 1) + 1 # 1 /\ ((i + 1) + 1) - 1 = i + 1
    BY SMT
  <2>2. f[i + 1] = e[i + 1]
    BY <1>6, <2>1
  <2>3. f[(i + 1) + 1] = f[((i + 1) + 1) - 1] \o s[(i + 1) + 1]
    BY <1>4, <2>1, Zenon
  <2>4. e[(i + 1) + 1] = e[i + 1] \o s[(i + 1) + 1]
    BY <2>1
  <2> QED
    BY <2>1, <2>2, <2>3, <2>4, Zenon
<1> HIDE DEF S
<1>7. n - 1 \in S
  <2>1. n - 1 \in Nat
    BY SMT
  <2> QED
    BY <1>5, <1>6, <2>1, Induction
<1>8. f[(n - 1) + 1] = e[(n - 1) + 1]
  BY <1>7, SMT DEF S
<1>9. (n - 1) + 1 = n
  BY SMT
<1> QED
  BY <1>1, <1>8, <1>9

IsRun(s, v, a, b) ==
    /\ s \in Seq(Nat) /\ Len(s) = b - a /\ b - a \in Nat
    /\ \A k \in 1..(b - a) : s[k] = IF k = 1 THEN v ELSE a + k

(* A run is a sequence. *)
LEMMA RunIs ==
    ASSUME NEW v \in Nat, NEW a \in Nat, NEW b \in Nat, a <= b
    PROVE  IsRun(Run(v, a, b), v, a, b)
<1>1. b - a \in Nat
  BY SMT
<1>2. PICK n \in Nat : n = b - a
  BY <1>1
<1>3. Run(v, a, b) = [k \in 1..n |-> IF k = 1 THEN v ELSE a + k]
  BY <1>2 DEF Run
<1>4. \A k \in 1..n : (IF k = 1 THEN v ELSE a + k) \in Nat
  <2>1. \A k \in 1..n : a + k \in Nat
    BY SMT
  <2> QED
    BY <2>1
<1>5. Run(v, a, b) \in Seq(Nat) /\ Len(Run(v, a, b)) = n
  BY <1>3, <1>4
<1>6. \A k \in 1..n : Run(v, a, b)[k] = IF k = 1 THEN v ELSE a + k
  BY <1>3
<1> QED
  BY <1>1, <1>2, <1>5, <1>6 DEF IsRun

(* One run of numbers after another. *)
LEMMA RunOn ==
    ASSUME NEW v \in Nat, NEW a \in Nat, NEW b \in Nat, NEW c \in Nat, a <= b, b <= c, a = b => v = a + 1
    PROVE  Run(v, a, b) \o Run(b + 1, b, c) = Run(v, a, c)
<1> DEFINE s == Run(v, a, b)
<1> DEFINE t == Run(b + 1, b, c)
<1> DEFINE w == Run(v, a, c)
<1>1. b - a \in Nat /\ c - b \in Nat /\ c - a \in Nat /\ (b - a) + (c - b) = c - a /\ a <= c /\ b + 1 \in Nat
  BY SMT
<1>3. IsRun(s, v, a, b)
  BY <1>1, RunIs
<1>4. IsRun(t, b + 1, b, c)
  BY <1>1, RunIs
<1>5. IsRun(w, v, a, c)
  BY <1>1, RunIs
<1> HIDE DEF s, t, w
<1>6. /\ s \o t \in Seq(Nat) /\ Len(s \o t) = Len(s) + Len(t)
      /\ \A k \in 1..(Len(s) + Len(t)) : (s \o t)[k] = IF k <= Len(s) THEN s[k] ELSE t[k - Len(s)]
  BY <1>3, <1>4, ConcatProperties DEF IsRun
<1>7. Len(s \o t) = c - a
  BY <1>1, <1>3, <1>4, <1>6 DEF IsRun
<1>8. ASSUME NEW k \in 1..(c - a) PROVE (s \o t)[k] = w[k]
  <2>1. (s \o t)[k] = IF k <= b - a THEN s[k] ELSE t[k - (b - a)]
    <3>1. k \in 1..(Len(s) + Len(t))
      BY <1>1, <1>3, <1>4 DEF IsRun
    <3> QED
      BY <1>3, <1>6, <3>1 DEF IsRun
  <2>2. CASE k <= b - a
    <3>1. k \in 1..(b - a)
      BY <1>1, <2>2, SMT
    <3> QED
      BY <1>3, <1>5, <2>1, <2>2, <3>1 DEF IsRun
  <2>3. CASE ~(k <= b - a)
    <3>1. k - (b - a) \in 1..(c - b) /\ b + (k - (b - a)) = a + k
      BY <1>1, <2>3, SMT
    <3>2. t[k - (b - a)] = a + k
      BY <1>4, <3>1 DEF IsRun
    <3>3. k = 1 => v = a + k
      BY <2>3, SMT
    <3> QED
      BY <1>5, <2>1, <2>3, <3>2, <3>3 DEF IsRun
  <2> QED
    BY <2>2, <2>3
<1>9. s \o t = w
  <2>1. w \in Seq(Nat) /\ Len(w) = c - a
    BY <1>5 DEF IsRun
  <2>2. \A k \in 1..Len(s \o t) : (s \o t)[k] = w[k]
    BY <1>7, <1>8
  <2>3. s \o t \in Seq(Nat) /\ Len(s \o t) = Len(w)
    BY <1>6, <1>7, <2>1
  <2> QED
    BY <2>1, <2>2, <2>3, SeqEqual
<1> QED
  BY <1>9 DEF s, t, w

(* The k-th slot from the front. *)
Nth(f, k, s) == (f + k - 1) % s

(* n slots from f on, the last before t. *)
InOrder(f, t, s, n) ==
    /\ n \in Nat \ {0}
    /\ Nth(f, 1, s) = f /\ Nth(f, n, s) = Back(t, s)
    /\ \A k \in 1..n : Nth(f, k, s) \in FromTo(f, t, s) /\ (k # 1 => Nth(f, k, s) # f)
    /\ \A k \in 1..(n - 1) : Nth(f, k + 1, s) = Round(Nth(f, k, s), s)

(* The slots from f to t, one after the other.                               *)
LEMMA SlotsInOrder ==
    ASSUME NEW s \in Nat, s >= 2, NEW f \in 0..(s - 1), NEW t \in 0..(s - 1), f # t,
           NEW n, n = Cardinality(FromTo(f, t, s))
    PROVE  InOrder(f, t, s, n)
<1>1. n = IF f <= t THEN t - f ELSE s - f + t
  <2>1. n = (t - f) % s
    BY SlotCount
  <2> QED
    BY <2>1, SMT
<1>2. n \in Nat \ {0} /\ n <= s - 1
  BY <1>1, SMT
<1>3. \A k \in 1..n : Nth(f, k, s) = IF f + k - 1 < s THEN f + k - 1 ELSE f + k - 1 - s
  BY <1>2, SMT DEF Nth
<1>4. 1 \in 1..n /\ n \in 1..n
  BY <1>2
<1>5. Nth(f, 1, s) = f
  BY <1>3, <1>4, SMT
<1>6. Nth(f, n, s) = Back(t, s)
  BY <1>1, <1>2, <1>3, <1>4, SMT DEF Back
<1>7. ASSUME NEW k \in 1..n PROVE Nth(f, k, s) \in FromTo(f, t, s) /\ (k # 1 => Nth(f, k, s) # f)
  BY <1>1, <1>2, <1>3, SMT DEF FromTo
<1>8. ASSUME NEW k \in 1..(n - 1) PROVE Nth(f, k + 1, s) = Round(Nth(f, k, s), s)
  <2>1. k \in 1..n /\ k + 1 \in 1..n
    BY <1>2, SMT
  <2> QED
    BY <1>1, <1>2, <1>3, <2>1, SMT DEF Round
<1> QED
  BY <1>2, <1>5, <1>6, <1>7, <1>8 DEF InOrder

(* The elements of a block, from its first to its latest.                    *)
LEMMA Numbered ==
    ASSUME IInv, NEW b \in Blocks, ~Empty(b)
    PROVE  LET f == block[b].front
               s == block[b].size
               n == Cardinality(Occupied(b))
           IN  /\ n \in Nat \ {0}
               /\ First(b) \in Nat /\ Latest(b) = First(b) + n - 1
               /\ \A k \in 1..n : /\ Nth(f, k, s) \in 0..(s - 1) /\ (k # 1 => Nth(f, k, s) # f)
                                  /\ Val(b, Nth(f, k, s)) = First(b) + k - 1
               /\ Nth(f, 1, s) = f
<1> DEFINE f == block[b].front
<1> DEFINE t == block[b].tail
<1> DEFINE s == block[b].size
<1> DEFINE n == Cardinality(Occupied(b))
<1>1. BlocksTyped /\ Inside /\ elem \in Nat
  BY TypeFacts DEF IInv
<1>2. s \in Nat /\ s >= 2 /\ f \in 0..(s - 1) /\ t \in 0..(s - 1) /\ f # t
      /\ block[b].data \in [0..(s - 1) -> Nat]
  BY <1>1, BlockFacts DEF Empty
<1>3. Occupied(b) = FromTo(f, t, s) /\ LastSlot(b) = Back(t, s) /\ \A i : Advance(i, b) = Round(i, s)
  BY InTheseTerms
<1>4. \A i \in 0..(s - 1) : Val(b, i) \in Nat
  BY <1>1, <1>2 DEF Val
<1>5. First(b) = Val(b, f) /\ Latest(b) = Val(b, LastSlot(b))
  BY DEF First, Latest
<1>6. \A i, j \in Occupied(b) : j = Advance(i, b) => Val(b, j) = Val(b, i) + 1
  BY <1>1 DEF Inside
<1> HIDE DEF f, t, s
<1>7. n = Cardinality(FromTo(f, t, s))
  BY <1>3
<1> HIDE DEF n
<1>8. /\ n \in Nat \ {0} /\ Nth(f, 1, s) = f /\ Nth(f, n, s) = Back(t, s)
      /\ \A k \in 1..n : Nth(f, k, s) \in FromTo(f, t, s) /\ (k # 1 => Nth(f, k, s) # f)
      /\ \A k \in 1..(n - 1) : Nth(f, k + 1, s) = Round(Nth(f, k, s), s)
  <2>1. s \in Nat /\ s >= 2 /\ f \in 0..(s - 1) /\ t \in 0..(s - 1) /\ f # t
    BY <1>2
  <2>2. InOrder(f, t, s, n)
    BY <1>7, <2>1, SlotsInOrder
  <2> QED
    BY <2>2 DEF InOrder
<1>9. FromTo(f, t, s) \subseteq 0..(s - 1)
  BY DEF FromTo
<1>10. First(b) \in Nat
  BY <1>2, <1>4, <1>5
<1> DEFINE S == {k \in Nat : k < n => Val(b, Nth(f, k + 1, s)) = First(b) + k}
<1>11. 0 \in S
  <2>1. 0 + 1 = 1 /\ First(b) + 0 = First(b)
    BY <1>10, SMT
  <2> QED
    BY <1>5, <1>8, <2>1
<1>12. ASSUME NEW k \in Nat, k \in S PROVE k + 1 \in S
  <2> SUFFICES ASSUME k + 1 < n PROVE Val(b, Nth(f, (k + 1) + 1, s)) = First(b) + (k + 1)
    OBVIOUS
  <2>1. k < n /\ k + 1 \in 1..(n - 1) /\ k + 1 \in 1..n /\ (k + 1) + 1 \in 1..n
    BY <1>8, SMT
  <2>2. Val(b, Nth(f, k + 1, s)) = First(b) + k
    BY <1>12, <2>1
  <2>3. Nth(f, (k + 1) + 1, s) = Round(Nth(f, k + 1, s), s)
    BY <1>8, <2>1
  <2>4. Nth(f, k + 1, s) \in Occupied(b) /\ Nth(f, (k + 1) + 1, s) \in Occupied(b)
    BY <1>3, <1>8, <2>1
  <2>5. Nth(f, (k + 1) + 1, s) = Advance(Nth(f, k + 1, s), b)
    BY <1>3, <2>3
  <2>6. Val(b, Nth(f, (k + 1) + 1, s)) = Val(b, Nth(f, k + 1, s)) + 1
    BY <1>6, <2>4, <2>5, Zenon
  <2> QED
    BY <1>10, <2>2, <2>6, SMT
<1> HIDE DEF S
<1>13. Nat \subseteq S
  BY <1>11, <1>12, Induction
<1>14. ASSUME NEW k \in 1..n PROVE Val(b, Nth(f, k, s)) = First(b) + k - 1
  <2>1. k - 1 \in Nat /\ k - 1 < n /\ (k - 1) + 1 = k
    BY <1>8, SMT
  <2>2. k - 1 \in S
    BY <1>13, <2>1
  <2>3. Val(b, Nth(f, (k - 1) + 1, s)) = First(b) + (k - 1)
    BY <2>1, <2>2 DEF S
  <2> QED
    BY <1>10, <2>1, <2>3
<1>15. Latest(b) = First(b) + n - 1
  <2>1. n \in 1..n
    BY <1>8
  <2>2. Val(b, Nth(f, n, s)) = First(b) + n - 1
    BY <1>14, <2>1
  <2> QED
    BY <1>3, <1>5, <1>8, <2>2
<1>16. \A k \in 1..n : Nth(f, k, s) \in 0..(s - 1)
  BY <1>8, <1>9
<1> QED
  BY <1>8, <1>10, <1>14, <1>15, <1>16 DEF f, s, n

(* The number of the element up to which b and the blocks before it go.      *)
UpTo(b) == IF Empty(b) THEN taken ELSE Latest(b)

(* What the first slot of a block holds; it was just moved out of it if it   *)
(* is not the first element.                                                 *)
Seen(b) == block[b].data[block[b].front]

(* A block that holds elements is a run of numbers.                          *)
LEMMA Segments ==
    ASSUME IInv, NEW b \in Blocks
    PROVE  /\ Empty(b) => \A v, a : a \in Nat => Segment(b) = Run(v, a, a)
           /\ ~Empty(b) => /\ Segment(b) = Run(Seen(b), First(b) - 1, Latest(b))
                           /\ First(b) \in Nat /\ Latest(b) \in Nat /\ First(b) <= Latest(b)
           /\ Seen(b) \in Nat
           /\ b # frontBlock \/ ~At("consumer", "release") => Seen(b) = First(b)
<1> DEFINE f == block[b].front
<1> DEFINE s == block[b].size
<1> DEFINE n == Cardinality(Occupied(b))
<1> DEFINE d == block[b].data
<1>1. BlocksTyped
  BY TypeFacts DEF IInv
<1>2. s \in Nat /\ s >= 2 /\ f \in 0..(s - 1) /\ block[b].tail \in 0..(s - 1) /\ d \in [0..(s - 1) -> Nat]
  BY <1>1, BlockFacts
<1>3. Segment(b) = [k \in 1..n |-> d[Nth(f, k, s)]]
  BY DEF Segment, Nth
<1>4. ASSUME NEW i, <<b, i>> \notin Moved PROVE Val(b, i) = d[i]
  BY <1>4 DEF Val
<1>5. b # frontBlock \/ ~At("consumer", "release") => Seen(b) = First(b)
  <2> SUFFICES ASSUME b # frontBlock \/ ~At("consumer", "release") PROVE Seen(b) = First(b)
    OBVIOUS
  <2>1. <<b, f>> \notin Moved
    BY MovedIsFirst
  <2> QED
    BY <1>4, <2>1 DEF Seen, First
<1>6. Seen(b) \in Nat
  BY <1>2 DEF Seen
<1>7. ASSUME Empty(b), NEW v, NEW a \in Nat PROVE Segment(b) = Run(v, a, a)
  <2>1. Occupied(b) = {}
    <3>1. Occupied(b) = FromTo(f, block[b].tail, s) /\ f = block[b].tail
      BY <1>7, InTheseTerms DEF Empty
    <3>2. s \in Nat /\ s >= 2 /\ f \in 0..(s - 1)
      BY <1>2
    <3> HIDE DEF f, s
    <3>3. FromTo(f, f, s) = {}
      BY <3>2, Slots
    <3> QED
      BY <3>1, <3>3
  <2>2. n = 0
    BY <2>1, FS_EmptySet
  <2>3. a - a = 0 /\ 1..0 = {}
    BY SMT
  <2> HIDE DEF n
  <2>4. Segment(b) = [k \in {} |-> d[Nth(f, k, s)]]
    BY <1>3, <2>2, <2>3
  <2>5. Run(v, a, a) = [k \in {} |-> IF k = 1 THEN v ELSE a + k]
    BY <2>3 DEF Run
  <2> QED
    BY <2>4, <2>5
<1>8. ASSUME ~Empty(b)
      PROVE  /\ Segment(b) = Run(Seen(b), First(b) - 1, Latest(b))
             /\ First(b) \in Nat /\ Latest(b) \in Nat /\ First(b) <= Latest(b)
  <2>1. /\ n \in Nat \ {0} /\ First(b) \in Nat /\ Latest(b) = First(b) + n - 1
        /\ \A k \in 1..n : /\ Nth(f, k, s) \in 0..(s - 1) /\ (k # 1 => Nth(f, k, s) # f)
                           /\ Val(b, Nth(f, k, s)) = First(b) + k - 1
        /\ Nth(f, 1, s) = f
    BY <1>8, Numbered
  <2> HIDE DEF n, s
  <2>2. ASSUME NEW k \in 1..n PROVE d[Nth(f, k, s)] = IF k = 1 THEN Seen(b) ELSE (First(b) - 1) + k
    <3>1. CASE k = 1
      BY <2>1, <3>1 DEF Seen
    <3>2. CASE k # 1
      <4>1. Nth(f, k, s) # f
        BY <2>1, <3>2
      <4>2. <<b, Nth(f, k, s)>> \notin Moved
        BY <4>1, MovedIsFirst
      <4>3. d[Nth(f, k, s)] = First(b) + k - 1
        BY <1>4, <2>1, <4>2
      <4>4. First(b) + k - 1 = (First(b) - 1) + k
        BY <2>1, SMT
      <4> QED
        BY <3>2, <4>3, <4>4
    <3> QED
      BY <3>1, <3>2
  <2>3. Latest(b) - (First(b) - 1) = n /\ Latest(b) \in Nat /\ First(b) <= Latest(b)
    BY <2>1, SMT
  <2>4. Run(Seen(b), First(b) - 1, Latest(b)) = [k \in 1..n |-> IF k = 1 THEN Seen(b) ELSE (First(b) - 1) + k]
    BY <2>3 DEF Run
  <2> HIDE DEF d, f
  <2>5. Segment(b) = Run(Seen(b), First(b) - 1, Latest(b))
    BY <1>3, <2>2, <2>4
  <2> QED
    BY <2>1, <2>3, <2>5
<1> QED
  BY <1>5, <1>6, <1>7, <1>8

(* The hops on from the front block lead to the tail block, through the      *)
(* blocks in use.                                                            *)
LEMMA LastHop ==
    ASSUME IInv
    PROVE  LET last == CHOOSE k \in 0..Len(block) : Hop[k] = tailBlock /\ \A j \in 0..(k - 1) : Hop[j] # tailBlock
           IN  /\ last \in Nat /\ Hop[last] = tailBlock /\ Hop[0] = frontBlock
               /\ \A j \in 0..(last - 1) : Hop[j] # tailBlock /\ Hop[j + 1] = block[Hop[j]].next
<1>1. Ring /\ frontBlock \in Linked /\ tailBlock \in Linked /\ BlocksTyped /\ Linked \subseteq Blocks
  BY RingFacts DEF IInv
<1> DEFINE g == [b \in Linked |-> block[b].next]
<1>2. /\ g \in [Linked -> Linked] /\ \A b \in Linked : g[b] = block[b].next
      /\ \A x, z \in Linked : g[x] = g[z] => x = z
  BY <1>1 DEF Ring
<1>3. \A S \in SUBSET Linked : S # {} /\ (\A b \in S : g[b] \in S) => S = Linked
  <2> SUFFICES ASSUME NEW S \in SUBSET Linked, S # {}, \A b \in S : g[b] \in S PROVE S = Linked
    OBVIOUS
  <2>1. \A b \in S : block[b].next \in S
    BY <1>2
  <2> QED
    BY <1>1, <2>1 DEF Ring
<1> HIDE DEF g
<1>4. Iterates(Hop, Linked, frontBlock, g)
  BY <1>1, <1>2, HopIterates
<1> DEFINE n == Cardinality(Linked)
<1>5. n \in Nat /\ {Hop[k] : k \in 0..(n - 1)} = Linked
  <2>1. PICK L, f : L = Linked /\ f = frontBlock
    OBVIOUS
  <2>2. LET m == Cardinality(L) IN m \in Nat /\ {Hop[k] : k \in 0..(m - 1)} = L /\ Hop[m] = f
    BY <1>1, <1>2, <1>3, <1>4, <2>1, RoundTrip
  <2> QED
    BY <2>1, <2>2
<1>6. n <= Len(block) /\ Len(block) \in Nat
  <2>1. Len(block) \in Nat \ {0} /\ Blocks = 1..Len(block)
    BY <1>1, BlockFacts
  <2>2. IsFiniteSet(1..Len(block)) /\ Cardinality(1..Len(block)) = Len(block)
    <3>1. 1 \in Int /\ Len(block) \in Int /\ ~(1 > Len(block)) /\ Len(block) - 1 + 1 = Len(block)
      BY <2>1, SMT
    <3> QED
      BY <3>1, FS_Interval
  <2>3. Linked \in SUBSET (1..Len(block))
    BY <1>1, <2>1
  <2>4. n <= Cardinality(1..Len(block))
    BY <2>2, <2>3, FS_Subset
  <2> QED
    BY <2>1, <2>2, <2>4
<1> HIDE DEF n
<1> DEFINE R == {k \in 0..(n - 1) : Hop[k] = tailBlock}
<1>7. R # {} /\ R \subseteq Nat
  BY <1>1, <1>5
<1>8. PICK m \in R : \A k \in R : m <= k
  BY <1>7, LeastNumber
<1>9. m \in 0..Len(block) /\ m \in 0..(n - 1) /\ Hop[m] = tailBlock
  BY <1>5, <1>6, <1>8, SMT
<1>10. ASSUME NEW j \in 0..(m - 1) PROVE Hop[j] # tailBlock
  <2>1. j \in 0..(n - 1) /\ ~(m <= j)
    BY <1>5, <1>9, SMT
  <2> QED
    BY <1>8, <2>1
<1> HIDE DEF R
<1> DEFINE Ends(k) == Hop[k] = tailBlock /\ \A j \in 0..(k - 1) : Hop[j] # tailBlock
<1> DEFINE last == CHOOSE k \in 0..Len(block) : Ends(k)
<1>11. last \in 0..Len(block) /\ Ends(last)
  <2>1. Ends(m)
    BY <1>9, <1>10
  <2> HIDE DEF Ends
  <2> QED
    BY <1>9, <2>1
<1> HIDE DEF last
<1>12. Hop[0] = frontBlock /\ \A j \in Nat : Hop[j] \in Linked /\ Hop[j + 1] = g[Hop[j]]
  BY <1>4 DEF Iterates
<1>13. last \in Nat /\ \A j \in 0..(last - 1) : j \in Nat
  BY <1>6, <1>11, SMT
<1>14. \A j \in 0..(last - 1) : Hop[j] # tailBlock /\ Hop[j + 1] = block[Hop[j]].next
  BY <1>2, <1>11, <1>12, <1>13
<1> QED
  BY <1>11, <1>12, <1>13, <1>14 DEF last

(* The elements in the blocks from front to tail are those that were          *)
(* enqueued and not dequeued, in the order of their numbers.                 *)
LEMMA ElementsRun ==
    ASSUME IInv
    PROVE  /\ taken \in Nat /\ sent \in Nat /\ taken <= sent
           /\ At("consumer", "release") => taken < sent /\ elem = taken + 1
           /\ Elements = Run(IF At("consumer", "release") THEN Seen(frontBlock) ELSE taken + 1, taken, sent)
           /\ Seen(frontBlock) \in Nat
<1> DEFINE last == CHOOSE k \in 0..Len(block) : Hop[k] = tailBlock /\ \A j \in 0..(k - 1) : Hop[j] # tailBlock
<1> DEFINE v == IF At("consumer", "release") THEN Seen(frontBlock) ELSE taken + 1
<1> DEFINE e == [i \in 1..(last + 1) |-> Run(v, taken, UpTo(Hop[i - 1]))]
<1>1. /\ last \in Nat /\ Hop[last] = tailBlock /\ Hop[0] = frontBlock
      /\ \A j \in 0..(last - 1) : Hop[j] # tailBlock /\ Hop[j + 1] = block[Hop[j]].next
  BY LastHop
<1>2. Elements = FlattenSeq([k \in 1..(last + 1) |-> Segment(Hop[k - 1])])
  BY DEF Elements, FrontToTail
<1> HIDE DEF last
<1>3. /\ Ring /\ Chain /\ BlocksTyped /\ frontBlock \in InUse /\ tailBlock \in InUse /\ InUse \subseteq Blocks
      /\ \A b \in InUse \ {frontBlock} : ~Empty(b)
      /\ \A b \in InUse \ {tailBlock} : block[b].next \in InUse \ {frontBlock}
      /\ taken \in Nat /\ sent \in Nat
  BY RingFacts, TypeFacts DEF IInv
<1>4. v \in Nat /\ Seen(frontBlock) \in Nat
  <2>1. Seen(frontBlock) \in Nat
    BY <1>3, Segments
  <2> QED
    BY <1>3, <2>1
<1>5. At("consumer", "release") => ~Empty(frontBlock) /\ elem = taken + 1
  <2> SUFFICES ASSUME At("consumer", "release") PROVE ~Empty(frontBlock) /\ elem = taken + 1
    OBVIOUS
  <2>1. HasOne(frontBlock) /\ readBlock = frontBlock
    BY DEF IInv, ConsumerAt
  <2>2. ~Empty(frontBlock)
    BY <2>1, FrontIsTaken
  <2>3. First(frontBlock) = taken + 1
    BY <1>3, <2>2 DEF Chain
  <2>4. First(frontBlock) = elem
    BY MovedIsFirst DEF First, Val
  <2> QED
    BY <2>2, <2>3, <2>4
<1> HIDE DEF v
<1> DEFINE Good(b) == /\ b \in InUse /\ UpTo(b) \in Nat /\ taken <= UpTo(b)
                      /\ At("consumer", "release") => taken < UpTo(b)
<1>6. Good(frontBlock) /\ Segment(frontBlock) = Run(v, taken, UpTo(frontBlock))
  <2>1. CASE Empty(frontBlock)
    <3>1. ~At("consumer", "release") /\ UpTo(frontBlock) = taken
      BY <1>5, <2>1 DEF UpTo
    <3>2. Segment(frontBlock) = Run(v, taken, taken)
      BY <1>3, <2>1, Segments
    <3> QED
      BY <1>3, <3>1, <3>2
  <2>2. CASE ~Empty(frontBlock)
    <3>1. First(frontBlock) = taken + 1 /\ UpTo(frontBlock) = Latest(frontBlock)
      BY <1>3, <2>2 DEF Chain, UpTo
    <3>2. /\ Segment(frontBlock) = Run(Seen(frontBlock), First(frontBlock) - 1, Latest(frontBlock))
          /\ Latest(frontBlock) \in Nat /\ First(frontBlock) <= Latest(frontBlock)
          /\ ~At("consumer", "release") => Seen(frontBlock) = First(frontBlock)
      BY <1>3, <2>2, Segments
    <3>3. v = Seen(frontBlock)
      BY <3>1, <3>2 DEF v
    <3>4. First(frontBlock) - 1 = taken /\ taken < Latest(frontBlock)
      BY <1>3, <3>1, <3>2, SMT
    <3> QED
      BY <1>3, <3>1, <3>2, <3>3, <3>4
  <2> QED
    BY <2>1, <2>2
<1>7. ASSUME NEW b \in InUse \ {tailBlock}, NEW c, c = block[b].next, Good(b)
      PROVE  Good(c) /\ Segment(c) = Run(UpTo(b) + 1, UpTo(b), UpTo(c)) /\ UpTo(b) <= UpTo(c)
  <2>1. c \in InUse \ {frontBlock} /\ ~Empty(c) /\ c \in Blocks
    BY <1>3, <1>7
  <2>2. First(c) = UpTo(b) + 1
    BY <1>3, <1>7 DEF Chain, UpTo
  <2>3. /\ Segment(c) = Run(Seen(c), First(c) - 1, Latest(c)) /\ Latest(c) \in Nat /\ First(c) <= Latest(c)
        /\ Seen(c) = First(c)
    BY <2>1, Segments
  <2>4. UpTo(c) = Latest(c)
    BY <2>1 DEF UpTo
  <2>5. UpTo(b) \in Nat /\ taken <= UpTo(b)
    BY <1>7
  <2>6. First(c) - 1 = UpTo(b) /\ UpTo(b) < Latest(c) /\ taken < Latest(c)
    BY <1>3, <2>2, <2>3, <2>5, SMT
  <2>7. UpTo(b) <= Latest(c)
    BY <2>3, <2>5, <2>6, SMT
  <2>8. taken <= Latest(c)
    BY <1>3, <2>3, <2>6, SMT
  <2> QED
    BY <2>1, <2>2, <2>3, <2>4, <2>6, <2>7, <2>8
<1> HIDE DEF Good
<1> DEFINE S == {j \in Nat : j <= last => Good(Hop[j])}
<1>8. 0 \in S
  BY <1>1, <1>6
<1>9. ASSUME NEW j \in Nat, j \in S PROVE j + 1 \in S
  <2> SUFFICES ASSUME j + 1 <= last PROVE Good(Hop[j + 1])
    OBVIOUS
  <2>1. j \in 0..(last - 1) /\ j <= last
    BY <1>1, SMT
  <2>2. Good(Hop[j]) /\ Hop[j] # tailBlock /\ Hop[j + 1] = block[Hop[j]].next
    BY <1>1, <1>9, <2>1
  <2>3. Hop[j] \in InUse \ {tailBlock}
    BY <2>2 DEF Good
  <2> QED
    BY <1>7, <2>2, <2>3
<1> HIDE DEF S
<1>10. Nat \subseteq S
  BY <1>8, <1>9, Induction
<1>11. \A j \in 0..last : Good(Hop[j])
  <2>1. \A j \in 0..last : j \in Nat /\ j <= last
    BY <1>1, SMT
  <2> QED
    BY <1>10, <2>1 DEF S
<1> DEFINE s == [k \in 1..(last + 1) |-> Segment(Hop[k - 1])]
<1>12. last + 1 \in Nat \ {0} /\ Len(s) = last + 1
  <2>1. PICK m \in Nat : m = last + 1
    BY <1>1, SMT
  <2>2. Len([k \in 1..m |-> Segment(Hop[k - 1])]) = m
    OBVIOUS
  <2>3. m # 0
    BY <1>1, <2>1, SMT
  <2> QED
    BY <2>1, <2>2, <2>3
<1>13. e[1] = s[1]
  <2>1. 1 \in 1..(last + 1) /\ 1 - 1 = 0
    BY <1>1, SMT
  <2>2. e[1] = Run(v, taken, UpTo(frontBlock)) /\ s[1] = Segment(frontBlock)
    BY <1>1, <2>1
  <2> QED
    BY <1>6, <2>2
<1>14. ASSUME NEW i \in 1..((last + 1) - 1) PROVE e[i + 1] = e[i] \o s[i + 1]
  <2>1. /\ i \in 1..(last + 1) /\ i + 1 \in 1..(last + 1) /\ i - 1 \in 0..(last - 1) /\ i - 1 \in 0..last
        /\ (i - 1) + 1 = i /\ (i + 1) - 1 = i
    BY <1>1, SMT
  <2>2. PICK b, c : b = Hop[i - 1] /\ c = Hop[i]
    OBVIOUS
  <2>3. Good(b) /\ b # tailBlock /\ c = block[b].next
    BY <1>1, <1>11, <2>1, <2>2
  <2>4. b \in InUse \ {tailBlock}
    BY <2>3 DEF Good
  <2>5. Good(c) /\ Segment(c) = Run(UpTo(b) + 1, UpTo(b), UpTo(c)) /\ UpTo(b) <= UpTo(c)
    BY <1>7, <2>3, <2>4
  <2>6. e[i] = Run(v, taken, UpTo(b)) /\ e[i + 1] = Run(v, taken, UpTo(c)) /\ s[i + 1] = Segment(c)
    BY <2>1, <2>2
  <2>7. UpTo(b) \in Nat /\ UpTo(c) \in Nat /\ taken <= UpTo(b) /\ (taken = UpTo(b) => v = taken + 1)
    BY <1>3, <2>3, <2>5 DEF Good, v
  <2>8. Run(v, taken, UpTo(b)) \o Run(UpTo(b) + 1, UpTo(b), UpTo(c)) = Run(v, taken, UpTo(c))
    <3>1. PICK a \in Nat, x \in Nat, z \in Nat, w \in Nat :
             a = taken /\ x = UpTo(b) /\ z = UpTo(c) /\ w = v
      BY <1>3, <1>4, <2>7
    <3>2. a <= x /\ x <= z /\ (a = x => w = a + 1)
      BY <2>5, <2>7, <3>1
    <3>3. Run(w, a, x) \o Run(x + 1, x, z) = Run(w, a, z)
      BY <3>2, RunOn
    <3> QED
      BY <3>1, <3>3
  <2> QED
    BY <2>5, <2>6, <2>8
<1> HIDE DEF s, e
<1>15. FlattenSeq(s) = e[last + 1]
  BY <1>12, <1>13, <1>14, Flattened
<1>16. e[last + 1] = Run(v, taken, UpTo(tailBlock))
  <2>1. last + 1 \in 1..(last + 1) /\ (last + 1) - 1 = last
    BY <1>1, SMT
  <2> QED
    BY <1>1, <2>1 DEF e
<1>17. UpTo(tailBlock) = sent /\ Good(tailBlock)
  <2>1. last \in 0..last
    BY <1>1, SMT
  <2> QED
    BY <1>1, <1>3, <1>11, <2>1 DEF UpTo, Chain
<1>18. Elements = Run(v, taken, sent)
  BY <1>2, <1>15, <1>16, <1>17 DEF s
<1> QED
  BY <1>3, <1>4, <1>5, <1>17, <1>18 DEF Good, v

(* What the queue holds: the elements enqueued and not dequeued, in order.   *)
Unread(a, b) == [k \in 1..(b - a) |-> a + k]

(* ... with the element that is moved out put back, until it is released.    *)
LEMMA Numbers ==
    ASSUME IInv
    PROVE  Contents = Unread(taken, sent) /\ taken \in Nat /\ sent \in Nat /\ taken <= sent
<1> DEFINE v == IF At("consumer", "release") THEN Seen(frontBlock) ELSE taken + 1
<1>1. /\ taken \in Nat /\ sent \in Nat /\ taken <= sent /\ Seen(frontBlock) \in Nat
      /\ At("consumer", "release") => taken < sent /\ elem = taken + 1
      /\ Elements = Run(v, taken, sent)
  BY ElementsRun
<1>2. CASE ~At("consumer", "release")
  <2>1. Contents = Run(taken + 1, taken, sent)
    BY <1>1, <1>2 DEF Contents
  <2>2. \A k \in 1..(sent - taken) : (IF k = 1 THEN taken + 1 ELSE taken + k) = taken + k
    BY <1>1, SMT
  <2>3. Run(taken + 1, taken, sent) = Unread(taken, sent)
    BY <2>2 DEF Run, Unread
  <2> QED
    BY <1>1, <2>1, <2>3
<1>3. CASE At("consumer", "release")
  <2> HIDE DEF v
  <2>0. v \in Nat
    BY <1>1 DEF v
  <2>1. Contents = <<taken + 1>> \o Tail(Run(v, taken, sent))
    BY <1>1, <1>3 DEF Contents
  <2> DEFINE r == Run(v, taken, sent)
  <2> DEFINE t == Tail(r)
  <2> DEFINE u == Unread(taken, sent)
  <2>2. IsRun(r, v, taken, sent)
    BY <1>1, <2>0, RunIs
  <2> HIDE DEF r
  <2>3. /\ r \in Seq(Nat) /\ Len(r) = sent - taken /\ sent - taken \in Nat /\ Len(r) # 0
        /\ \A k \in 1..(sent - taken) : r[k] = IF k = 1 THEN v ELSE taken + k
    <3>1. taken < sent
      BY <1>1, <1>3
    <3>2. sent - taken # 0
      BY <1>1, <3>1, SMT
    <3> QED
      BY <2>2, <3>2 DEF IsRun
  <2>4. /\ t \in Seq(Nat) /\ Len(t) = sent - taken - 1
        /\ \A k \in 1..(sent - taken - 1) : t[k] = r[k + 1]
    <3>1. r # <<>>
      BY <2>3, EmptySeq
    <3>2. t \in Seq(Nat) /\ Len(t) = Len(r) - 1 /\ \A k \in 1..Len(t) : t[k] = r[k + 1]
      BY <2>3, <3>1, HeadTailProperties
    <3> QED
      BY <2>3, <3>2
  <2> HIDE DEF t
  <2>5. <<taken + 1>> \in Seq(Nat) /\ Len(<<taken + 1>>) = 1 /\ <<taken + 1>>[1] = taken + 1
    BY <1>1
  <2> DEFINE c == <<taken + 1>> \o t
  <2>6. /\ c \in Seq(Nat) /\ Len(c) = sent - taken
        /\ \A k \in 1..(sent - taken) : c[k] = IF k <= 1 THEN taken + 1 ELSE t[k - 1]
    <3>1. /\ c \in Seq(Nat) /\ Len(c) = 1 + Len(t)
          /\ \A k \in 1..(1 + Len(t)) : c[k] = IF k <= 1 THEN <<taken + 1>>[k] ELSE t[k - 1]
      BY <2>4, <2>5, ConcatProperties
    <3>2. 1 + Len(t) = sent - taken
      BY <2>3, <2>4, SMT
    <3> HIDE DEF c
    <3>3. ASSUME NEW k \in 1..(sent - taken) PROVE c[k] = IF k <= 1 THEN taken + 1 ELSE t[k - 1]
      <4>1. k <= 1 => k = 1
        BY SMT
      <4> QED
        BY <2>5, <3>1, <3>2, <4>1
    <3> QED
      BY <3>1, <3>2, <3>3
  <2> HIDE DEF c
  <2>7. ASSUME NEW k \in 1..(sent - taken) PROVE c[k] = taken + k
    <3>1. CASE k = 1
      BY <2>6, <3>1
    <3>2. CASE k # 1
      <4>1. k - 1 \in 1..(sent - taken - 1) /\ (k - 1) + 1 = k /\ ~(k <= 1)
        BY <2>3, <3>2, SMT
      <4>2. c[k] = t[k - 1]
        BY <2>6, <4>1
      <4>3. t[k - 1] = r[k]
        BY <2>4, <4>1
      <4> QED
        BY <2>3, <3>2, <4>2, <4>3
    <3> QED
      BY <3>1, <3>2
  <2>8. u \in Seq(Nat) /\ Len(u) = sent - taken /\ \A k \in 1..(sent - taken) : u[k] = taken + k
    <3>1. PICK n \in Nat : n = sent - taken
      BY <2>3
    <3>2. u = [k \in 1..n |-> taken + k] /\ \A k \in 1..n : taken + k \in Nat
      BY <1>1, <3>1 DEF Unread
    <3> QED
      BY <3>1, <3>2
  <2> HIDE DEF u
  <2>9. c = u
    <3>1. Len(c) = Len(u) /\ \A k \in 1..Len(c) : c[k] = u[k]
      BY <2>6, <2>7, <2>8
    <3> QED
      BY <2>6, <2>8, <3>1, SeqEqual
  <2> QED
    BY <1>1, <2>1, <2>9 DEF c, t, u, r
<1> QED
  BY <1>2, <1>3

-----------------------------------------------------------------------------
(* What is done to a queue of consecutive numbers *)

(* It is a sequence of numbers, of the length that is expected.              *)
LEMMA UnreadIs ==
    ASSUME NEW a \in Nat, NEW b \in Nat, a <= b
    PROVE  /\ Unread(a, b) \in Seq(Nat) /\ Len(Unread(a, b)) = b - a /\ b - a \in Nat
           /\ \A k \in 1..(b - a) : Unread(a, b)[k] = a + k
<1>1. PICK n \in Nat : n = b - a
  BY SMT
<1>2. Unread(a, b) = [k \in 1..n |-> a + k] /\ \A k \in 1..n : a + k \in Nat
  BY <1>1 DEF Unread
<1> QED
  BY <1>1, <1>2

(* It is empty when all that was sent was taken. *)
LEMMA UnreadEmpty == \A a \in Nat : Unread(a, a) = <<>>
<1> SUFFICES ASSUME NEW a \in Nat PROVE Unread(a, a) = <<>>
  OBVIOUS
<1>1. a - a = 0 /\ a <= a
  BY SMT
<1>2. Unread(a, a) \in Seq(Nat) /\ Len(Unread(a, a)) = 0
  BY <1>1, UnreadIs
<1> QED
  BY <1>2, EmptySeq

(* The next number is appended. *)
LEMMA UnreadAppend ==
    ASSUME NEW a \in Nat, NEW b \in Nat, a <= b
    PROVE  Append(Unread(a, b), b + 1) = Unread(a, b + 1)
<1> DEFINE s == Unread(a, b)
<1> DEFINE t == Append(s, b + 1)
<1> DEFINE u == Unread(a, b + 1)
<1>0. b + 1 \in Nat /\ a <= b + 1 /\ (b + 1) - a = (b - a) + 1
  BY SMT
<1>1. s \in Seq(Nat) /\ Len(s) = b - a /\ b - a \in Nat /\ \A k \in 1..(b - a) : s[k] = a + k
  BY UnreadIs
<1>2. u \in Seq(Nat) /\ Len(u) = (b + 1) - a /\ \A k \in 1..((b + 1) - a) : u[k] = a + k
  <2>1. PICK c \in Nat : c = b + 1
    BY <1>0
  <2>2. a <= c
    BY <1>0, <2>1
  <2>3. /\ Unread(a, c) \in Seq(Nat) /\ Len(Unread(a, c)) = c - a
        /\ \A k \in 1..(c - a) : Unread(a, c)[k] = a + k
    BY <2>2, UnreadIs
  <2> QED
    BY <2>1, <2>3
<1> HIDE DEF s, u
<1>3. /\ t \in Seq(Nat) /\ Len(t) = Len(s) + 1 /\ \A k \in 1..Len(s) : t[k] = s[k]
      /\ t[Len(s) + 1] = b + 1
  BY <1>0, <1>1, AppendProperties
<1> HIDE DEF t
<1>4. ASSUME NEW k \in 1..Len(t) PROVE t[k] = u[k]
  <2>1. k \in 1..((b - a) + 1) /\ u[k] = a + k
    BY <1>0, <1>1, <1>2, <1>3, <1>4
  <2>2. CASE k = (b - a) + 1
    <3>1. a + k = b + 1
      BY <2>2, SMT
    <3> QED
      BY <1>1, <1>3, <2>1, <2>2, <3>1
  <2>3. CASE k # (b - a) + 1
    <3>1. k \in 1..(b - a)
      BY <1>1, <2>1, <2>3, SMT
    <3> QED
      BY <1>1, <1>3, <2>1, <3>1
  <2> QED
    BY <2>2, <2>3
<1>5. Len(t) = Len(u)
  BY <1>0, <1>1, <1>2, <1>3
<1>6. t = u
  BY <1>2, <1>3, <1>4, <1>5, SeqEqual
<1> QED
  BY <1>6 DEF s, t, u

(* The first number leaves. *)
LEMMA UnreadTail ==
    ASSUME NEW a \in Nat, NEW b \in Nat, a < b
    PROVE  /\ Unread(a, b) # <<>> /\ Head(Unread(a, b)) = a + 1
           /\ Tail(Unread(a, b)) = Unread(a + 1, b)
<1> DEFINE s == Unread(a, b)
<1> DEFINE t == Tail(s)
<1> DEFINE u == Unread(a + 1, b)
<1>0. a + 1 \in Nat /\ a + 1 <= b /\ a <= b /\ b - (a + 1) = (b - a) - 1 /\ b - a # 0
  BY SMT
<1>1. s \in Seq(Nat) /\ Len(s) = b - a /\ b - a \in Nat /\ \A k \in 1..(b - a) : s[k] = a + k
  BY <1>0, UnreadIs
<1>2. u \in Seq(Nat) /\ Len(u) = b - (a + 1) /\ \A k \in 1..(b - (a + 1)) : u[k] = (a + 1) + k
  <2>1. PICK c \in Nat : c = a + 1
    BY <1>0
  <2>2. c <= b
    BY <1>0, <2>1
  <2>3. /\ Unread(c, b) \in Seq(Nat) /\ Len(Unread(c, b)) = b - c
        /\ \A k \in 1..(b - c) : Unread(c, b)[k] = c + k
    BY <2>2, UnreadIs
  <2> QED
    BY <2>1, <2>3
<1> HIDE DEF s, u
<1>3. s # <<>>
  BY <1>0, <1>1, EmptySeq
<1>4. t \in Seq(Nat) /\ Len(t) = Len(s) - 1 /\ \A k \in 1..Len(t) : t[k] = s[k + 1]
  BY <1>1, <1>3, HeadTailProperties
<1>5. Head(s) = a + 1
  <2>1. Head(s) = s[1]
    BY <1>1, <1>3
  <2>2. 1 \in 1..(b - a)
    BY <1>0, <1>1, SMT
  <2> QED
    BY <1>1, <2>1, <2>2
<1> HIDE DEF t
<1>6. ASSUME NEW k \in 1..Len(t) PROVE t[k] = u[k]
  <2>1. k \in 1..(b - (a + 1)) /\ k + 1 \in 1..(b - a) /\ a + (k + 1) = (a + 1) + k
    BY <1>0, <1>1, <1>4, <1>6, SMT
  <2>2. t[k] = s[k + 1] /\ s[k + 1] = a + (k + 1) /\ u[k] = (a + 1) + k
    BY <1>1, <1>2, <1>4, <1>6, <2>1
  <2> QED
    BY <2>1, <2>2
<1>7. Len(t) = Len(u)
  BY <1>0, <1>1, <1>2, <1>4
<1>8. t = u
  BY <1>2, <1>4, <1>6, <1>7, SeqEqual
<1> QED
  BY <1>3, <1>5, <1>8 DEF s, t, u

(* The elements of the queue are those that are numbered taken + 1 to sent.   *)
InStep == Contents = Unread(taken, sent) /\ taken \in Nat /\ sent \in Nat /\ taken <= sent

(* It is so in every state of the invariant ... *)
LEMMA NumbersNow == IInv => InStep
BY Numbers DEF InStep

(* ... and in the next one.                                                   *)
LEMMA NumbersNext ==
    ASSUME IInv'
    PROVE  Contents' = Unread(taken', sent') /\ taken' \in Nat /\ sent' \in Nat /\ taken' <= sent'
<1>1. (IInv => InStep)'
  BY NumbersNow, PTL
<1>2. InStep'
  BY <1>1
<1> QED
  BY <1>2 DEF InStep, Unread

-----------------------------------------------------------------------------
(* What the refusals and the counts rest on *)

(* How many elements the blocks of W hold. *)
Live(W) == Amount(block, W)

(* The blocks of the ring hold the elements that were enqueued and not taken, *)
(* and the one in the block that is about to become the tail block.           *)
Total == Live(Linked) = sent - taken + IF At("producer", "advanceBlock") THEN 1 ELSE 0

(* While a thread is in a call only the other one changes the length.         *)
LengthAtCall ==
    /\ lenAtCall \in [Thread -> Nat]
    /\ ~At("producer", "idle") => sent - taken <= lenAtCall["producer"]
    /\ ~At("consumer", "idle") => lenAtCall["consumer"] <= sent - taken

FullBlock(b) == Advance(block[b].tail, b) = block[b].front

(* The producer has found the tail block full.                                *)
Overflows == pc["producer"] \in {"checkNext", "useNext", "constructNext", "advanceTail", "advanceBlock",
                                 "makeBlock", "link"}

(* The producer leaves a block when it is full, and it is filled no more:     *)
(* of the blocks in use only the first and the last have slots to spare.      *)
Full ==
    /\ \A b \in InUse \ {frontBlock, tailBlock} : FullBlock(b)
    /\ Overflows /\ tailBlock # frontBlock => FullBlock(tailBlock)

(* The blocks that were reserved are still there, and none is smaller.        *)
Reserved ==
    /\ largestBlockSize >= InitialBlockSize
    /\ \A b \in Blocks : block[b].size >= InitialBlockSize
    /\ 1..InitialBlockCount \subseteq Linked

(* What justifies a refusal, seen before the call returns.                    *)
Refusals ==
    /\ At("producer", "checkNext") => block[tailBlock].size - 1 <= lenAtCall["producer"]
    /\ At("producer", "makeBlock") => Size <= lenAtCall["producer"]
    /\ At("consumer", "loadTailBlock") => frontBlock # tailBlock \/ lenAtCall["consumer"] = 0

Counting(t) == pc[t] \in {"sizeFront", "sizeTail", "sizeNext"}

(* V is the blocks that t has counted: a stretch of the ring.                 *)
Stretch(t, V) ==
    LET a == walk[t].at
        s == walk[t].start
        D == V \cup {a}
    IN  /\ V \subseteq Linked /\ a \in Linked /\ s \in D
        /\ At(t, "sizeNext") <=> a \in V
        /\ \A b \in D \ {a} : block[b].next \in D \ {s}
        /\ \A b \in D \ {s} : \E c \in D \ {a} : block[c].next = b

(* What t is about to add to its sum. *)
Reading(t) == LET r == block[walk[t].at]
              IN  (r.tail - walk[t].front) % r.size

(* The producer's sum is not less than what those blocks hold, and what the   *)
(* others hold is still covered by the length when the call began.            *)
SumOfProducer(V) ==
    LET w == walk["producer"]
    IN  /\ Live(V) <= w.sum
        /\ ~At("producer", "sizeTail") => w.sum + Live(Linked \ V) <= lenAtCall["producer"]
        /\ At("producer", "sizeTail") =>
              /\ w.front \in 0..(block[w.at].size - 1)
              /\ Live({w.at}) <= Reading("producer")
              /\ w.sum + Reading("producer") + Live(Linked \ (V \cup {w.at})) <= lenAtCall["producer"]

(* The consumer's is not more, and the others hold what is missing.           *)
SumOfConsumer(V) ==
    LET w == walk["consumer"]
    IN  /\ w.sum <= Live(V)
        /\ lenAtCall["consumer"] <= w.sum + Live(Linked \ V)
        /\ At("consumer", "sizeTail") => w.front = block[w.at].front

ProducerTally == Counting("producer") => \E V \in SUBSET Linked : Stretch("producer", V) /\ SumOfProducer(V)
ConsumerTally == Counting("consumer") => \E V \in SUBSET Linked : Stretch("consumer", V) /\ SumOfConsumer(V)

RInv == /\ Total /\ LengthAtCall /\ Full /\ Reserved /\ Refusals
        /\ ProducerTally /\ ConsumerTally

-----------------------------------------------------------------------------
(* What a step does to the number of elements *)

(* The blocks there are can be counted. *)
AllSound == \A W \in SUBSET Blocks : Sound(block, W)

(* They are finitely many, each with its indices inside.                     *)
LEMMA SoundBlocks ==
    ASSUME BlocksTyped
    PROVE  AllSound
<1>1. IsFiniteSet(Blocks)
  <2>1. block \in Seq(BlockRec)
    BY DEF BlocksTyped
  <2>2. Len(block) \in Int /\ 1 \in Int
    BY <2>1, LenProperties, SMT
  <2> QED
    BY <2>2, FS_Interval DEF Blocks
<1>2. ASSUME NEW W \in SUBSET Blocks PROVE Sound(block, W)
  <2>1. IsFiniteSet(W)
    BY <1>1, FS_Subset
  <2> QED
    BY <2>1, BlockFacts DEF Sound
<1> QED
  BY <1>2 DEF AllSound

(* Before and after. *)
LEMMA SoundBefore ==
    ASSUME BlocksTyped, BlocksTyped', Blocks' = Blocks, NEW W \in SUBSET Blocks
    PROVE  Sound(block, W) /\ Sound(block', W)
<1>1. Sound(block, W)
  BY SoundBlocks DEF AllSound
<1>2. (BlocksTyped => AllSound)'
  BY SoundBlocks, PTL
<1>3. \A V \in SUBSET Blocks' : Sound(block', V)
  BY <1>2 DEF AllSound
<1> QED
  BY <1>1, <1>3

(* A step that stores neither a front nor a tail.                           *)
LEMMA SameAmounts ==
    ASSUME SameFront, SameTail, SameSize, NEW W \in SUBSET Blocks
    PROVE  Amount(block', W) = Amount(block, W)
<1>1. \A b \in W : block'[b].front = block[b].front /\ block'[b].tail = block[b].tail
                   /\ block'[b].size = block[b].size
  BY DEF SameFront, SameTail, SameSize
<1> QED
  BY <1>1, SameCells

(* The tail of x goes past an element. *)
Fills(x) ==
    /\ SameFront /\ SameSize /\ Advance(block[x].tail, x) # block[x].front
    /\ \A b \in Blocks : block'[b].tail = IF b = x THEN Advance(block[x].tail, x) ELSE block[b].tail

(* The front of x goes past an element. *)
Drains(x) ==
    /\ SameTail /\ SameSize /\ ~Empty(x)
    /\ \A b \in Blocks : block'[b].front = IF b = x THEN Advance(block[x].front, x) ELSE block[b].front

(* There is one more in x. *)
LEMMA OneMore ==
    ASSUME BlocksTyped, BlocksTyped', Blocks' = Blocks, NEW x \in Blocks, Fills(x), NEW W \in SUBSET Blocks
    PROVE  /\ Amount(block, W) \in Nat /\ Amount(block', W) \in Nat
           /\ Amount(block', W) = IF x \in W THEN Amount(block, W) + 1 ELSE Amount(block, W)
<1>1. Sound(block, W) /\ Sound(block', W) /\ Sound(block, {x}) /\ Sound(block', {x})
  BY SoundBefore
<1>2. /\ block'[x].front = block[x].front /\ block'[x].size = block[x].size
      /\ block'[x].tail = Round(block[x].tail, block[x].size) /\ block'[x].tail # block[x].front
  BY InTheseTerms DEF Fills, SameFront, SameSize
<1>3. Amount(block', {x}) = Amount(block, {x}) + 1
  BY <1>1, <1>2, OneMoreOrLess
<1>4. OnlyAt(block, block', W, x)
  BY DEF Fills, SameFront, SameSize, OnlyAt
<1>5. /\ x \notin W => Amount(block', W) = Amount(block, W)
      /\ x \in W => Amount(block', W) = Amount(block, W) + (Amount(block', {x}) - Amount(block, {x}))
  BY <1>1, <1>4, OneChanges
<1>6. Amount(block, W) \in Nat /\ Amount(block', W) \in Nat /\ Amount(block, {x}) \in Nat
  BY <1>1, SomeBlocks
<1> QED
  BY <1>3, <1>5, <1>6, SMT

(* There is one less in x. *)
LEMMA OneLess ==
    ASSUME BlocksTyped, BlocksTyped', Blocks' = Blocks, NEW x \in Blocks, Drains(x), NEW W \in SUBSET Blocks
    PROVE  /\ Amount(block, W) \in Nat /\ Amount(block', W) \in Nat
           /\ Amount(block', W) = IF x \in W THEN Amount(block, W) - 1 ELSE Amount(block, W)
<1>1. Sound(block, W) /\ Sound(block', W) /\ Sound(block, {x}) /\ Sound(block', {x})
  BY SoundBefore
<1>2. /\ block'[x].tail = block[x].tail /\ block'[x].size = block[x].size
      /\ block'[x].front = Round(block[x].front, block[x].size) /\ block[x].front # block[x].tail
  BY InTheseTerms DEF Drains, SameTail, SameSize, Empty
<1>3. Amount(block', {x}) = Amount(block, {x}) - 1
  BY <1>1, <1>2, OneMoreOrLess
<1>4. OnlyAt(block, block', W, x)
  BY DEF Drains, SameTail, SameSize, OnlyAt
<1>5. /\ x \notin W => Amount(block', W) = Amount(block, W)
      /\ x \in W => Amount(block', W) = Amount(block, W) + (Amount(block', {x}) - Amount(block, {x}))
  BY <1>1, <1>4, OneChanges
<1>6. Amount(block, W) \in Nat /\ Amount(block', W) \in Nat /\ Amount(block, {x}) \in Nat
  BY <1>1, SomeBlocks
<1> QED
  BY <1>3, <1>5, <1>6, SMT

(* A full block holds one less than its size.                               *)
LEMMA FullAmount ==
    ASSUME BlocksTyped, NEW b \in Blocks, FullBlock(b)
    PROVE  Live({b}) = block[b].size - 1 /\ block[b].size \in Nat /\ block[b].size >= 2
<1>1. Sound(block, {b})
  BY SoundBlocks DEF AllSound
<1>2. Round(block[b].tail, block[b].size) = block[b].front
  BY InTheseTerms DEF FullBlock
<1>3. block[b].size = block[b].size
  OBVIOUS
<1>4. Amount(block, {b}) = block[b].size - 1
  BY <1>1, <1>2, <1>3, OneMoreOrLess
<1> QED
  BY <1>4, BlockFacts DEF Live

(* The parameters of the queue stay. *)
LEMMA ConfKept ==
    ASSUME conf' = conf
    PROVE  /\ Size' = Size /\ MaxBlockSize' = MaxBlockSize /\ InitialBlockSize' = InitialBlockSize
           /\ InitialBlockCount' = InitialBlockCount
<1>1. Size' = Size /\ MaxBlockSize' = MaxBlockSize
  BY DEF Size, MaxBlockSize
<1>2. SeveralBlocks' <=> SeveralBlocks
  BY <1>1 DEF SeveralBlocks, CeilToPow2
<1>3. CeilToPow2(Size + 1)' = CeilToPow2(Size + 1)
  BY <1>1 DEF CeilToPow2
<1> QED
  BY <1>1, <1>2, <1>3 DEF InitialBlockSize, InitialBlockCount

(* A thread begins a call, goes on with it or ends it.                      *)
Moves(t, l) ==
    /\ pc' = [pc EXCEPT ![t] = l]
    /\ \/ /\ pc[t] = "idle" /\ l # "idle" /\ sent' = sent /\ taken' = taken
          /\ lenAtCall' = [lenAtCall EXCEPT ![t] = sent - taken]
       \/ /\ pc[t] # "idle" /\ l # "idle" /\ lenAtCall' = lenAtCall /\ sent' = sent /\ taken' = taken
       \/ /\ pc[t] # "idle" /\ l = "idle" /\ lenAtCall' = [lenAtCall EXCEPT ![t] = 0]
          /\ IF t = "producer" THEN sent' \in {sent, sent + 1} /\ taken' = taken
                               ELSE sent' = sent /\ taken' \in {taken, taken + 1}

(* ... and the lengths are those of the calls the threads are in.           *)
LEMMA LengthKept ==
    ASSUME IInv, IInv', LengthAtCall, NEW t \in Thread, NEW l, Moves(t, l)
    PROVE  LengthAtCall'
<1>1. sent \in Nat /\ taken \in Nat /\ taken <= sent
  BY Numbers
<1>2. sent' \in Nat /\ taken' \in Nat /\ taken' <= sent'
  BY NumbersNext
<1>3. sent - taken \in Nat /\ 0 \in Nat
  BY <1>1, SMT
<1>4. pc \in [Thread -> Label]
  BY TypeFacts DEF IInv
<1>5. lenAtCall \in [Thread -> Nat]
  BY DEF LengthAtCall
<1>6. lenAtCall' \in [Thread -> Nat]
  BY <1>3, <1>5 DEF Moves
<1>7. \A u \in Thread \ {t} : pc'[u] = pc[u] /\ lenAtCall'[u] = lenAtCall[u]
  BY <1>4, <1>5 DEF Moves
<1>8. /\ pc'[t] = l
      /\ l # "idle" => IF pc[t] = "idle" THEN lenAtCall'[t] = sent - taken ELSE lenAtCall'[t] = lenAtCall[t]
  BY <1>4, <1>5 DEF Moves
<1>9. l # "idle" => sent' = sent /\ taken' = taken
  BY DEF Moves
<1>10. CASE t = "producer"
  <2>1. taken' = taken /\ (sent' = sent \/ sent' = sent + 1)
    BY <1>10 DEF Moves
  <2>2. pc'["producer"] # "idle" => sent' - taken' <= lenAtCall'["producer"]
    <3>1. pc["producer"] # "idle" => sent - taken <= lenAtCall["producer"]
      BY DEF LengthAtCall, At
    <3> QED
      BY <1>3, <1>8, <1>9, <1>10, <3>1, SMT
  <2>3. pc'["consumer"] # "idle" => lenAtCall'["consumer"] <= sent' - taken'
    <3>1. pc["consumer"] # "idle" => lenAtCall["consumer"] <= sent - taken
      BY DEF LengthAtCall, At
    <3>2. pc'["consumer"] = pc["consumer"] /\ lenAtCall'["consumer"] = lenAtCall["consumer"]
      BY <1>7, <1>10 DEF Thread
    <3>3. lenAtCall["consumer"] \in Nat
      BY <1>5 DEF Thread
    <3> QED
      BY <1>1, <2>1, <3>1, <3>2, <3>3, SMT
  <2> QED
    BY <1>6, <2>2, <2>3, Zenon DEF LengthAtCall, At
<1>11. CASE t = "consumer"
  <2>1. sent' = sent /\ (taken' = taken \/ taken' = taken + 1)
    BY <1>11 DEF Moves
  <2>2. pc'["consumer"] # "idle" => lenAtCall'["consumer"] <= sent' - taken'
    <3>1. pc["consumer"] # "idle" => lenAtCall["consumer"] <= sent - taken
      BY DEF LengthAtCall, At
    <3> QED
      BY <1>3, <1>8, <1>9, <1>11, <3>1, SMT
  <2>3. pc'["producer"] # "idle" => sent' - taken' <= lenAtCall'["producer"]
    <3>1. pc["producer"] # "idle" => sent - taken <= lenAtCall["producer"]
      BY DEF LengthAtCall, At
    <3>2. pc'["producer"] = pc["producer"] /\ lenAtCall'["producer"] = lenAtCall["producer"]
      BY <1>7, <1>11 DEF Thread
    <3>3. lenAtCall["producer"] \in Nat
      BY <1>5 DEF Thread
    <3> QED
      BY <1>1, <2>1, <3>1, <3>2, <3>3, SMT
  <2> QED
    BY <1>6, <2>2, <2>3, Zenon DEF LengthAtCall, At
<1> QED
  BY <1>10, <1>11 DEF Thread

-----------------------------------------------------------------------------
(* What a step leaves of the invariant of the counts *)

(* The stretch a thread has counted depends on its registers and on the ring. *)
LEMMA StretchKept ==
    ASSUME NEW t \in Thread, NEW V, Stretch(t, V), Linked' = Linked, Linked \subseteq Blocks, SameNext,
           pc'[t] = pc[t], walk'[t] = walk[t]
    PROVE  Stretch(t, V)'
<1> DEFINE D == V \cup {walk[t].at}
<1>1. /\ V \subseteq Linked /\ walk[t].at \in Linked /\ walk[t].start \in D
      /\ (pc[t] = "sizeNext" <=> walk[t].at \in V)
      /\ \A b \in D \ {walk[t].at} : block[b].next \in D \ {walk[t].start}
      /\ \A b \in D \ {walk[t].start} : \E c \in D \ {walk[t].at} : block[c].next = b
  BY DEF Stretch, At
<1>2. \A b \in D : block'[b].next = block[b].next
  BY <1>1 DEF SameNext
<1> HIDE DEF D
<1>3. /\ \A b \in D \ {walk[t].at} : block'[b].next \in D \ {walk[t].start}
      /\ \A b \in D \ {walk[t].start} : \E c \in D \ {walk[t].at} : block'[c].next = b
  BY <1>1, <1>2
<1>4. D = V \cup {walk'[t].at}
  BY DEF D
<1>5. /\ V \subseteq Linked' /\ walk'[t].at \in Linked' /\ walk'[t].start \in V \cup {walk'[t].at}
      /\ (pc'[t] = "sizeNext" <=> walk'[t].at \in V)
      /\ \A b \in (V \cup {walk'[t].at}) \ {walk'[t].at} :
            block'[b].next \in (V \cup {walk'[t].at}) \ {walk'[t].start}
      /\ \A b \in (V \cup {walk'[t].at}) \ {walk'[t].start} :
            \E c \in (V \cup {walk'[t].at}) \ {walk'[t].at} : block'[c].next = b
  BY <1>1, <1>3, <1>4
<1> QED
  BY <1>5, Zenon DEF Stretch, At

(* The producer's count stands while the consumer only takes elements away.  *)
LEMMA ProducerTallyKept ==
    ASSUME IInv, ProducerTally, Linked' = Linked, SameNext, SameTail, SameSize,
           pc'["producer"] = pc["producer"], walk'["producer"] = walk["producer"],
           lenAtCall \in [Thread -> Nat], lenAtCall'["producer"] = lenAtCall["producer"],
           \A W \in SUBSET Blocks : /\ Amount(block, W) \in Nat /\ Amount(block', W) \in Nat
                                    /\ Amount(block', W) <= Amount(block, W)
    PROVE  ProducerTally'
<1> SUFFICES ASSUME Counting("producer")'
             PROVE  \E V \in SUBSET Linked' : Stretch("producer", V)' /\ SumOfProducer(V)'
  BY Zenon DEF ProducerTally, Stretch, SumOfProducer, Live, Reading, At
<1>1. Linked \subseteq Blocks /\ "producer" \in Thread /\ walk \in [Thread -> WalkRec]
  BY RingFacts, TypeFacts DEF IInv, Thread
<1>2. Counting("producer")
  BY DEF Counting
<1>3. PICK V \in SUBSET Linked : Stretch("producer", V) /\ SumOfProducer(V)
  BY <1>2 DEF ProducerTally
<1>4. Stretch("producer", V)'
  BY <1>1, <1>3, StretchKept
<1>5. PICK w \in WalkRec, L \in Nat : w = walk["producer"] /\ L = lenAtCall["producer"]
  BY <1>1
<1>6. w.at \in Linked /\ w.sum \in Int /\ w.front \in Int
  BY <1>1, <1>3, <1>5 DEF Stretch, WalkRec
<1>7. block'[w.at].tail = block[w.at].tail /\ block'[w.at].size = block[w.at].size
  BY <1>1, <1>6 DEF SameTail, SameSize
<1>8. PICK R \in Int : R = (block[w.at].tail - w.front) % block[w.at].size
  <2>1. block[w.at].tail \in Int /\ block[w.at].size \in Nat \ {0}
    BY <1>1, <1>6, RingFacts, BlockFacts
  <2> QED
    BY <1>6, <2>1, SMT
<1>9. /\ Amount(block, V) <= w.sum
      /\ pc["producer"] # "sizeTail" => w.sum + Amount(block, Linked \ V) <= L
      /\ pc["producer"] = "sizeTail" =>
            /\ w.front \in 0..(block[w.at].size - 1) /\ Amount(block, {w.at}) <= R
            /\ w.sum + R + Amount(block, Linked \ (V \cup {w.at})) <= L
  BY <1>3, <1>5, <1>8 DEF SumOfProducer, Live, Reading, At
<1>10. /\ V \in SUBSET Blocks /\ Linked \ V \in SUBSET Blocks /\ {w.at} \in SUBSET Blocks
       /\ Linked \ (V \cup {w.at}) \in SUBSET Blocks
  BY <1>1, <1>6
<1>11. /\ Amount(block', V) <= w.sum
       /\ pc["producer"] # "sizeTail" => w.sum + Amount(block', Linked \ V) <= L
       /\ pc["producer"] = "sizeTail" =>
            /\ Amount(block', {w.at}) <= R
            /\ w.sum + R + Amount(block', Linked \ (V \cup {w.at})) <= L
  <2>1. \A p, q \in Nat : \A z, y \in Int : /\ p <= q /\ q <= z => p <= z
                                            /\ p <= q /\ z + q <= y => z + p <= y
    BY SMT
  <2>2. w.sum + R \in Int /\ L \in Int /\ R \in Int /\ w.sum \in Int
    BY <1>6
  <2>3. \A W \in SUBSET Blocks : /\ Amount(block, W) \in Nat /\ Amount(block', W) \in Nat
                                 /\ Amount(block', W) <= Amount(block, W)
    OBVIOUS
  <2> QED
    BY <1>9, <1>10, <2>1, <2>2, <2>3
<1>12. SumOfProducer(V)'
  <2>1. R = (block'[w.at].tail - w.front) % block'[w.at].size
    BY <1>7, <1>8
  <2>2. w = walk'["producer"] /\ L = lenAtCall'["producer"]
    BY <1>5
  <2> QED
    BY <1>7, <1>9, <1>11, <2>1, <2>2 DEF SumOfProducer, Live, Reading, At
<1> QED
  BY <1>3, <1>4, <1>12

(* The consumer's count stands while the producer only adds elements.        *)
LEMMA ConsumerTallyKept ==
    ASSUME IInv, ConsumerTally, Linked' = Linked, SameNext, SameFront, SameSize,
           pc'["consumer"] = pc["consumer"], walk'["consumer"] = walk["consumer"],
           lenAtCall \in [Thread -> Nat], lenAtCall'["consumer"] = lenAtCall["consumer"],
           \A W \in SUBSET Blocks : /\ Amount(block, W) \in Nat /\ Amount(block', W) \in Nat
                                    /\ Amount(block, W) <= Amount(block', W)
    PROVE  ConsumerTally'
<1> SUFFICES ASSUME Counting("consumer")'
             PROVE  \E V \in SUBSET Linked' : Stretch("consumer", V)' /\ SumOfConsumer(V)'
  BY Zenon DEF ConsumerTally, Stretch, SumOfConsumer, Live, At
<1>1. Linked \subseteq Blocks /\ "consumer" \in Thread /\ walk \in [Thread -> WalkRec]
  BY RingFacts, TypeFacts DEF IInv, Thread
<1>2. Counting("consumer")
  BY DEF Counting
<1>3. PICK V \in SUBSET Linked : Stretch("consumer", V) /\ SumOfConsumer(V)
  BY <1>2 DEF ConsumerTally
<1>4. Stretch("consumer", V)'
  BY <1>1, <1>3, StretchKept
<1>5. PICK w \in WalkRec, L \in Nat : w = walk["consumer"] /\ L = lenAtCall["consumer"]
  BY <1>1
<1>6. w.at \in Linked /\ w.sum \in Int
  BY <1>1, <1>3, <1>5 DEF Stretch, WalkRec
<1>7. block'[w.at].front = block[w.at].front
  BY <1>1, <1>6 DEF SameFront
<1>9. /\ w.sum <= Amount(block, V) /\ L <= w.sum + Amount(block, Linked \ V)
      /\ pc["consumer"] = "sizeTail" => w.front = block[w.at].front
  BY <1>3, <1>5 DEF SumOfConsumer, Live, At
<1>10. V \in SUBSET Blocks /\ Linked \ V \in SUBSET Blocks
  BY <1>1
<1>11. w.sum <= Amount(block', V) /\ L <= w.sum + Amount(block', Linked \ V)
  <2>1. \A p, q \in Nat : \A z, y \in Int : /\ p <= q /\ z <= p => z <= q
                                            /\ p <= q /\ y <= z + p => y <= z + q
    BY SMT
  <2>2. L \in Int
    OBVIOUS
  <2>3. \A W \in SUBSET Blocks : /\ Amount(block, W) \in Nat /\ Amount(block', W) \in Nat
                                 /\ Amount(block, W) <= Amount(block', W)
    OBVIOUS
  <2> QED
    BY <1>6, <1>9, <1>10, <2>1, <2>2, <2>3
<1>12. SumOfConsumer(V)'
  <2>1. w = walk'["consumer"] /\ L = lenAtCall'["consumer"]
    BY <1>5
  <2> QED
    BY <1>7, <1>9, <1>11, <2>1 DEF SumOfConsumer, Live, At
<1> QED
  BY <1>3, <1>4, <1>12

(* The blocks in use stay when no index, next pointer or end of them changes. *)
LEMMA StaysInPlace ==
    ASSUME BlocksTyped, tailBlock \in Blocks, Len(block') = Len(block), Blocks' = Blocks,
           SameFront, SameTail, SameNext, frontBlock' = frontBlock, tailBlock' = tailBlock,
           pc'["producer"] = "link" <=> pc["producer"] = "link",
           pc'["producer"] = "advanceBlock" <=> pc["producer"] = "advanceBlock"
    PROVE  Linked' = Linked /\ Pending' = Pending /\ InUse' = InUse
<1>1. Linked' = Linked
  BY DEF Linked, At
<1>2. Pending' = Pending
  BY DEF Pending, At, SameNext
<1> QED
  BY <1>1, <1>2, EmptyKept, InUseKept

(* A block is full, and stays so, by its indices.                            *)
LEMMA FullBlockKept ==
    ASSUME NEW b, block'[b].front = block[b].front, block'[b].tail = block[b].tail,
           block'[b].size = block[b].size
    PROVE  FullBlock(b)' <=> FullBlock(b)
BY DEF FullBlock, Advance

(* Which blocks are full matters in the blocks in use, but for the front one. *)
LEMMA FullKept ==
    ASSUME Full, InUse' = InUse, frontBlock' = frontBlock, tailBlock' = tailBlock,
           \A b \in InUse \ {frontBlock, tailBlock} : FullBlock(b) => FullBlock(b)',
           Overflows' /\ tailBlock # frontBlock => FullBlock(tailBlock)'
    PROVE  Full'
<1>1. \A b \in InUse' \ {frontBlock', tailBlock'} : FullBlock(b)'
  BY DEF Full
<1>2. Overflows' /\ tailBlock' # frontBlock' => FullBlock(tailBlock)'
  OBVIOUS
<1> QED
  BY <1>1, <1>2 DEF Full

(* No block of the ring goes, and none changes its size.                     *)
LEMMA ReservedKept ==
    ASSUME Reserved, conf' = conf, Blocks' = Blocks, SameSize, largestBlockSize' = largestBlockSize,
           Linked \subseteq Linked'
    PROVE  Reserved'
<1>1. InitialBlockSize' = InitialBlockSize /\ InitialBlockCount' = InitialBlockCount
  BY ConfKept
<1>2. largestBlockSize' >= InitialBlockSize'
  BY <1>1 DEF Reserved
<1>3. \A b \in Blocks' : block'[b].size >= InitialBlockSize'
  BY <1>1 DEF Reserved, SameSize
<1>4. 1..InitialBlockCount' \subseteq Linked'
  BY <1>1 DEF Reserved
<1> QED
  BY <1>2, <1>3, <1>4, Zenon DEF Reserved

(* A thread that comes where a refusal is justified has seen what justifies it, *)
(* and the other has its reasons still.                                      *)
LEMMA RefusalsKept ==
    ASSUME IInv, Refusals, LengthAtCall, NEW t \in Thread, NEW l, Moves(t, l), conf' = conf,
           block'[tailBlock].size = block[tailBlock].size,
           l = "checkNext" => pc[t] # "idle" /\ block[tailBlock].size - 1 <= lenAtCall["producer"],
           l = "makeBlock" => pc[t] # "idle" /\ Size <= lenAtCall["producer"],
           l = "loadTailBlock" => pc[t] # "idle" /\ (frontBlock # tailBlock \/ lenAtCall["consumer"] = 0),
           pc'["producer"] = "checkNext" => tailBlock' = tailBlock,
           pc'["consumer"] = "loadTailBlock" =>
              frontBlock' # tailBlock' \/ (frontBlock' = frontBlock /\ tailBlock' = tailBlock)
    PROVE  Refusals'
<1>1. pc \in [Thread -> Label] /\ lenAtCall \in [Thread -> Nat] /\ Size' = Size
  BY TypeFacts, ConfKept DEF IInv, LengthAtCall
<1>2. /\ pc'[t] = l
      /\ l # "idle" /\ pc[t] # "idle" => lenAtCall' = lenAtCall
      /\ \A u \in Thread \ {t} : pc'[u] = pc[u] /\ lenAtCall'[u] = lenAtCall[u]
  BY <1>1 DEF Moves
<1>3. "producer" \in Thread /\ "consumer" \in Thread
  BY DEF Thread
<1>4. /\ pc["producer"] = "checkNext" => block[tailBlock].size - 1 <= lenAtCall["producer"]
      /\ pc["producer"] = "makeBlock" => Size <= lenAtCall["producer"]
      /\ pc["consumer"] = "loadTailBlock" => frontBlock # tailBlock \/ lenAtCall["consumer"] = 0
  BY DEF Refusals, At
<1>5. pc'["producer"] = "checkNext" => block'[tailBlock'].size - 1 <= lenAtCall'["producer"]
  <2> SUFFICES ASSUME pc'["producer"] = "checkNext"
               PROVE  block[tailBlock].size - 1 <= lenAtCall'["producer"]
    OBVIOUS
  <2>1. CASE t = "producer"
    BY <1>2, <2>1
  <2>2. CASE t # "producer"
    BY <1>2, <1>3, <1>4, <2>2
  <2> QED
    BY <2>1, <2>2
<1>6. pc'["producer"] = "makeBlock" => Size <= lenAtCall'["producer"]
  <2> SUFFICES ASSUME pc'["producer"] = "makeBlock" PROVE Size <= lenAtCall'["producer"]
    OBVIOUS
  <2>1. CASE t = "producer"
    BY <1>2, <2>1
  <2>2. CASE t # "producer"
    BY <1>2, <1>3, <1>4, <2>2
  <2> QED
    BY <2>1, <2>2
<1>7. pc'["consumer"] = "loadTailBlock" => frontBlock' # tailBlock' \/ lenAtCall'["consumer"] = 0
  <2> SUFFICES ASSUME pc'["consumer"] = "loadTailBlock", frontBlock' = frontBlock /\ tailBlock' = tailBlock
               PROVE  frontBlock # tailBlock \/ lenAtCall'["consumer"] = 0
    OBVIOUS
  <2>1. CASE t = "consumer"
    BY <1>2, <2>1
  <2>2. CASE t # "consumer"
    BY <1>2, <1>3, <1>4, <2>2
  <2> QED
    BY <2>1, <2>2
<1>8. Size' <= lenAtCall'["producer"] <=> Size <= lenAtCall'["producer"]
  BY <1>1
<1> QED
  BY <1>5, <1>6, <1>7, <1>8, Zenon DEF Refusals, At

(* A step of a call that moves no element, no block and no end of the queue. *)
LEMMA CallGoesOn ==
    ASSUME IInv, IInv', RInv, NEW t \in Thread, NEW l, Moves(t, l), conf' = conf,
           Len(block') = Len(block), Blocks' = Blocks, SameFront, SameTail, SameNext, SameSize,
           frontBlock' = frontBlock, tailBlock' = tailBlock, largestBlockSize' = largestBlockSize,
           sent' = sent, taken' = taken, walk' = walk,
           l \notin {"sizeFront", "sizeTail", "sizeNext", "advanceBlock", "link"},
           pc[t] \notin {"advanceBlock", "link"},
           t = "producer" /\ l \in {"checkNext", "useNext", "constructNext", "advanceTail", "makeBlock"}
              => FullBlock(tailBlock) \/ pc[t] \in {"checkNext", "useNext", "constructNext"},
           l = "checkNext" => pc[t] # "idle" /\ block[tailBlock].size - 1 <= lenAtCall["producer"],
           l = "makeBlock" => pc[t] # "idle" /\ Size <= lenAtCall["producer"],
           l = "loadTailBlock" => pc[t] # "idle" /\ (frontBlock # tailBlock \/ lenAtCall["consumer"] = 0)
    PROVE  RInv'
<1>1. /\ BlocksTyped /\ tailBlock \in Blocks /\ pc \in [Thread -> Label]
      /\ Linked \subseteq Blocks /\ InUse \subseteq Linked /\ BlocksTyped'
  BY RingFacts, TypeFacts DEF IInv, Types
<1>2. Total /\ LengthAtCall /\ Full /\ Reserved /\ Refusals /\ ProducerTally /\ ConsumerTally
  BY DEF RInv
<1>3. pc'[t] = l /\ \A u \in Thread \ {t} : pc'[u] = pc[u] /\ lenAtCall'[u] = lenAtCall[u]
  BY <1>1, <1>2 DEF Moves, LengthAtCall
<1>4. /\ pc'["producer"] = "link" <=> pc["producer"] = "link"
      /\ pc'["producer"] = "advanceBlock" <=> pc["producer"] = "advanceBlock"
  BY <1>1, <1>3 DEF Thread
<1>5. Linked' = Linked /\ InUse' = InUse
  BY <1>1, <1>4, StaysInPlace
<1>6. \A W \in SUBSET Blocks : /\ Amount(block', W) = Amount(block, W) /\ Amount(block, W) \in Nat
                               /\ Amount(block, W) <= Amount(block, W)
  <2> SUFFICES ASSUME NEW W \in SUBSET Blocks
               PROVE  /\ Amount(block', W) = Amount(block, W) /\ Amount(block, W) \in Nat
                      /\ Amount(block, W) <= Amount(block, W)
    OBVIOUS
  <2>1. Amount(block, W) \in Nat
    BY <1>1, SoundBefore, SomeBlocks
  <2> QED
    BY <2>1, SameAmounts
<1>7. Total'
  <2>1. Amount(block', Linked') = Amount(block, Linked)
    BY <1>1, <1>5, <1>6
  <2> QED
    BY <1>2, <1>4, <2>1 DEF Total, Live, At
<1>8. LengthAtCall'
  BY <1>2, LengthKept
<1>9. Full'
  <2>1. \A b \in Blocks : FullBlock(b)' <=> FullBlock(b)
    BY FullBlockKept DEF SameFront, SameTail, SameSize
  <2>2. Overflows' => Overflows \/ FullBlock(tailBlock)
    BY <1>3 DEF Overflows, Thread
  <2>3. \A b \in InUse \ {frontBlock, tailBlock} : FullBlock(b) => FullBlock(b)'
    BY <1>1, <2>1
  <2>4. Overflows' /\ tailBlock # frontBlock => FullBlock(tailBlock)'
    BY <1>1, <1>2, <2>1, <2>2 DEF Full
  <2> QED
    BY <1>2, <1>5, <2>3, <2>4, FullKept
<1>10. Reserved'
  BY <1>2, <1>5, ReservedKept
<1>11. Refusals'
  <2>1. block'[tailBlock].size = block[tailBlock].size
    BY <1>1 DEF SameSize
  <2> QED
    BY <1>2, <2>1, RefusalsKept
<1>12. ProducerTally'
  <2>1. CASE t = "producer"
    BY <1>3, <2>1, Zenon DEF ProducerTally, Counting
  <2>2. CASE t = "consumer"
    <3>1. pc'["producer"] = pc["producer"] /\ lenAtCall'["producer"] = lenAtCall["producer"]
      BY <1>3, <2>2 DEF Thread
    <3>2. walk'["producer"] = walk["producer"] /\ lenAtCall \in [Thread -> Nat]
      BY <1>2 DEF LengthAtCall
    <3> QED
      BY <1>2, <1>5, <1>6, <3>1, <3>2, ProducerTallyKept
  <2> QED
    BY <2>1, <2>2 DEF Thread
<1>13. ConsumerTally'
  <2>1. CASE t = "consumer"
    BY <1>3, <2>1, Zenon DEF ConsumerTally, Counting
  <2>2. CASE t = "producer"
    <3>1. pc'["consumer"] = pc["consumer"] /\ lenAtCall'["consumer"] = lenAtCall["consumer"]
      BY <1>3, <2>2 DEF Thread
    <3>2. walk'["consumer"] = walk["consumer"] /\ lenAtCall \in [Thread -> Nat]
      BY <1>2 DEF LengthAtCall
    <3> QED
      BY <1>2, <1>5, <1>6, <3>1, <3>2, ConsumerTallyKept
  <2> QED
    BY <2>1, <2>2 DEF Thread
<1> QED
  BY <1>7, <1>8, <1>9, <1>10, <1>11, <1>12, <1>13 DEF RInv

-----------------------------------------------------------------------------
(* The blocks that are reserved hold as many elements as the constructor promised *)

(* The quotient of the constructor is rounded so that the blocks but one suffice. *)
LEMMA Rooms ==
    ASSUME NEW s \in Nat, s >= 1, NEW m \in Nat, m >= 2, NEW c \in Int, c = (s + m * 2 - 3) \div (m - 1)
    PROVE  c >= 2 /\ s <= (c - 1) * (m - 1)
<1>1. PICK d \in Nat, q \in Nat : d = m - 1 /\ q = s + m * 2 - 3
  BY SMT
<1>2. d >= 1 /\ q = s + 2 * d - 1 /\ c = q \div d
  BY <1>1, SMT
<1>3. c * d <= q /\ q < c * d + d /\ c * d \in Int
  BY <1>2, SMT
<1>4. (c - 1) * d = c * d - d
  BY <1>2, SMT
<1>5. s <= (c - 1) * d
  BY <1>2, <1>3, <1>4, SMT
<1>6. c >= 2
  <2> SUFFICES ASSUME c <= 1 PROVE FALSE
    BY SMT
  <2>1. (c - 1) * d <= 0
    BY <1>2, SMT
  <2>2. (c - 1) * d \in Int
    BY SMT
  <2> QED
    BY <1>5, <2>1, <2>2, SMT
<1> QED
  BY <1>1, <1>5, <1>6

(* One block but one, and more, of those that are reserved hold `size` elements. *)
LEMMA Capacity ==
    ASSUME conf \in Configurations
    PROVE  /\ Size \in Nat /\ InitialBlockSize - 1 \in Nat
           /\ InitialBlockCount <= 1 => Size <= InitialBlockSize - 1
           /\ \A k \in Nat : k >= 1 /\ k >= InitialBlockCount - 1 => Size <= k * (InitialBlockSize - 1)
<1>1. Size \in Nat \ {0} /\ MaxBlockSize \in Nat /\ MaxBlockSize >= 2
  BY RWQAssumption DEF Size, MaxBlockSize
<1>2. PICK s \in Nat, m \in Nat : s = Size /\ m = MaxBlockSize /\ s >= 1 /\ m >= 2
  BY <1>1
<1>3. PICK z \in Nat, c \in Nat : z = InitialBlockSize /\ c = InitialBlockCount /\ z >= 2 /\ c >= 1
  BY Sizes
<1>4. CASE SeveralBlocks
  <2>1. z = m /\ c = (s + m * 2 - 3) \div (m - 1)
    BY <1>2, <1>3, <1>4 DEF InitialBlockSize, InitialBlockCount
  <2>2. c >= 2 /\ s <= (c - 1) * (m - 1)
    BY <1>2, <2>1, Rooms
  <2>3. ASSUME NEW k \in Nat, k >= c - 1 PROVE s <= k * (z - 1)
    <3>1. PICK p \in Nat, d \in Nat : p = c - 1 /\ d = m - 1
      BY <1>2, <2>2, SMT
    <3>2. k >= p /\ s <= p * d /\ z - 1 = d
      BY <2>1, <2>2, <2>3, <3>1
    <3>3. p * d <= k * d /\ p * d \in Nat /\ k * d \in Nat
      BY <3>2, SMT
    <3>4. s <= k * d
      BY <3>2, <3>3, SMT
    <3> QED
      BY <3>2, <3>4
  <2>4. ~(c <= 1) /\ z - 1 \in Nat
    BY <1>3, <2>2, SMT
  <2> QED
    BY <1>2, <1>3, <2>3, <2>4
<1>5. CASE ~SeveralBlocks
  <2>1. z = CeilToPow2(s + 1) /\ c = 1
    BY <1>2, <1>3, <1>5 DEF InitialBlockSize, InitialBlockCount
  <2>2. s + 1 \in Nat
    BY SMT
  <2>3. z >= s + 1
    BY <2>1, <2>2, Rounded
  <2>4. s <= z - 1 /\ z - 1 \in Nat
    BY <2>3, SMT
  <2>5. ASSUME NEW k \in Nat, k >= 1 PROVE s <= k * (z - 1)
    <3>1. PICK d \in Nat : d = z - 1
      BY <2>4
    <3>2. d <= k * d /\ k * d \in Nat /\ s <= d
      BY <2>4, <2>5, <3>1, SMT
    <3>3. s <= k * d
      BY <3>2, SMT
    <3> QED
      BY <3>1, <3>3
  <2> QED
    BY <1>2, <1>3, <2>4, <2>5
<1> QED
  BY <1>4, <1>5

(* The producer that finds no free block after a full one: the queue held `size` *)
(* elements when its call began.                                             *)
LEMMA NoRoom ==
    ASSUME IInv, RInv, At("producer", "checkNext"), ~NextBlockIsFree
    PROVE  Size <= lenAtCall["producer"]
<1>1. /\ BlocksTyped /\ tailBlock \in InUse /\ frontBlock \in InUse /\ Linked \subseteq Blocks /\ Ring
      /\ InUse \subseteq Linked /\ conf \in Configurations
  BY RingFacts, TypeFacts DEF IInv
<1>2. block[tailBlock].next = frontBlock /\ pc["producer"] = "checkNext"
  BY DEF NextBlockIsFree, At
<1>3. Linked = Blocks /\ Overflows
  BY <1>1, <1>2, LinkedBlocks DEF HandsFree, Overflows
<1>4. PICK L \in Nat, n \in Int : L = lenAtCall["producer"] /\ n = sent - taken /\ n <= L
  <2>1. lenAtCall["producer"] \in Nat /\ sent - taken <= lenAtCall["producer"]
    BY <1>2 DEF RInv, LengthAtCall, At, Thread
  <2>2. sent - taken \in Int
    BY NumbersNow, SMT DEF InStep
  <2> QED
    BY <2>1, <2>2
<1>5. Live(Linked) = n
  BY <1>2, <1>4 DEF RInv, Total, At
<1>6. PICK z \in Nat, c \in Nat, s \in Nat : z = InitialBlockSize - 1 /\ c = InitialBlockCount /\ s = Size
  BY <1>1, Sizes, Capacity
<1>7. /\ c <= 1 => s <= z
      /\ \A k \in Nat : k >= 1 /\ k >= c - 1 => s <= k * z
  BY <1>1, <1>6, Capacity
<1>8. 1..c \subseteq Linked /\ \A b \in Blocks : block[b].size >= InitialBlockSize
  BY <1>6 DEF RInv, Reserved
<1>9. CASE tailBlock = frontBlock
  <2>1. Linked = {frontBlock}
    <3>1. \A S \in SUBSET Linked : S # {} /\ (\A b \in S : block[b].next \in S) => S = Linked
      BY <1>1 DEF Ring
    <3>2. {frontBlock} \in SUBSET Linked /\ {frontBlock} # {} /\ \A b \in {frontBlock} : block[b].next \in {frontBlock}
      BY <1>1, <1>2, <1>9
    <3> QED
      BY <3>1, <3>2
  <2>2. c <= 1
    <3> SUFFICES ASSUME c >= 2 PROVE FALSE
      BY SMT
    <3>1. 1 \in 1..c /\ 2 \in 1..c
      BY SMT
    <3> QED
      BY <1>8, <2>1, <3>1
  <2>3. block[tailBlock].size - 1 <= L
    BY <1>2, <1>4 DEF RInv, Refusals, At
  <2>4. block[tailBlock].size \in Nat /\ block[tailBlock].size >= InitialBlockSize /\ InitialBlockSize \in Nat
    BY <1>1, <1>3, <1>8, BlockFacts, Sizes
  <2>5. z <= L
    BY <1>6, <2>3, <2>4, SMT
  <2>6. s <= L
    BY <1>7, <2>2, <2>5, SMT
  <2> QED
    BY <1>4, <1>6, <2>6
<1>10. CASE tailBlock # frontBlock
  <2>1. InUse = Linked
    <3>1. \A S \in SUBSET Linked : S # {} /\ (\A b \in S : block[b].next \in S) => S = Linked
      BY <1>1 DEF Ring
    <3>2. \A b \in InUse : block[b].next \in InUse
      BY <1>1, <1>2 DEF Ring
    <3> QED
      BY <1>1, <3>1, <3>2
  <2> DEFINE W == Linked \ {frontBlock}
  <2>2. \A b \in W : FullBlock(b)
    BY <1>3, <1>10, <2>1 DEF RInv, Full
  <2>3. \A b \in W : Amount(block, {b}) >= z
    <3> SUFFICES ASSUME NEW b \in W PROVE Amount(block, {b}) >= z
      OBVIOUS
    <3>1. b \in Blocks /\ FullBlock(b)
      BY <1>3, <2>2
    <3>2. Live({b}) = block[b].size - 1 /\ block[b].size \in Nat /\ block[b].size >= InitialBlockSize
      BY <1>1, <1>8, <3>1, FullAmount
    <3>3. InitialBlockSize \in Nat
      BY <1>1, Sizes
    <3>4. Live({b}) >= z
      BY <1>6, <3>2, <3>3, SMT
    <3> QED
      BY <3>4 DEF Live
  <2>4. Sound(block, Linked) /\ Sound(block, W)
    BY <1>1, <1>3, SoundBlocks DEF AllSound
  <2> HIDE DEF W
  <2>5. Amount(block, W) >= Cardinality(W) * z /\ Cardinality(W) \in Nat
    BY <2>3, <2>4, AtLeast
  <2>6. Amount(block, W) \in Nat /\ Amount(block, Linked) \in Nat /\ Amount(block, W) <= Amount(block, Linked)
    BY <2>4, PartOfWhole DEF W
  <2>7. PICK k \in Nat : k = Cardinality(W)
    BY <2>5
  <2>8. k >= c - 1 /\ k >= 1
    <3>1. IsFiniteSet(Linked) /\ IsFiniteSet(W)
      BY <2>4 DEF Sound
    <3>2. Cardinality(Linked) \in Nat /\ Cardinality(W) = Cardinality(Linked) - 1
      BY <1>1, <3>1, FS_RemoveElement, FS_CardinalityType DEF W
    <3>3. Cardinality(1..c) = c
      <4>1. Cardinality(1..c) = IF 1 > c THEN 0 ELSE c - 1 + 1
        BY FS_Interval, SMT
      <4> QED
        BY <4>1, SMT
    <3>4. Cardinality(1..c) <= Cardinality(Linked)
      BY <1>8, <3>1, FS_Subset
    <3>5. k # 0
      <4>1. tailBlock \in W
        BY <1>1, <1>10 DEF W
      <4> QED
        BY <2>7, <3>1, <4>1, FS_EmptySet
    <3> QED
      BY <2>7, <3>2, <3>3, <3>4, <3>5, SMT
  <2>9. s <= k * z
    BY <1>7, <2>8
  <2>10. PICK v, w \in Nat : v = Amount(block, W) /\ w = Amount(block, Linked)
    BY <2>6
  <2>11. k * z <= v /\ v <= w /\ w = n /\ k * z \in Int
    BY <1>5, <2>5, <2>6, <2>7, <2>10, SMT DEF Live
  <2>12. s <= L
    BY <1>4, <2>9, <2>10, <2>11, SMT
  <2> QED
    BY <1>4, <1>6, <2>12
<1> QED
  BY <1>9, <1>10

(* The producer that finds the tail block full: the queue held what it holds. *)
LEMMA TailIsFull ==
    ASSUME IInv, RInv, At("producer", "loadFront"), FullBlock(tailBlock)
    PROVE  block[tailBlock].size - 1 <= lenAtCall["producer"]
<1>1. BlocksTyped /\ tailBlock \in Linked /\ Linked \subseteq Blocks
  BY RingFacts DEF IInv
<1>2. PICK L \in Nat, n \in Int : L = lenAtCall["producer"] /\ n = sent - taken /\ n <= L
  <2>1. lenAtCall["producer"] \in Nat /\ sent - taken <= lenAtCall["producer"]
    BY DEF RInv, LengthAtCall, At, Thread
  <2>2. sent - taken \in Int
    BY NumbersNow, SMT DEF InStep
  <2> QED
    BY <2>1, <2>2
<1>3. Live(Linked) = n
  BY <1>2 DEF RInv, Total, At
<1>4. Live({tailBlock}) = block[tailBlock].size - 1
  BY <1>1, FullAmount
<1>5. Sound(block, Linked) /\ {tailBlock} \subseteq Linked
  BY <1>1, SoundBlocks DEF AllSound
<1>6. Live({tailBlock}) \in Nat /\ Live({tailBlock}) <= Live(Linked)
  BY <1>5, PartOfWhole DEF Live
<1>7. Live({tailBlock}) <= L
  BY <1>2, <1>3, <1>6, SMT
<1> QED
  BY <1>2, <1>4, <1>7

-----------------------------------------------------------------------------
(* Each action keeps the invariant of the counts: the producer *)

(* The call begins. *)
LEMMA EnqueueBeginCounts ==
    ASSUME IInv, IInv', RInv, conf' = conf, NEW alloc \in BOOLEAN, EnqueueBegin(alloc)
    PROVE  RInv'
<1> DEFINE l == IF NextTail # block[tailBlock].localFront THEN "construct" ELSE "loadFront"
<1>1. /\ pc["producer"] = "idle" /\ pc' = [pc EXCEPT !["producer"] = l]
      /\ lenAtCall' = [lenAtCall EXCEPT !["producer"] = sent - taken]
      /\ UNCHANGED <<block, frontBlock, tailBlock, largestBlockSize, sent, taken, walk>>
  BY DEF EnqueueBegin, Begin, Goto, At, consumerRegs
<1>2. /\ Len(block') = Len(block) /\ Blocks' = Blocks
      /\ SameFront /\ SameTail /\ SameNext /\ SameSize
  BY <1>1, RingFacts, Untouched
<1>3. l \in {"construct", "loadFront"} /\ "producer" \in Thread
  BY DEF Thread
<1> HIDE DEF l
<1>4. Moves("producer", l)
  BY <1>1, <1>3 DEF Moves
<1> QED
  BY <1>1, <1>2, <1>3, <1>4, CallGoesOn

(* The producer has loaded the front of the tail block. *)
LEMMA LoadFrontCounts ==
    ASSUME IInv, IInv', RInv, conf' = conf, LoadFront
    PROVE  RInv'
<1> DEFINE l == IF NextTail # block[tailBlock].front THEN "construct" ELSE "checkNext"
<1>1. /\ At("producer", "loadFront") /\ pc["producer"] = "loadFront" /\ pc' = [pc EXCEPT !["producer"] = l]
      /\ block' = [block EXCEPT ![tailBlock].localFront = block[tailBlock].front]
      /\ UNCHANGED <<lenAtCall, frontBlock, tailBlock, largestBlockSize, sent, taken, walk>>
  BY DEF LoadFront, Step, Goto, At, consumerRegs, producerRegs
<1>2. BlocksTyped /\ tailBlock \in Blocks
  BY RingFacts
<1>3. /\ Len(block') = Len(block) /\ Blocks' = Blocks
      /\ SameFront /\ SameTail /\ SameNext /\ SameSize
  BY <1>1, <1>2, BlockFacts, SetLocalFront
<1>4. l \in {"construct", "checkNext"} /\ "producer" \in Thread
  BY DEF Thread
<1>5. l = "checkNext" => FullBlock(tailBlock)
  BY DEF FullBlock, NextTail
<1> HIDE DEF l
<1>6. l = "checkNext" => block[tailBlock].size - 1 <= lenAtCall["producer"]
  BY <1>1, <1>5, TailIsFull
<1>7. Moves("producer", l)
  BY <1>1, <1>4 DEF Moves
<1> QED
  BY <1>1, <1>3, <1>4, <1>5, <1>6, <1>7, CallGoesOn

(* The element is constructed. *)
LEMMA ConstructCounts ==
    ASSUME IInv, IInv', RInv, conf' = conf, Construct
    PROVE  RInv'
<1>1. /\ pc["producer"] = "construct" /\ pc' = [pc EXCEPT !["producer"] = "publish"]
      /\ Stored(tailBlock, block[tailBlock].tail, sent + 1)
      /\ UNCHANGED <<lenAtCall, frontBlock, tailBlock, largestBlockSize, sent, taken, walk>>
  BY DEF Construct, Step, Goto, At, consumerRegs, producerRegs, Stored
<1>2. /\ BlocksTyped /\ tailBlock \in Blocks /\ sent + 1 \in Nat
      /\ block[tailBlock].tail \in 0..(block[tailBlock].size - 1)
  BY RingFacts, BlockFacts, TypeFacts DEF IInv
<1>3. /\ Len(block') = Len(block) /\ Blocks' = Blocks
      /\ SameFront /\ SameTail /\ SameNext /\ SameSize
  BY <1>1, <1>2, SetData
<1>4. Moves("producer", "publish") /\ "producer" \in Thread
  BY <1>1 DEF Moves, Thread
<1> QED
  BY <1>1, <1>3, <1>4, CallGoesOn

(* The producer has looked whether the next block is free.                  *)
LEMMA CheckNextCounts ==
    ASSUME IInv, IInv', RInv, conf' = conf, CheckNext
    PROVE  RInv'
<1>1. PICK l \in {"useNext", "makeBlock", "idle"} :
          /\ At("producer", "checkNext") /\ pc["producer"] = "checkNext" /\ pc' = [pc EXCEPT !["producer"] = l]
          /\ IF l = "idle" THEN lenAtCall' = [lenAtCall EXCEPT !["producer"] = 0] ELSE lenAtCall' = lenAtCall
          /\ l = "makeBlock" => ~NextBlockIsFree
  BY DEF CheckNext, Step, Return, Goto, At
<1>2. UNCHANGED <<block, frontBlock, tailBlock, largestBlockSize, sent, taken, walk>>
  BY DEF CheckNext, consumerRegs, producerRegs
<1>3. /\ Len(block') = Len(block) /\ Blocks' = Blocks
      /\ SameFront /\ SameTail /\ SameNext /\ SameSize
  BY <1>2, RingFacts, Untouched
<1>4. l = "makeBlock" => Size <= lenAtCall["producer"]
  BY <1>1, NoRoom
<1>5. Moves("producer", l) /\ "producer" \in Thread
  BY <1>1, <1>2 DEF Moves, Thread
<1> QED
  BY <1>1, <1>2, <1>3, <1>4, <1>5, CallGoesOn

(* The producer goes for the next block.                                    *)
LEMMA UseNextCounts ==
    ASSUME IInv, IInv', RInv, conf' = conf, UseNext
    PROVE  RInv'
<1>1. PICK n : n = block[tailBlock].next
  OBVIOUS
<1>2. /\ pc["producer"] = "useNext" /\ pc' = [pc EXCEPT !["producer"] = "constructNext"]
      /\ block' = [block EXCEPT ![n].localFront = block[n].front]
      /\ UNCHANGED <<lenAtCall, frontBlock, tailBlock, largestBlockSize, sent, taken, walk>>
  BY <1>1 DEF UseNext, Step, Goto, At, consumerRegs, producerRegs
<1>3. BlocksTyped /\ n \in Blocks
  BY <1>1, RingFacts
<1>4. /\ Len(block') = Len(block) /\ Blocks' = Blocks
      /\ SameFront /\ SameTail /\ SameNext /\ SameSize
  BY <1>2, <1>3, BlockFacts, SetLocalFront
<1>5. Moves("producer", "constructNext") /\ "producer" \in Thread
  BY <1>2 DEF Moves, Thread
<1> QED
  BY <1>2, <1>4, <1>5, CallGoesOn

(* The element is constructed in the next block.                            *)
LEMMA ConstructNextCounts ==
    ASSUME IInv, IInv', RInv, conf' = conf, ConstructNext
    PROVE  RInv'
<1>1. PICK n : n = block[tailBlock].next
  OBVIOUS
<1>2. /\ pc["producer"] = "constructNext" /\ pc' = [pc EXCEPT !["producer"] = "advanceTail"]
      /\ Stored(n, block[n].tail, sent + 1)
      /\ UNCHANGED <<lenAtCall, frontBlock, tailBlock, largestBlockSize, sent, taken, walk>>
  BY <1>1 DEF ConstructNext, Step, Goto, At, consumerRegs, producerRegs, Stored
<1>3. BlocksTyped /\ n \in Blocks /\ sent + 1 \in Nat /\ block[n].tail \in 0..(block[n].size - 1)
  BY <1>1, RingFacts, BlockFacts, TypeFacts DEF IInv
<1>4. /\ Len(block') = Len(block) /\ Blocks' = Blocks
      /\ SameFront /\ SameTail /\ SameNext /\ SameSize
  BY <1>2, <1>3, SetData
<1>5. Moves("producer", "advanceTail") /\ "producer" \in Thread
  BY <1>2 DEF Moves, Thread
<1> QED
  BY <1>2, <1>4, <1>5, CallGoesOn

(* The allocation fails, and the call is refused.                            *)
LEMMA MakeBlockFailsCounts ==
    ASSUME IInv, IInv', RInv, conf' = conf, MakeBlockFails
    PROVE  RInv'
<1>1. /\ pc["producer"] = "makeBlock" /\ pc' = [pc EXCEPT !["producer"] = "idle"]
      /\ lenAtCall' = [lenAtCall EXCEPT !["producer"] = 0]
      /\ UNCHANGED <<block, frontBlock, tailBlock, largestBlockSize, sent, taken, walk>>
  BY DEF MakeBlockFails, Return, Goto, At, consumerRegs, producerRegs
<1>2. /\ Len(block') = Len(block) /\ Blocks' = Blocks
      /\ SameFront /\ SameTail /\ SameNext /\ SameSize
  BY <1>1, RingFacts, Untouched
<1>3. Moves("producer", "idle") /\ "producer" \in Thread
  BY <1>1 DEF Moves, Thread
<1> QED
  BY <1>1, <1>2, <1>3, CallGoesOn

(* The tail does not reach the front, when it does not reach the copy of it. *)
LEMMA TailStaysOff ==
    ASSUME IInv, NEW x \in Blocks, Advance(block[x].tail, x) # block[x].localFront
    PROVE  Advance(block[x].tail, x) # block[x].front /\ Advance(block[x].tail, x) \in 0..(block[x].size - 1)
<1>1. PICK s, f, t, l, m : /\ s = block[x].size /\ f = block[x].front /\ t = block[x].tail
                           /\ l = block[x].localFront /\ m = block[x].localTail
  OBVIOUS
<1>2. /\ s \in Nat /\ s >= 2 /\ f \in 0..(s - 1) /\ t \in 0..(s - 1) /\ l \in 0..(s - 1) /\ m \in 0..(s - 1)
      /\ Between(l, f, t) /\ Between(f, m, t)
  BY <1>1, RingFacts, BlockFacts DEF IInv, Order
<1>3. Advance(block[x].tail, x) = Round(t, s)
  BY <1>1, InTheseTerms
<1>4. Round(t, s) # l
  BY <1>1, <1>3
<1>5. Round(t, s) \in 0..(s - 1) /\ Round(t, s) # f
  BY <1>2, <1>4, TailMoves
<1> QED
  BY <1>1, <1>3, <1>5

(* The element is published. *)
LEMMA PublishCounts ==
    ASSUME IInv, IInv', RInv, conf' = conf, Publish
    PROVE  RInv'
<1>1. PICK x, u : x = tailBlock /\ u = Advance(block[x].tail, x)
  OBVIOUS
<1>2. /\ BlocksTyped /\ x \in Blocks /\ x \in InUse /\ frontBlock \in InUse
      /\ Linked \subseteq Blocks /\ InUse \subseteq Linked /\ BlocksTyped'
      /\ pc \in [Thread -> Label]
  BY <1>1, RingFacts, TypeFacts DEF IInv, Types
<1>3. Total /\ LengthAtCall /\ Full /\ Reserved /\ Refusals /\ ProducerTally /\ ConsumerTally
  BY DEF RInv
<1>4. /\ pc["producer"] = "publish" /\ pc' = [pc EXCEPT !["producer"] = "idle"]
      /\ block' = [block EXCEPT ![x].tail = u] /\ sent' = sent + 1
      /\ lenAtCall' = [lenAtCall EXCEPT !["producer"] = 0]
      /\ UNCHANGED <<frontBlock, tailBlock, largestBlockSize, taken, walk>>
  BY <1>1 DEF Publish, Return, Goto, At, consumerRegs, NextTail
<1>5. u # block[x].front /\ u \in 0..(block[x].size - 1)
  <2>1. u # block[x].localFront
    BY <1>1, <1>4 DEF IInv, ProducerAt, NextTail
  <2> QED
    BY <1>1, <1>2, <2>1, TailStaysOff
<1>6. /\ Len(block') = Len(block) /\ Blocks' = Blocks
      /\ SameFront /\ SameNext /\ SameSize
      /\ \A b \in Blocks : block'[b].tail = IF b = x THEN u ELSE block[b].tail
  BY <1>2, <1>4, <1>5, SetTail
<1>7. Fills(x)
  BY <1>1, <1>5, <1>6 DEF Fills
<1>8. Moves("producer", "idle") /\ "producer" \in Thread /\ pc'["producer"] = "idle"
      /\ pc'["consumer"] = pc["consumer"]
  BY <1>2, <1>4 DEF Moves, Thread
<1>9. Linked' = Linked /\ Linked = Blocks /\ Pending' = {} /\ Pending = {}
  BY <1>4, <1>6, <1>8 DEF Linked, Pending, At
<1>10. InUse' = InUse
  <2>1. \A b \in Blocks \ {x} : Empty(b)' <=> Empty(b)
    BY <1>6 DEF Empty, SameFront
  <2>2. ~Empty(x)'
    BY <1>2, <1>5, <1>6 DEF Empty, SameFront
  <2>3. InUse' = {frontBlock} \cup {b \in Blocks : ~Empty(b)'}
    BY <1>4, <1>6, <1>9 DEF InUse
  <2>4. InUse = {frontBlock} \cup {b \in Blocks : ~Empty(b)}
    BY <1>9 DEF InUse
  <2> QED
    BY <1>2, <2>1, <2>2, <2>3, <2>4
<1>11. \A W \in SUBSET Blocks :
          /\ Amount(block, W) \in Nat /\ Amount(block', W) \in Nat
          /\ Amount(block', W) = IF x \in W THEN Amount(block, W) + 1 ELSE Amount(block, W)
  BY <1>2, <1>6, <1>7, OneMore
<1>12. Total'
  <2>1. Amount(block', Linked') = Amount(block, Linked) + 1 /\ Amount(block, Linked) \in Nat
    BY <1>2, <1>9, <1>11
  <2>2. Amount(block, Linked) = sent - taken + 0
    BY <1>3, <1>4 DEF Total, Live, At
  <2>3. sent \in Nat /\ taken \in Nat
    BY NumbersNow DEF InStep
  <2>4. Amount(block', Linked') = sent' - taken'
    BY <1>4, <2>1, <2>2, <2>3, SMT
  <2>5. sent' - taken' = sent' - taken' + 0
    BY <1>4, <2>3, SMT
  <2> QED
    BY <1>8, <2>4, <2>5 DEF Total, Live, At
<1>13. LengthAtCall'
  BY <1>3, <1>8, LengthKept
<1>14. Full'
  <2>1. \A b \in InUse \ {frontBlock, tailBlock} : FullBlock(b) => FullBlock(b)'
    BY <1>1, <1>2, <1>6, FullBlockKept DEF SameFront, SameSize
  <2>2. ~Overflows'
    BY <1>8 DEF Overflows
  <2> QED
    BY <1>3, <1>4, <1>10, <2>1, <2>2, FullKept
<1>15. Reserved'
  BY <1>3, <1>4, <1>6, <1>9, ReservedKept
<1>16. Refusals'
  <2>1. block'[tailBlock].size = block[tailBlock].size
    BY <1>1, <1>2, <1>6 DEF SameSize
  <2> QED
    BY <1>3, <1>4, <1>8, <2>1, RefusalsKept
<1>17. ProducerTally'
  BY <1>8, Zenon DEF ProducerTally, Counting
<1>18. ConsumerTally'
  <2>1. lenAtCall \in [Thread -> Nat] /\ lenAtCall'["consumer"] = lenAtCall["consumer"]
    BY <1>3, <1>4 DEF LengthAtCall, Thread
  <2>2. \A W \in SUBSET Blocks : /\ Amount(block, W) \in Nat /\ Amount(block', W) \in Nat
                                 /\ Amount(block, W) <= Amount(block', W)
    <3>1. \A p \in Nat : p <= p /\ p <= p + 1
      BY SMT
    <3> QED
      BY <1>11, <3>1
  <2>3. walk'["consumer"] = walk["consumer"]
    BY <1>4
  <2> QED
    BY <1>3, <1>6, <1>8, <1>9, <2>1, <2>2, <2>3, ConsumerTallyKept
<1> QED
  BY <1>12, <1>13, <1>14, <1>15, <1>16, <1>17, <1>18 DEF RInv

(* The element is in the next block, which is not in use yet.               *)
LEMMA AdvanceTailCounts ==
    ASSUME IInv, IInv', RInv, conf' = conf, AdvanceTail
    PROVE  RInv'
<1>1. PICK x, u : x = block[tailBlock].next /\ u = Advance(block[x].tail, x)
  OBVIOUS
<1>2. /\ BlocksTyped /\ x \in Blocks /\ tailBlock \in InUse /\ frontBlock \in InUse
      /\ Linked \subseteq Blocks /\ InUse \subseteq Linked /\ BlocksTyped'
      /\ pc \in [Thread -> Label]
  BY <1>1, RingFacts, TypeFacts DEF IInv, Types
<1>3. Total /\ LengthAtCall /\ Full /\ Reserved /\ Refusals /\ ProducerTally /\ ConsumerTally
  BY DEF RInv
<1>4. /\ pc["producer"] = "advanceTail" /\ pc' = [pc EXCEPT !["producer"] = "advanceBlock"]
      /\ block' = [block EXCEPT ![x].tail = u]
      /\ UNCHANGED <<lenAtCall, frontBlock, tailBlock, largestBlockSize, sent, taken, walk>>
  BY <1>1 DEF AdvanceTail, Step, Goto, At, consumerRegs, producerRegs
<1>5. /\ x \notin InUse /\ x # frontBlock /\ block[x].front = block[x].tail
      /\ u # block[x].front /\ u \in 0..(block[x].size - 1)
  <2>1. NextIsFree /\ block[x].localFront = block[x].front /\ block[x].front = block[x].tail
    BY <1>1, <1>4 DEF IInv, ProducerAt, NextOfTail, At
  <2>2. PICK s, t : s = block[x].size /\ t = block[x].tail
    OBVIOUS
  <2>3. s \in Nat /\ s >= 2 /\ t \in 0..(s - 1) /\ u = Round(t, s)
    BY <1>1, <1>2, <2>2, BlockFacts, InTheseTerms
  <2>4. Round(t, s) # t /\ Round(t, s) \in 0..(s - 1)
    BY <2>3, SMT DEF Round
  <2> QED
    BY <1>1, <2>1, <2>2, <2>3, <2>4 DEF NextIsFree
<1>6. /\ Len(block') = Len(block) /\ Blocks' = Blocks
      /\ SameFront /\ SameNext /\ SameSize
      /\ \A b \in Blocks : block'[b].tail = IF b = x THEN u ELSE block[b].tail
  BY <1>2, <1>4, <1>5, SetTail
<1>7. Fills(x)
  BY <1>1, <1>5, <1>6 DEF Fills
<1>8. Moves("producer", "advanceBlock") /\ "producer" \in Thread /\ pc'["producer"] = "advanceBlock"
      /\ pc'["consumer"] = pc["consumer"]
  BY <1>2, <1>4 DEF Moves, Thread
<1>9. Linked' = Linked /\ Linked = Blocks /\ Pending' = {x} /\ Pending = {}
  <2>1. block'[tailBlock'].next = x
    BY <1>1, <1>2, <1>4, <1>6 DEF SameNext
  <2> QED
    BY <1>4, <1>6, <1>8, <2>1 DEF Linked, Pending, At
<1>10. InUse' = InUse
  <2>1. \A b \in Blocks \ {x} : Empty(b)' <=> Empty(b)
    BY <1>6 DEF Empty, SameFront
  <2>3. InUse' = {frontBlock} \cup ({b \in Blocks : ~Empty(b)'} \ {x})
    BY <1>4, <1>6, <1>9 DEF InUse
  <2>4. InUse = {frontBlock} \cup {b \in Blocks : ~Empty(b)}
    BY <1>9 DEF InUse
  <2> QED
    BY <1>2, <1>5, <2>1, <2>3, <2>4
<1>11. \A W \in SUBSET Blocks :
          /\ Amount(block, W) \in Nat /\ Amount(block', W) \in Nat
          /\ Amount(block', W) = IF x \in W THEN Amount(block, W) + 1 ELSE Amount(block, W)
  BY <1>2, <1>6, <1>7, OneMore
<1>12. Total'
  <2>1. Amount(block', Linked') = Amount(block, Linked) + 1 /\ Amount(block, Linked) \in Nat
    BY <1>2, <1>9, <1>11
  <2>2. Amount(block, Linked) = sent - taken + 0
    BY <1>3, <1>4 DEF Total, Live, At
  <2>3. sent \in Nat /\ taken \in Nat
    BY NumbersNow DEF InStep
  <2>4. Amount(block', Linked') = sent' - taken' + 1
    BY <1>4, <2>1, <2>2, <2>3, SMT
  <2> QED
    BY <1>8, <2>4 DEF Total, Live, At
<1>13. LengthAtCall'
  BY <1>3, <1>8, LengthKept
<1>14. Full'
  <2>1. \A b \in InUse : FullBlock(b) => FullBlock(b)'
    BY <1>2, <1>5, <1>6, FullBlockKept DEF SameFront, SameSize
  <2>2. Overflows
    BY <1>4 DEF Overflows
  <2>3. tailBlock # frontBlock => FullBlock(tailBlock)'
    BY <1>2, <1>3, <1>4, <2>1, <2>2 DEF Full
  <2>4. \A b \in InUse \ {frontBlock, tailBlock} : FullBlock(b) => FullBlock(b)'
    BY <2>1
  <2> QED
    BY <1>3, <1>4, <1>10, <2>3, <2>4, FullKept
<1>15. Reserved'
  BY <1>3, <1>4, <1>6, <1>9, ReservedKept
<1>16. Refusals'
  <2>1. block'[tailBlock].size = block[tailBlock].size
    BY <1>2, <1>6 DEF SameSize
  <2> QED
    BY <1>3, <1>4, <1>8, <2>1, RefusalsKept
<1>17. ProducerTally'
  BY <1>8, Zenon DEF ProducerTally, Counting
<1>18. ConsumerTally'
  <2>1. lenAtCall \in [Thread -> Nat] /\ lenAtCall'["consumer"] = lenAtCall["consumer"]
    BY <1>3, <1>4 DEF LengthAtCall, Thread
  <2>2. \A W \in SUBSET Blocks : /\ Amount(block, W) \in Nat /\ Amount(block', W) \in Nat
                                 /\ Amount(block, W) <= Amount(block', W)
    <3>1. \A p \in Nat : p <= p /\ p <= p + 1
      BY SMT
    <3> QED
      BY <1>11, <3>1
  <2>3. walk'["consumer"] = walk["consumer"]
    BY <1>4
  <2> QED
    BY <1>3, <1>6, <1>8, <1>9, <2>1, <2>2, <2>3, ConsumerTallyKept
<1> QED
  BY <1>12, <1>13, <1>14, <1>15, <1>16, <1>17, <1>18 DEF RInv

(* The next block becomes the tail block. *)
LEMMA AdvanceBlockCounts ==
    ASSUME IInv, IInv', RInv, conf' = conf, AdvanceBlock
    PROVE  RInv'
<1>1. PICK x, n, y : x = tailBlock /\ n = block[x].next /\ y = frontBlock
  OBVIOUS
<1>2. /\ BlocksTyped /\ n \in Blocks /\ x \in InUse /\ y \in InUse
      /\ Linked \subseteq Blocks /\ InUse \subseteq Linked /\ BlocksTyped'
      /\ pc \in [Thread -> Label]
  BY <1>1, RingFacts, TypeFacts DEF IInv, Types
<1>3. Total /\ LengthAtCall /\ Full /\ Reserved /\ Refusals /\ ProducerTally /\ ConsumerTally
  BY DEF RInv
<1>4. /\ pc["producer"] = "advanceBlock" /\ pc' = [pc EXCEPT !["producer"] = "idle"]
      /\ tailBlock' = n /\ sent' = sent + 1 /\ lenAtCall' = [lenAtCall EXCEPT !["producer"] = 0]
      /\ UNCHANGED <<block, frontBlock, largestBlockSize, taken, walk>>
  BY <1>1 DEF AdvanceBlock, Return, Goto, At, consumerRegs
<1>5. n # y /\ n \notin InUse /\ ~Empty(n)
  <2>1. n # y /\ n \notin InUse /\ Advance(block[n].front, n) = block[n].tail
    BY <1>1, <1>4 DEF IInv, ProducerAt, NextIsFree, NextOfTail, At
  <2>2. PICK s, f : s = block[n].size /\ f = block[n].front
    OBVIOUS
  <2>3. s \in Nat /\ s >= 2 /\ f \in 0..(s - 1) /\ block[n].tail = Round(f, s)
    BY <1>2, <2>1, <2>2, BlockFacts, InTheseTerms
  <2>4. Round(f, s) # f
    BY <2>3, SMT DEF Round
  <2> QED
    BY <2>1, <2>2, <2>3, <2>4 DEF Empty
<1>6. /\ Len(block') = Len(block) /\ Blocks' = Blocks
      /\ SameFront /\ SameTail /\ SameNext /\ SameSize
  BY <1>2, <1>4, Untouched
<1>7. Moves("producer", "idle") /\ "producer" \in Thread /\ pc'["producer"] = "idle"
      /\ pc'["consumer"] = pc["consumer"]
  BY <1>2, <1>4 DEF Moves, Thread
<1>8. Linked' = Linked /\ Pending' = {} /\ Pending = {n}
  BY <1>1, <1>4, <1>6, <1>7 DEF Linked, Pending, At
<1>9. InUse' = InUse \cup {n}
  <2>1. \A b \in Blocks : Empty(b)' <=> Empty(b)
    BY <1>6, EmptyKept
  <2>2. InUse' = {y} \cup {b \in Blocks : ~Empty(b)'}
    BY <1>1, <1>4, <1>6, <1>8 DEF InUse
  <2>3. InUse = {y} \cup ({b \in Blocks : ~Empty(b)} \ {n})
    BY <1>1, <1>8 DEF InUse
  <2> QED
    BY <1>2, <1>5, <2>1, <2>2, <2>3
<1>10. \A W \in SUBSET Blocks : /\ Amount(block, W) \in Nat /\ Amount(block', W) \in Nat
                                /\ Amount(block, W) <= Amount(block', W)
  <2> SUFFICES ASSUME NEW W \in SUBSET Blocks PROVE Amount(block, W) \in Nat
    BY <1>4, SMT
  <2> QED
    BY <1>2, <1>6, SoundBefore, SomeBlocks
<1>11. Total'
  <2>1. Amount(block', Linked') = Amount(block, Linked)
    BY <1>4, <1>8
  <2>2. Amount(block, Linked) = sent - taken + 1
    BY <1>3, <1>4 DEF Total, Live, At
  <2>3. sent \in Nat /\ taken \in Nat
    BY NumbersNow DEF InStep
  <2>4. Amount(block', Linked') = sent' - taken' + 0
    BY <1>4, <2>1, <2>2, <2>3, SMT
  <2> QED
    BY <1>7, <2>4 DEF Total, Live, At
<1>12. LengthAtCall'
  BY <1>3, <1>7, LengthKept
<1>13. Full'
  <2>1. \A b \in Blocks : FullBlock(b)' <=> FullBlock(b)
    BY <1>6, FullBlockKept DEF SameFront, SameTail, SameSize
  <2>2. x # y => FullBlock(x)
    BY <1>1, <1>3, <1>4 DEF Full, Overflows
  <2>3. \A b \in InUse \ {y} : FullBlock(b)
    BY <1>1, <1>3, <2>2 DEF Full
  <2>4. \A b \in InUse' \ {frontBlock', tailBlock'} : FullBlock(b)'
    BY <1>1, <1>2, <1>4, <1>9, <2>1, <2>3
  <2>5. ~Overflows'
    BY <1>7 DEF Overflows
  <2> QED
    BY <2>4, <2>5, Zenon DEF Full
<1>14. Reserved'
  BY <1>3, <1>4, <1>6, <1>8, ReservedKept
<1>15. Refusals'
  <2>1. block'[tailBlock].size = block[tailBlock].size /\ frontBlock' # tailBlock'
    BY <1>1, <1>4, <1>5
  <2> QED
    BY <1>3, <1>7, <2>1, RefusalsKept
<1>16. ProducerTally'
  BY <1>7, Zenon DEF ProducerTally, Counting
<1>17. ConsumerTally'
  <2>1. lenAtCall \in [Thread -> Nat] /\ lenAtCall'["consumer"] = lenAtCall["consumer"]
    BY <1>3, <1>4 DEF LengthAtCall, Thread
  <2>2. walk'["consumer"] = walk["consumer"]
    BY <1>4
  <2> QED
    BY <1>3, <1>6, <1>7, <1>8, <1>10, <2>1, <2>2, ConsumerTallyKept
<1> QED
  BY <1>11, <1>12, <1>13, <1>14, <1>15, <1>16, <1>17 DEF RInv

(* A block is made, not smaller than the first ones.                        *)
LEMMA MakeBlockCounts ==
    ASSUME IInv, IInv', RInv, conf' = conf, MakeBlock
    PROVE  RInv'
<1>1. PICK k, r : k = Len(block) + 1 /\ r = Fresh(NewBlockSize, block[tailBlock].next, sent + 1)
  OBVIOUS
<1>2. /\ BlocksTyped /\ tailBlock \in InUse /\ frontBlock \in InUse /\ block[tailBlock].next \in Nat
      /\ Linked \subseteq Blocks /\ InUse \subseteq Linked /\ sent + 1 \in Nat
      /\ pc \in [Thread -> Label] /\ largestBlockSize \in Nat /\ largestBlockSize >= 2
      /\ conf \in Configurations
  BY RingFacts, TypeFacts, BlockFacts DEF IInv
<1>3. Total /\ LengthAtCall /\ Full /\ Reserved /\ Refusals /\ ProducerTally /\ ConsumerTally
  BY DEF RInv
<1>4. /\ pc["producer"] = "makeBlock" /\ pc' = [pc EXCEPT !["producer"] = "link"]
      /\ block' = Append(block, r) /\ largestBlockSize' = NewBlockSize
      /\ UNCHANGED <<lenAtCall, frontBlock, tailBlock, sent, taken, walk>>
  BY <1>1 DEF MakeBlock, Step, Goto, At, consumerRegs, Fresh
<1>5. NewBlockSize \in Nat /\ NewBlockSize >= 2 /\ NewBlockSize >= largestBlockSize
  BY <1>2, SMT DEF NewBlockSize
<1>6. r \in BlockRec /\ r.size = NewBlockSize
  <2>1. PICK s, n, v : s = NewBlockSize /\ n = block[tailBlock].next /\ v = sent + 1
    OBVIOUS
  <2>2. s \in Nat /\ s >= 2 /\ n \in Nat /\ v \in Nat /\ r = Fresh(s, n, v)
    BY <1>1, <1>2, <1>5, <2>1
  <2>3. r \in BlockRec /\ r.size = s
    BY <2>2, BlockMade
  <2> QED
    BY <2>1, <2>3
<1>7. /\ Len(block') = k /\ block'[k] = r
      /\ \A b \in Blocks : block'[b] = block[b]
      /\ Blocks' = Blocks \cup {k} /\ k \notin Blocks
  <2>1. block \in Seq(BlockRec) /\ Len(block) \in Nat
    BY <1>2, LenProperties DEF BlocksTyped
  <2>2. Len(block') = k /\ block'[k] = r /\ \A b \in 1..Len(block) : block'[b] = block[b]
    BY <1>1, <1>4, <1>6, <2>1, AppendProperties
  <2>3. Blocks = 1..Len(block) /\ Blocks' = 1..k
    BY <2>2 DEF Blocks
  <2>4. 1..k = (1..Len(block)) \cup {k} /\ k \notin 1..Len(block)
    BY <1>1, <2>1
  <2> QED
    BY <2>2, <2>3, <2>4
<1>8. SameFront /\ SameTail /\ SameNext /\ SameSize
  BY <1>7 DEF SameFront, SameTail, SameNext, SameSize
<1>9. Moves("producer", "link") /\ "producer" \in Thread /\ pc'["producer"] = "link"
      /\ pc'["consumer"] = pc["consumer"]
  BY <1>2, <1>4 DEF Moves, Thread
<1>10. Linked' = Linked /\ Linked = Blocks /\ Pending' = {k} /\ Pending = {}
  <2>1. Linked' = Blocks' \ {k} /\ Linked = Blocks /\ Pending' = {k} /\ Pending = {}
    BY <1>4, <1>7, <1>9 DEF Linked, Pending, At
  <2> QED
    BY <1>7, <2>1
<1>11. InUse' = InUse
  <2>1. \A b \in Blocks : Empty(b)' <=> Empty(b)
    BY <1>8, EmptyKept
  <2>2. InUse' = {frontBlock} \cup ({b \in Blocks' : ~Empty(b)'} \ {k})
    BY <1>4, <1>10 DEF InUse
  <2>3. InUse = {frontBlock} \cup {b \in Blocks : ~Empty(b)}
    BY <1>10 DEF InUse
  <2> QED
    BY <1>7, <2>1, <2>2, <2>3
<1>12. \A W \in SUBSET Blocks : /\ Amount(block, W) \in Nat /\ Amount(block', W) \in Nat
                                /\ Amount(block, W) <= Amount(block', W) /\ Amount(block', W) = Amount(block, W)
  <2> SUFFICES ASSUME NEW W \in SUBSET Blocks
               PROVE  /\ Amount(block, W) \in Nat /\ Amount(block', W) \in Nat
                      /\ Amount(block, W) <= Amount(block', W) /\ Amount(block', W) = Amount(block, W)
    OBVIOUS
  <2>1. Amount(block, W) \in Nat
    <3>1. Sound(block, W)
      BY <1>2, SoundBlocks DEF AllSound
    <3> QED
      BY <3>1, SomeBlocks
  <2>2. Amount(block', W) = Amount(block, W)
    BY <1>8, SameAmounts
  <2> QED
    BY <2>1, <2>2, SMT
<1>13. Total'
  <2>1. Amount(block', Linked') = Amount(block, Linked)
    BY <1>2, <1>10, <1>12
  <2> QED
    BY <1>3, <1>4, <1>9, <2>1 DEF Total, Live, At
<1>14. LengthAtCall'
  BY <1>3, <1>9, LengthKept
<1>15. Full'
  <2>1. \A b \in InUse : FullBlock(b) => FullBlock(b)'
    BY <1>2, <1>8, FullBlockKept DEF SameFront, SameTail, SameSize
  <2>2. Overflows
    BY <1>4 DEF Overflows
  <2>3. tailBlock # frontBlock => FullBlock(tailBlock)'
    BY <1>2, <1>3, <1>4, <2>1, <2>2 DEF Full
  <2>4. \A b \in InUse \ {frontBlock, tailBlock} : FullBlock(b) => FullBlock(b)'
    BY <2>1
  <2> QED
    BY <1>3, <1>4, <1>11, <2>3, <2>4, FullKept
<1>16. Reserved'
  <2>1. InitialBlockSize' = InitialBlockSize /\ InitialBlockCount' = InitialBlockCount /\ InitialBlockSize \in Nat
    BY <1>2, ConfKept, Sizes
  <2>2. NewBlockSize >= InitialBlockSize
    <3>1. largestBlockSize >= InitialBlockSize
      BY <1>3 DEF Reserved
    <3> QED
      BY <1>2, <1>5, <2>1, <3>1, SMT
  <2>3. \A b \in Blocks' : block'[b].size >= InitialBlockSize
    BY <1>3, <1>6, <1>7, <2>2 DEF Reserved
  <2>4. 1..InitialBlockCount \subseteq Linked'
    BY <1>3, <1>10 DEF Reserved
  <2>5. largestBlockSize' >= InitialBlockSize
    BY <1>4, <2>2
  <2> QED
    BY <2>1, <2>3, <2>4, <2>5, Zenon DEF Reserved
<1>17. Refusals'
  <2>1. block'[tailBlock].size = block[tailBlock].size
    BY <1>2, <1>8 DEF SameSize
  <2> QED
    BY <1>3, <1>4, <1>9, <2>1, RefusalsKept
<1>18. ProducerTally'
  BY <1>9, Zenon DEF ProducerTally, Counting
<1>19. ConsumerTally'
  <2>1. lenAtCall \in [Thread -> Nat] /\ lenAtCall'["consumer"] = lenAtCall["consumer"]
    BY <1>3, <1>4 DEF LengthAtCall, Thread
  <2>2. walk'["consumer"] = walk["consumer"]
    BY <1>4
  <2> QED
    BY <1>3, <1>8, <1>9, <1>10, <1>12, <2>1, <2>2, ConsumerTallyKept
<1> QED
  BY <1>13, <1>14, <1>15, <1>16, <1>17, <1>18, <1>19 DEF RInv

(* A stretch of a ring, by the next pointers: what Stretch says of it.       *)
Path(f, D, a, s) ==
    /\ a \in D /\ s \in D
    /\ \A b \in D \ {a} : f[b].next \in D \ {s}
    /\ \A b \in D \ {s} : \E c \in D \ {a} : f[c].next = b

(* A block that is linked in after one that was passed belongs to the stretch. *)
LEMMA PathGrows ==
    ASSUME NEW f, NEW g, NEW D, NEW a, NEW s, Path(f, D, a, s), NEW x, NEW k, x \in D \ {a}, k \notin D,
           g[x].next = k, g[k].next = f[x].next, \A b \in D \ {x} : g[b].next = f[b].next
    PROVE  Path(g, D \cup {k}, a, s)
<1> DEFINE E == D \cup {k}
<1>1. /\ a \in D /\ s \in D
      /\ \A b \in D \ {a} : f[b].next \in D \ {s}
      /\ \A b \in D \ {s} : \E c \in D \ {a} : f[c].next = b
  BY DEF Path
<1>2. ASSUME NEW b \in E \ {a} PROVE g[b].next \in E \ {s}
  <2>1. CASE b = x
    BY <1>1, <2>1
  <2>2. CASE b = k
    BY <1>1, <2>2
  <2>3. CASE b # x /\ b # k
    BY <1>1, <2>3
  <2> QED
    BY <2>1, <2>2, <2>3
<1>3. ASSUME NEW b \in E \ {s} PROVE \E c \in E \ {a} : g[c].next = b
  <2>1. CASE b = k
    BY <2>1
  <2>2. CASE b # k
    <3>1. PICK c \in D \ {a} : f[c].next = b
      BY <1>1, <2>2
    <3>2. CASE c = x
      <4>1. g[k].next = b /\ k \in E \ {a}
        BY <1>1, <3>1, <3>2
      <4> QED
        BY <4>1
    <3>3. CASE c # x
      BY <3>1, <3>3
    <3> QED
      BY <3>2, <3>3
  <2> QED
    BY <2>1, <2>2
<1>4. a \in E /\ s \in E
  BY <1>1
<1> QED
  BY <1>2, <1>3, <1>4 DEF Path

(* One that is linked in elsewhere does not.                                 *)
LEMMA PathStays ==
    ASSUME NEW f, NEW g, NEW D, NEW a, NEW s, Path(f, D, a, s), \A b \in D \ {a} : g[b].next = f[b].next
    PROVE  Path(g, D, a, s)
BY DEF Path

(* The stretch, in these terms. *)
LEMMA StretchIs ==
    ASSUME NEW t, NEW V
    PROVE  Stretch(t, V) <=>
              /\ V \subseteq Linked /\ walk[t].at \in Linked
              /\ (pc[t] = "sizeNext" <=> walk[t].at \in V)
              /\ Path(block, V \cup {walk[t].at}, walk[t].at, walk[t].start)
BY DEF Stretch, Path, At

(* ... in the next state.                                                    *)
LEMMA StretchNext ==
    ASSUME NEW t, NEW V,
           V \subseteq Linked', walk'[t].at \in Linked', pc'[t] = "sizeNext" <=> walk'[t].at \in V,
           Path(block', V \cup {walk'[t].at}, walk'[t].at, walk'[t].start)
    PROVE  Stretch(t, V)'
<1> DEFINE a == walk'[t].at
<1> DEFINE s == walk'[t].start
<1> DEFINE D == V \cup {a}
<1>1. /\ s \in D
      /\ \A b \in D \ {a} : block'[b].next \in D \ {s}
      /\ \A b \in D \ {s} : \E c \in D \ {a} : block'[c].next = b
  BY DEF Path
<1> QED
  BY <1>1, Zenon DEF Stretch, At

-----------------------------------------------------------------------------
(* Each action keeps the invariant of the counts: the consumer *)

(* The call begins. *)
LEMMA DequeueBeginCounts ==
    ASSUME IInv, IInv', RInv, conf' = conf, NEW o \in {"dequeue", "peek"}, DequeueBegin(o)
    PROVE  RInv'
<1> DEFINE l == IF block[frontBlock].front # block[frontBlock].localTail THEN "read" ELSE "loadTail"
<1>1. /\ pc["consumer"] = "idle" /\ pc' = [pc EXCEPT !["consumer"] = l]
      /\ lenAtCall' = [lenAtCall EXCEPT !["consumer"] = sent - taken]
      /\ UNCHANGED <<block, frontBlock, tailBlock, largestBlockSize, sent, taken, walk>>
  BY DEF DequeueBegin, Begin, Goto, At, producerRegs
<1>2. /\ Len(block') = Len(block) /\ Blocks' = Blocks
      /\ SameFront /\ SameTail /\ SameNext /\ SameSize
  BY <1>1, RingFacts, Untouched
<1>3. l \in {"read", "loadTail"} /\ "consumer" \in Thread
  BY DEF Thread
<1> HIDE DEF l
<1>4. Moves("consumer", l)
  BY <1>1, <1>3 DEF Moves
<1> QED
  BY <1>1, <1>2, <1>3, <1>4, CallGoesOn

(* The consumer has loaded the tail of the front block.                      *)
LEMMA RefreshCounts ==
    ASSUME IInv, IInv', RInv, conf' = conf, NEW from, NEW otherwise,
           (from = "loadTail" /\ otherwise = "loadTailBlock") \/ (from = "recheck" /\ otherwise = "loadNext"),
           RefreshLocalTail(from, otherwise)
    PROVE  RInv'
<1>1. PICK y : y = frontBlock
  OBVIOUS
<1> DEFINE l == IF block[y].front # block[y].tail THEN "read" ELSE otherwise
<1>2. BlocksTyped /\ y \in Blocks
  BY <1>1, RingFacts DEF IInv
<1>3. /\ pc["consumer"] = from /\ pc' = [pc EXCEPT !["consumer"] = l]
      /\ block' = [block EXCEPT ![y].localTail = block[y].tail]
      /\ UNCHANGED <<lenAtCall, frontBlock, tailBlock, largestBlockSize, sent, taken, walk>>
  BY <1>1 DEF RefreshLocalTail, Step, Goto, At, producerRegs, consumerRegs
<1>4. l \in {"read", "loadTailBlock", "loadNext"} /\ "consumer" \in Thread
      /\ (l = "loadTailBlock" => block[y].front = block[y].tail) /\ from \in {"loadTail", "recheck"}
  BY DEF Thread
<1> HIDE DEF l
<1>5. /\ Len(block') = Len(block) /\ Blocks' = Blocks
      /\ SameFront /\ SameTail /\ SameNext /\ SameSize
  <2>1. block[y].tail \in 0..(block[y].size - 1)
    BY <1>2, BlockFacts
  <2>2. PICK v : v = block[y].tail
    OBVIOUS
  <2> QED
    BY <1>2, <1>3, <2>1, <2>2, SetLocalTail
<1>6. l = "loadTailBlock" => frontBlock # tailBlock \/ lenAtCall["consumer"] = 0
  <2> SUFFICES ASSUME l = "loadTailBlock", y = tailBlock PROVE lenAtCall["consumer"] = 0
    BY <1>1
  <2>1. Empty(tailBlock)
    BY <1>4 DEF Empty
  <2>2. sent = taken
    BY <2>1 DEF IInv, Chain
  <2>3. lenAtCall["consumer"] \in Nat /\ lenAtCall["consumer"] <= sent - taken
    BY <1>3, <1>4 DEF RInv, LengthAtCall, At, Thread
  <2>4. sent \in Nat
    BY NumbersNow DEF InStep
  <2>5. PICK L \in Nat : L = lenAtCall["consumer"] /\ L <= sent - sent
    BY <2>2, <2>3
  <2> QED
    BY <2>4, <2>5, SMT
<1>7. Moves("consumer", l)
  BY <1>3, <1>4 DEF Moves
<1> QED
  BY <1>3, <1>4, <1>5, <1>6, <1>7, CallGoesOn

(* The consumer has looked where the tail block is.                          *)
LEMMA LoadTailBlockCounts ==
    ASSUME IInv, IInv', RInv, conf' = conf, LoadTailBlock
    PROVE  RInv'
<1>1. PICK l \in {"recheck", "idle"} :
          /\ pc["consumer"] = "loadTailBlock" /\ pc' = [pc EXCEPT !["consumer"] = l]
          /\ IF l = "idle" THEN lenAtCall' = [lenAtCall EXCEPT !["consumer"] = 0] ELSE lenAtCall' = lenAtCall
  BY DEF LoadTailBlock, Step, Return, Goto, At
<1>2. UNCHANGED <<block, frontBlock, tailBlock, largestBlockSize, sent, taken, walk>>
  BY DEF LoadTailBlock, consumerRegs, producerRegs
<1>3. /\ Len(block') = Len(block) /\ Blocks' = Blocks
      /\ SameFront /\ SameTail /\ SameNext /\ SameSize
  BY <1>2, RingFacts, Untouched
<1>4. Moves("consumer", l) /\ "consumer" \in Thread
  BY <1>1, <1>2 DEF Moves, Thread
<1> QED
  BY <1>1, <1>2, <1>3, <1>4, CallGoesOn

(* The consumer has loaded the block after the front block.                  *)
LEMMA LoadNextCounts ==
    ASSUME IInv, IInv', RInv, conf' = conf, LoadNext
    PROVE  RInv'
<1>1. /\ pc["consumer"] = "loadNext" /\ pc' = [pc EXCEPT !["consumer"] = "loadNextTail"]
      /\ UNCHANGED <<lenAtCall, block, frontBlock, tailBlock, largestBlockSize, sent, taken, walk>>
  BY DEF LoadNext, Step, Goto, At, producerRegs
<1>2. /\ Len(block') = Len(block) /\ Blocks' = Blocks
      /\ SameFront /\ SameTail /\ SameNext /\ SameSize
  BY <1>1, RingFacts, Untouched
<1>3. Moves("consumer", "loadNextTail") /\ "consumer" \in Thread
  BY <1>1 DEF Moves, Thread
<1> QED
  BY <1>1, <1>2, <1>3, CallGoesOn

(* ... and the tail of that block. *)
LEMMA LoadNextTailCounts ==
    ASSUME IInv, IInv', RInv, conf' = conf, LoadNextTail
    PROVE  RInv'
<1>1. PICK z, v : z = readBlock /\ v = block[z].tail
  OBVIOUS
<1>2. BlocksTyped /\ z \in Blocks /\ v \in 0..(block[z].size - 1)
  BY <1>1, RingFacts, BlockFacts DEF IInv, ConsumerAt
<1>3. PICK l \in {"read", "moveFront"} :
          /\ pc["consumer"] = "loadNextTail" /\ pc' = [pc EXCEPT !["consumer"] = l]
          /\ block' = block \/ block' = [block EXCEPT ![z].localTail = v]
  BY <1>1 DEF LoadNextTail, Step, Goto, At
<1>4. UNCHANGED <<lenAtCall, frontBlock, tailBlock, largestBlockSize, sent, taken, walk>>
  BY DEF LoadNextTail, Step, consumerRegs, producerRegs
<1>5. /\ Len(block') = Len(block) /\ Blocks' = Blocks
      /\ SameFront /\ SameTail /\ SameNext /\ SameSize
  <2>1. CASE block' = block
    BY <1>2, <2>1, Untouched
  <2>2. CASE block' = [block EXCEPT ![z].localTail = v]
    BY <1>2, <2>2, SetLocalTail
  <2> QED
    BY <1>3, <2>1, <2>2
<1>6. Moves("consumer", l) /\ "consumer" \in Thread
  BY <1>3, <1>4 DEF Moves, Thread
<1> QED
  BY <1>3, <1>4, <1>5, <1>6, CallGoesOn

(* The element is looked at, and the call returns. *)
LEMMA ReadPeekedCounts ==
    ASSUME IInv, IInv', RInv, conf' = conf, ReadPeeked
    PROVE  RInv'
<1>1. /\ pc["consumer"] = "read" /\ pc' = [pc EXCEPT !["consumer"] = "idle"]
      /\ lenAtCall' = [lenAtCall EXCEPT !["consumer"] = 0]
      /\ UNCHANGED <<block, frontBlock, tailBlock, largestBlockSize, sent, taken, walk>>
  BY DEF ReadPeeked, Return, Goto, At, consumerRegs, producerRegs
<1>2. /\ Len(block') = Len(block) /\ Blocks' = Blocks
      /\ SameFront /\ SameTail /\ SameNext /\ SameSize
  BY <1>1, RingFacts, Untouched
<1>3. Moves("consumer", "idle") /\ "consumer" \in Thread
  BY <1>1 DEF Moves, Thread
<1> QED
  BY <1>1, <1>2, <1>3, CallGoesOn

(* The element is moved out. *)
LEMMA ReadCounts ==
    ASSUME IInv, IInv', RInv, conf' = conf, Read
    PROVE  RInv'
<1>1. PICK z, i : z = readBlock /\ i = block[z].front
  OBVIOUS
<1>2. /\ pc["consumer"] = "read" /\ pc' = [pc EXCEPT !["consumer"] = "release"]
      /\ Stored(z, i, Raw)
      /\ UNCHANGED <<lenAtCall, frontBlock, tailBlock, largestBlockSize, sent, taken, walk>>
  BY <1>1 DEF Read, Step, Goto, At, consumerRegs, producerRegs, Stored
<1>3. BlocksTyped /\ z \in Blocks /\ i \in 0..(block[z].size - 1) /\ Raw \in Nat
  BY <1>1, RingFacts, BlockFacts DEF IInv, ConsumerAt, Raw
<1>4. /\ Len(block') = Len(block) /\ Blocks' = Blocks
      /\ SameFront /\ SameTail /\ SameNext /\ SameSize
  BY <1>2, <1>3, SetData
<1>5. Moves("consumer", "release") /\ "consumer" \in Thread
  BY <1>2 DEF Moves, Thread
<1> QED
  BY <1>2, <1>4, <1>5, CallGoesOn

(* The new block is linked in after the tail block. *)
LEMMA LinkCounts ==
    ASSUME IInv, IInv', RInv, conf' = conf, Link
    PROVE  RInv'
<1>1. PICK x, k, n : x = tailBlock /\ k = Len(block) /\ n = block[x].next
  OBVIOUS
<1>2. /\ BlocksTyped /\ BlocksTyped' /\ n \in Linked /\ Linked \subseteq Blocks /\ x \in Blocks /\ k \in Blocks
      /\ InUse \subseteq Linked /\ x \in InUse /\ pc \in [Thread -> Label] /\ walk \in [Thread -> WalkRec]
  BY <1>1, TypeFacts, RingFacts, LinkedBlocks DEF IInv, Types
<1>3. Total /\ LengthAtCall /\ Full /\ Reserved /\ Refusals /\ ProducerTally /\ ConsumerTally
  BY DEF RInv
<1>4. /\ pc["producer"] = "link" /\ pc' = [pc EXCEPT !["producer"] = "advanceBlock"]
      /\ block' = [block EXCEPT ![x].next = k]
      /\ UNCHANGED <<lenAtCall, frontBlock, tailBlock, largestBlockSize, sent, taken, walk>>
  BY <1>1 DEF Link, Step, Goto, At, consumerRegs, producerRegs
<1>5. /\ Len(block') = Len(block) /\ Blocks' = Blocks
      /\ SameFront /\ SameTail /\ SameSize
      /\ \A b \in Blocks : block'[b].next = IF b = x THEN k ELSE block[b].next
  BY <1>2, <1>4, SetNext
<1>6. Moves("producer", "advanceBlock") /\ "producer" \in Thread /\ pc'["producer"] = "advanceBlock"
      /\ pc'["consumer"] = pc["consumer"] /\ "consumer" \in Thread
  BY <1>2, <1>4 DEF Moves, Thread
<1>7. block'[tailBlock'].next = k
  BY <1>1, <1>2, <1>4, <1>5
<1>8. Linked = Blocks \ {k} /\ Linked' = Blocks /\ Pending' = {k} /\ Pending = {k}
  BY <1>1, <1>4, <1>5, <1>6, <1>7 DEF Linked, Pending, At
<1>9. InUse' = InUse
  BY <1>4, <1>5, <1>8, EmptyKept, InUseKept
<1>10. block[k].next = n /\ block[k].front = 0 /\ block[k].tail = 1
  BY <1>1, <1>4 DEF IInv, ProducerAt, At
<1>11. k \notin Linked /\ x \in Linked /\ k # x /\ Linked' = Linked \cup {k}
  BY <1>2, <1>8
<1>12. \A W \in SUBSET Blocks : Amount(block', W) = Amount(block, W) /\ Amount(block, W) \in Nat
  <2> SUFFICES ASSUME NEW W \in SUBSET Blocks
               PROVE  Amount(block', W) = Amount(block, W) /\ Amount(block, W) \in Nat
    OBVIOUS
  <2>1. Amount(block, W) \in Nat
    BY <1>2, <1>5, SoundBefore, SomeBlocks
  <2> QED
    BY <1>5, <2>1, SameAmounts
<1>13. Amount(block, {k}) = 1
  <2>1. Sound(block, {k})
    BY <1>2, SoundBlocks DEF AllSound
  <2>2. Amount(block, {k}) = (block[k].tail - block[k].front) % block[k].size
    BY <2>1, OneBlock
  <2>3. PICK s : s = block[k].size
    OBVIOUS
  <2>4. s \in Nat /\ s >= 2 /\ Amount(block, {k}) = (1 - 0) % s
    BY <1>2, <1>10, <2>2, <2>3, BlockFacts
  <2>5. (1 - 0) % s = 1
    BY <2>4, SMT
  <2> QED
    BY <2>4, <2>5
<1>14. \A W \in SUBSET Linked : Amount(block, W \cup {k}) = Amount(block, W) + 1
  <2> SUFFICES ASSUME NEW W \in SUBSET Linked PROVE Amount(block, W \cup {k}) = Amount(block, W) + 1
    OBVIOUS
  <2>1. Sound(block, W) /\ Sound(block, {k}) /\ W \cap {k} = {}
    BY <1>2, <1>11, SoundBlocks DEF AllSound
  <2> QED
    BY <1>13, <2>1, Apart
<1>15. Total'
  <2>1. Amount(block', Linked') = Amount(block, Linked) + 1
    BY <1>2, <1>11, <1>12, <1>14
  <2>2. Amount(block, Linked) = sent - taken + 0
    BY <1>3, <1>4 DEF Total, Live, At
  <2>3. sent \in Nat /\ taken \in Nat
    BY NumbersNow DEF InStep
  <2>4. Amount(block', Linked') = sent' - taken' + 1
    BY <1>4, <2>1, <2>2, <2>3, SMT
  <2> QED
    BY <1>6, <2>4 DEF Total, Live, At
<1>16. LengthAtCall'
  BY <1>3, <1>6, LengthKept
<1>17. Full'
  <2>1. \A b \in Blocks : FullBlock(b)' <=> FullBlock(b)
    BY <1>5, FullBlockKept DEF SameFront, SameTail, SameSize
  <2>2. Overflows
    BY <1>4 DEF Overflows
  <2>3. tailBlock # frontBlock => FullBlock(tailBlock)'
    <3>1. tailBlock # frontBlock => FullBlock(x)'
      BY <1>1, <1>2, <1>3, <2>1, <2>2 DEF Full
    <3>2. tailBlock' = x
      BY <1>1, <1>4
    <3> QED
      BY <1>1, <1>4, <3>1, <3>2, Zenon DEF FullBlock, Advance
  <2>4. \A b \in InUse \ {frontBlock, tailBlock} : FullBlock(b) => FullBlock(b)'
    BY <1>2, <2>1
  <2> QED
    BY <1>3, <1>4, <1>9, <2>3, <2>4, FullKept
<1>18. Reserved'
  BY <1>3, <1>4, <1>5, <1>11, ReservedKept
<1>19. Refusals'
  <2>1. block'[tailBlock].size = block[tailBlock].size
    BY <1>1, <1>2, <1>5 DEF SameSize
  <2> QED
    BY <1>3, <1>4, <1>6, <2>1, RefusalsKept
<1>20. ProducerTally'
  BY <1>6, Zenon DEF ProducerTally, Counting
<1>21. ConsumerTally'
  <2> SUFFICES ASSUME Counting("consumer")'
               PROVE  \E V \in SUBSET Linked' : Stretch("consumer", V)' /\ SumOfConsumer(V)'
    BY Zenon DEF ConsumerTally, Stretch, SumOfConsumer, Live, At
  <2>1. Counting("consumer")
    BY <1>6 DEF Counting
  <2>2. PICK V \in SUBSET Linked : Stretch("consumer", V) /\ SumOfConsumer(V)
    BY <1>3, <2>1 DEF ConsumerTally
  <2>3. PICK w \in WalkRec, L \in Nat : w = walk["consumer"] /\ L = lenAtCall["consumer"]
                                        /\ w = walk'["consumer"] /\ L = lenAtCall'["consumer"]
    BY <1>2, <1>3, <1>4, <1>6 DEF LengthAtCall
  <2>4. w.at \in Linked /\ w.sum \in Int
        /\ (pc["consumer"] = "sizeNext" <=> w.at \in V) /\ Path(block, V \cup {w.at}, w.at, w.start)
    <3>1. w.sum \in Int
      BY DEF WalkRec
    <3> QED
      BY <2>2, <2>3, <3>1, StretchIs
  <2>5. /\ w.sum <= Amount(block, V) /\ L <= w.sum + Amount(block, Linked \ V)
        /\ pc["consumer"] = "sizeTail" => w.front = block[w.at].front
    BY <2>2, <2>3 DEF SumOfConsumer, Live, At
  <2>6. block'[w.at].front = block[w.at].front
    BY <1>2, <1>5, <2>4 DEF SameFront
  <2>7. k \notin V \cup {w.at}
    BY <1>11, <2>4
  <2>8. ASSUME NEW U \in SUBSET Linked', Path(block', U \cup {w.at}, w.at, w.start),
               w.at \in V <=> w.at \in U,
               w.sum <= Amount(block', U), L <= w.sum + Amount(block', Linked' \ U)
        PROVE  \E U2 \in SUBSET Linked' : Stretch("consumer", U2)' /\ SumOfConsumer(U2)'
    <3>1. Stretch("consumer", U)'
      BY <1>6, <1>11, <2>3, <2>4, <2>8, StretchNext
    <3>2. SumOfConsumer(U)'
      BY <1>6, <2>3, <2>5, <2>6, <2>8 DEF SumOfConsumer, Live, At
    <3> QED
      BY <2>8, <3>1, <3>2
  <2>9. Amount(block, V) \in Nat /\ Amount(block, Linked \ V) \in Nat
        /\ Amount(block', V) = Amount(block, V) /\ Amount(block', Linked \ V) = Amount(block, Linked \ V)
        /\ Amount(block', V \cup {k}) = Amount(block, V) + 1
        /\ Amount(block', (Linked \ V) \cup {k}) = Amount(block, Linked \ V) + 1
    <3>1. V \in SUBSET Blocks /\ Linked \ V \in SUBSET Blocks /\ Linked \ V \in SUBSET Linked
          /\ V \cup {k} \in SUBSET Blocks /\ (Linked \ V) \cup {k} \in SUBSET Blocks
      BY <1>2
    <3>2. Amount(block, V \cup {k}) = Amount(block, V) + 1
          /\ Amount(block, (Linked \ V) \cup {k}) = Amount(block, Linked \ V) + 1
      BY <1>14, <3>1
    <3> QED
      BY <1>12, <3>1, <3>2
  <2>10. CASE x \in V /\ x # w.at
    <3>1. \A b \in (V \cup {w.at}) \ {x} : block'[b].next = block[b].next
      BY <1>2, <1>5, <2>4
    <3>2. block'[x].next = k /\ block'[k].next = block[x].next
      BY <1>1, <1>2, <1>5, <1>10, <1>11
    <3>3. x \in (V \cup {w.at}) \ {w.at}
      BY <2>10
    <3>4. Path(block', (V \cup {w.at}) \cup {k}, w.at, w.start)
      BY <2>4, <2>7, <3>1, <3>2, <3>3, PathGrows
    <3>5. (V \cup {w.at}) \cup {k} = (V \cup {k}) \cup {w.at} /\ V \cup {k} \in SUBSET Linked'
          /\ (w.at \in V <=> w.at \in V \cup {k}) /\ Linked' \ (V \cup {k}) = Linked \ V
      BY <1>11, <2>7
    <3>6. w.sum <= Amount(block', V \cup {k}) /\ L <= w.sum + Amount(block', Linked' \ (V \cup {k}))
      <4>1. w.sum <= Amount(block, V) + 1
        BY <2>4, <2>5, <2>9, SMT
      <4> QED
        BY <2>5, <2>9, <3>5, <4>1
    <3> QED
      BY <2>8, <3>4, <3>5, <3>6
  <2>11. CASE ~(x \in V /\ x # w.at)
    <3>1. \A b \in (V \cup {w.at}) \ {w.at} : block'[b].next = block[b].next
      BY <1>2, <1>5, <2>11
    <3>2. Path(block', V \cup {w.at}, w.at, w.start)
      BY <2>4, <3>1, PathStays
    <3>3. V \in SUBSET Linked' /\ Linked' \ V = (Linked \ V) \cup {k}
      BY <1>11, <2>7
    <3>4. w.sum <= Amount(block', V) /\ L <= w.sum + Amount(block', Linked' \ V)
      <4>1. L <= w.sum + (Amount(block, Linked \ V) + 1)
        BY <2>4, <2>5, <2>9, SMT
      <4> QED
        BY <2>5, <2>9, <3>3, <4>1
    <3> QED
      BY <2>8, <3>2, <3>3, <3>4
  <2> QED
    BY <2>10, <2>11
<1> QED
  BY <1>15, <1>16, <1>17, <1>18, <1>19, <1>20, <1>21 DEF RInv

(* The next block becomes the front block. *)
LEMMA MoveFrontCounts ==
    ASSUME IInv, IInv', RInv, conf' = conf, MoveFront
    PROVE  RInv'
<1>1. PICK y, z : y = frontBlock /\ z = readBlock
  OBVIOUS
<1>2. /\ BlocksTyped /\ BlocksTyped' /\ Linked \subseteq Blocks /\ InUse \subseteq Linked
      /\ tailBlock \in Blocks /\ pc \in [Thread -> Label]
  BY RingFacts, TypeFacts DEF IInv, Types
<1>3. Total /\ LengthAtCall /\ Full /\ Reserved /\ Refusals /\ ProducerTally /\ ConsumerTally
  BY DEF RInv
<1>4. /\ pc["consumer"] = "moveFront" /\ pc' = [pc EXCEPT !["consumer"] = "read"] /\ frontBlock' = z
      /\ UNCHANGED <<lenAtCall, block, tailBlock, largestBlockSize, sent, taken, walk>>
  BY <1>1 DEF MoveFront, Step, Goto, At, producerRegs, consumerRegs
<1>5. FrontDone /\ z = block[y].next
  BY <1>1, <1>4 DEF IInv, ConsumerAt, At
<1>6. /\ Len(block') = Len(block) /\ Blocks' = Blocks
      /\ SameFront /\ SameTail /\ SameNext /\ SameSize
  BY <1>2, <1>4, Untouched
<1>7. Moves("consumer", "read") /\ "consumer" \in Thread /\ pc'["consumer"] = "read"
      /\ pc'["producer"] = pc["producer"]
  BY <1>2, <1>4 DEF Moves, Thread
<1>8. Linked' = Linked /\ Pending' = Pending
  BY <1>4, <1>6, <1>7 DEF Linked, Pending, At
<1>9. InUse' = InUse \ {y}
  BY <1>1, <1>4, <1>5, <1>6, <1>8, FrontBlockMoves
<1>10. \A W \in SUBSET Blocks : /\ Amount(block, W) \in Nat /\ Amount(block', W) \in Nat
                                /\ Amount(block', W) <= Amount(block, W)
  <2> SUFFICES ASSUME NEW W \in SUBSET Blocks PROVE Amount(block, W) \in Nat
    BY <1>4, SMT
  <2> QED
    BY <1>2, <1>6, SoundBefore, SomeBlocks
<1>11. Total'
  BY <1>3, <1>4, <1>7, <1>8 DEF Total, Live, At
<1>12. LengthAtCall'
  BY <1>3, <1>7, LengthKept
<1>13. Full'
  <2>1. \A b \in Blocks : FullBlock(b)' <=> FullBlock(b)
    BY <1>6, FullBlockKept DEF SameFront, SameTail, SameSize
  <2>2. \A b \in InUse' \ {frontBlock', tailBlock'} : FullBlock(b)'
    BY <1>1, <1>2, <1>3, <1>4, <1>9, <2>1 DEF Full
  <2>3. Overflows' => Overflows
    BY <1>7 DEF Overflows
  <2>4. Overflows' => FullBlock(tailBlock)
    BY <1>3, <1>5, <2>3 DEF Full, FrontDone
  <2>5. Overflows' => FullBlock(tailBlock)'
    BY <1>2, <2>1, <2>4, <1>4, Zenon DEF FullBlock, Advance
  <2> QED
    BY <2>2, <2>5, Zenon DEF Full
<1>14. Reserved'
  BY <1>3, <1>4, <1>6, <1>8, ReservedKept
<1>15. Refusals'
  <2>1. block'[tailBlock].size = block[tailBlock].size
    BY <1>4
  <2> QED
    BY <1>3, <1>4, <1>7, <2>1, RefusalsKept
<1>16. ProducerTally'
  <2>1. lenAtCall \in [Thread -> Nat] /\ lenAtCall'["producer"] = lenAtCall["producer"]
    BY <1>3, <1>4 DEF LengthAtCall
  <2>2. walk'["producer"] = walk["producer"]
    BY <1>4
  <2> QED
    BY <1>3, <1>6, <1>7, <1>8, <1>10, <2>1, <2>2, ProducerTallyKept
<1>17. ConsumerTally'
  BY <1>7, Zenon DEF ConsumerTally, Counting
<1> QED
  BY <1>11, <1>12, <1>13, <1>14, <1>15, <1>16, <1>17 DEF RInv

(* The element is given up, and there is one less. *)
LEMMA ReleaseCounts ==
    ASSUME IInv, IInv', RInv, conf' = conf, Release
    PROVE  RInv'
<1>1. PICK y, u : y = frontBlock /\ u = Advance(block[y].front, y)
  OBVIOUS
<1>2. /\ BlocksTyped /\ BlocksTyped' /\ Linked \subseteq Blocks /\ InUse \subseteq Linked
      /\ y \in Linked /\ y \in Blocks /\ tailBlock \in Blocks /\ tailBlock \in InUse /\ pc \in [Thread -> Label]
      /\ \A b \in InUse \ {y} : ~Empty(b)
  BY <1>1, RingFacts, TypeFacts DEF IInv, Types
<1>3. Total /\ LengthAtCall /\ Full /\ Reserved /\ Refusals /\ ProducerTally /\ ConsumerTally
  BY DEF RInv
<1>4. pc["consumer"] = "release" /\ pc' = [pc EXCEPT !["consumer"] = "idle"]
  BY DEF Release, Return, Goto, At
<1>5. readBlock = y /\ HasOne(y)
  BY <1>1, <1>4 DEF IInv, ConsumerAt, At
<1>6. /\ block' = [block EXCEPT ![y].front = u] /\ taken' = taken + 1
      /\ lenAtCall' = [lenAtCall EXCEPT !["consumer"] = 0]
      /\ UNCHANGED <<frontBlock, tailBlock, largestBlockSize, sent, walk>>
  BY <1>1, <1>5 DEF Release, Return, producerRegs
<1>7. ~Empty(y)
  BY <1>1, <1>5, FrontIsTaken
<1>8. u \in 0..(block[y].size - 1)
  BY <1>1, <1>2, BlockFacts DEF Advance
<1>9. /\ Len(block') = Len(block) /\ Blocks' = Blocks
      /\ SameTail /\ SameNext /\ SameSize
      /\ \A b \in Blocks : block'[b].front = IF b = y THEN u ELSE block[b].front
  BY <1>2, <1>6, <1>8, SetFront
<1>10. Drains(y)
  BY <1>1, <1>7, <1>9 DEF Drains
<1>11. Moves("consumer", "idle") /\ "consumer" \in Thread /\ pc'["consumer"] = "idle"
      /\ pc'["producer"] = pc["producer"]
  BY <1>2, <1>4, <1>6 DEF Moves, Thread
<1>12. Linked' = Linked /\ Pending' = Pending
  BY <1>2, <1>6, <1>9, <1>11 DEF Linked, Pending, At, SameNext
<1>13. InUse' = InUse
  <2>1. InUse = {y} \cup ({b \in Blocks : ~Empty(b)} \ Pending)
    BY <1>1 DEF InUse
  <2>2. InUse' = {y} \cup ({b \in Blocks : ~Empty(b)'} \ Pending)
    BY <1>1, <1>6, <1>9, <1>12 DEF InUse
  <2>3. \A b \in Blocks \ {y} : Empty(b)' <=> Empty(b)
    BY <1>9 DEF Empty, SameTail
  <2> QED
    BY <2>1, <2>2, <2>3
<1>14. \A W \in SUBSET Blocks :
          /\ Amount(block, W) \in Nat /\ Amount(block', W) \in Nat
          /\ Amount(block', W) = IF y \in W THEN Amount(block, W) - 1 ELSE Amount(block, W)
  BY <1>2, <1>9, <1>10, OneLess
<1>15. Total'
  <2>1. Amount(block', Linked') = Amount(block, Linked) - 1 /\ Amount(block, Linked) \in Nat
    BY <1>2, <1>12, <1>14
  <2>2. PICK h : h = IF pc["producer"] = "advanceBlock" THEN 1 ELSE 0
    OBVIOUS
  <2>3. Amount(block, Linked) = sent - taken + h /\ h \in Nat
    BY <1>3, <2>2 DEF Total, Live, At
  <2>4. sent \in Nat /\ taken \in Nat
    BY NumbersNow DEF InStep
  <2>5. Amount(block', Linked') = sent' - taken' + h
    BY <1>6, <2>1, <2>3, <2>4, SMT
  <2>6. h = IF pc'["producer"] = "advanceBlock" THEN 1 ELSE 0
    BY <1>11, <2>2
  <2> QED
    BY <2>5, <2>6 DEF Total, Live, At
<1>16. LengthAtCall'
  <2>1. Moves("consumer", "idle")
    BY <1>11
  <2> QED
    BY <1>3, <1>11, LengthKept
<1>17. Full'
  <2>1. \A b \in Blocks \ {y} : FullBlock(b)' <=> FullBlock(b)
    BY <1>9, FullBlockKept DEF SameTail, SameSize
  <2>2. \A b \in InUse \ {frontBlock, tailBlock} : FullBlock(b) => FullBlock(b)'
    BY <1>1, <1>2, <2>1
  <2>3. Overflows' => Overflows
    BY <1>11 DEF Overflows
  <2>4. Overflows' /\ tailBlock # frontBlock => FullBlock(tailBlock)
    BY <1>3, <2>3 DEF Full
  <2>5. PICK x : x = tailBlock
    OBVIOUS
  <2>6. Overflows' /\ x # y => FullBlock(x)'
    BY <1>1, <1>2, <2>1, <2>4, <2>5
  <2>7. tailBlock' = x
    BY <1>6, <2>5
  <2>8. Overflows' /\ tailBlock # frontBlock => FullBlock(tailBlock)'
    BY <1>1, <2>5, <2>6, <2>7, Zenon DEF FullBlock, Advance
  <2> QED
    BY <1>3, <1>6, <1>13, <2>2, <2>8, FullKept
<1>18. Reserved'
  BY <1>3, <1>6, <1>9, <1>12, ReservedKept
<1>19. Refusals'
  <2>1. block'[tailBlock].size = block[tailBlock].size
    BY <1>2, <1>9 DEF SameSize
  <2> QED
    BY <1>3, <1>6, <1>11, <2>1, RefusalsKept
<1>20. ProducerTally'
  <2>1. lenAtCall \in [Thread -> Nat] /\ lenAtCall'["producer"] = lenAtCall["producer"]
    BY <1>3, <1>6 DEF LengthAtCall, Thread
  <2>2. \A W \in SUBSET Blocks : /\ Amount(block, W) \in Nat /\ Amount(block', W) \in Nat
                                 /\ Amount(block', W) <= Amount(block, W)
    <3>1. \A p \in Nat : p <= p /\ p - 1 <= p
      BY SMT
    <3> QED
      BY <1>14, <3>1
  <2>3. walk'["producer"] = walk["producer"]
    BY <1>6
  <2> QED
    BY <1>3, <1>9, <1>11, <1>12, <2>1, <2>2, <2>3, ProducerTallyKept
<1>21. ConsumerTally'
  BY <1>11, Zenon DEF ConsumerTally, Counting
<1> QED
  BY <1>15, <1>16, <1>17, <1>18, <1>19, <1>20, <1>21 DEF RInv

-----------------------------------------------------------------------------
(* Each action keeps the invariant of the counts: size_approx *)

(* A thread counts on, and the queue stays as it is: the blocks linked and   *)
(* the blocks in use are the same, and so is what they hold.                 *)
LEMMA WalkGoesOn ==
    ASSUME IInv, IInv', RInv, conf' = conf, NEW t \in Thread, NEW to \in WalkLabels, pc[t] \in WalkLabels,
           Moves(t, to), sent' = sent, taken' = taken,
           UNCHANGED <<block, frontBlock, tailBlock, largestBlockSize>>,
           \A u \in Thread \ {t} : walk'[u] = walk[u],
           IF t = "producer" THEN ProducerTally' ELSE ConsumerTally'
    PROVE  RInv'
<1>1. /\ BlocksTyped /\ BlocksTyped' /\ Linked \subseteq Blocks /\ InUse \subseteq Linked
      /\ tailBlock \in Blocks /\ pc \in [Thread -> Label]
  BY RingFacts, TypeFacts DEF IInv, Types
<1>2. Total /\ LengthAtCall /\ Full /\ Reserved /\ Refusals /\ ProducerTally /\ ConsumerTally
  BY DEF RInv
<1>3. pc'[t] = to /\ \A u \in Thread \ {t} : pc'[u] = pc[u] /\ lenAtCall'[u] = lenAtCall[u]
  BY <1>1, <1>2 DEF Moves, LengthAtCall
<1>4. /\ Len(block') = Len(block) /\ Blocks' = Blocks
      /\ SameFront /\ SameTail /\ SameNext /\ SameSize
  BY <1>1, Untouched
<1>5. /\ pc'["producer"] = "link" <=> pc["producer"] = "link"
      /\ pc'["producer"] = "advanceBlock" <=> pc["producer"] = "advanceBlock"
      /\ Overflows' => Overflows
  BY <1>3 DEF Thread, WalkLabels, Overflows
<1>6. Linked' = Linked /\ InUse' = InUse
  BY <1>1, <1>4, <1>5, StaysInPlace
<1>7. \A W \in SUBSET Blocks : /\ Amount(block, W) \in Nat /\ Amount(block', W) \in Nat
                               /\ Amount(block', W) <= Amount(block, W) /\ Amount(block, W) <= Amount(block', W)
  <2> SUFFICES ASSUME NEW W \in SUBSET Blocks PROVE Amount(block, W) \in Nat
    BY SMT
  <2> QED
    BY <1>1, <1>4, SoundBefore, SomeBlocks
<1>8. Total'
  BY <1>2, <1>5, <1>6 DEF Total, Live, At
<1>9. LengthAtCall'
  BY <1>2, LengthKept
<1>10. Full'
  <2>1. \A b \in Blocks : FullBlock(b)' <=> FullBlock(b)
    BY <1>4, FullBlockKept DEF SameFront, SameTail, SameSize
  <2>2. \A b \in InUse \ {frontBlock, tailBlock} : FullBlock(b) => FullBlock(b)'
    BY <1>1, <2>1
  <2>3. Overflows' /\ tailBlock # frontBlock => FullBlock(tailBlock)
    BY <1>2, <1>5 DEF Full
  <2>4. Overflows' /\ tailBlock # frontBlock => FullBlock(tailBlock)'
    BY <2>3, Zenon DEF FullBlock, Advance
  <2> QED
    BY <1>2, <1>6, <2>2, <2>4, FullKept
<1>11. Reserved'
  BY <1>2, <1>4, <1>6, ReservedKept
<1>12. Refusals'
  <2>1. block'[tailBlock].size = block[tailBlock].size
    OBVIOUS
  <2>2. to \notin {"checkNext", "makeBlock", "loadTailBlock"}
    BY DEF WalkLabels
  <2> QED
    BY <1>2, <2>1, <2>2, RefusalsKept
<1>13. lenAtCall \in [Thread -> Nat]
  BY <1>2 DEF LengthAtCall
<1>14. ProducerTally'
  <2>1. CASE t = "producer"
    BY <2>1
  <2>2. CASE t = "consumer"
    <3>1. pc'["producer"] = pc["producer"] /\ lenAtCall'["producer"] = lenAtCall["producer"]
          /\ walk'["producer"] = walk["producer"]
      BY <1>3, <2>2 DEF Thread
    <3> QED
      BY <1>2, <1>4, <1>6, <1>7, <1>13, <3>1, ProducerTallyKept
  <2> QED
    BY <2>1, <2>2 DEF Thread
<1>15. ConsumerTally'
  <2>1. CASE t = "consumer"
    BY <2>1
  <2>2. CASE t = "producer"
    <3>1. pc'["consumer"] = pc["consumer"] /\ lenAtCall'["consumer"] = lenAtCall["consumer"]
          /\ walk'["consumer"] = walk["consumer"]
      BY <1>3, <2>2 DEF Thread
    <3> QED
      BY <1>2, <1>4, <1>6, <1>7, <1>13, <3>1, ConsumerTallyKept
  <2> QED
    BY <2>1, <2>2 DEF Thread
<1> QED
  BY <1>8, <1>9, <1>10, <1>11, <1>12, <1>14, <1>15 DEF RInv

(* Where a thread that counts has come to, and what it found.                *)
Walking(t, w, V) ==
    /\ w \in WalkRec /\ w = walk[t] /\ V \in SUBSET Linked /\ w.at \in Linked /\ w.start \in V \cup {w.at}
    /\ pc[t] = "sizeNext" <=> w.at \in V
    /\ Path(block, V \cup {w.at}, w.at, w.start)
    /\ IF t = "producer" THEN SumOfProducer(V) ELSE SumOfConsumer(V)

(* It has come somewhere. *)
LEMMA WalkStands ==
    ASSUME IInv, RInv, NEW t \in Thread, Counting(t)
    PROVE  \E w \in WalkRec : \E V \in SUBSET Linked : Walking(t, w, V)
<1>1. walk \in [Thread -> WalkRec]
  BY TypeFacts DEF IInv
<1>2. PICK V \in SUBSET Linked :
         Stretch(t, V) /\ IF t = "producer" THEN SumOfProducer(V) ELSE SumOfConsumer(V)
  <2>1. CASE t = "producer"
    BY <2>1 DEF RInv, ProducerTally
  <2>2. CASE t = "consumer"
    BY <2>2 DEF RInv, ConsumerTally
  <2> QED
    BY <2>1, <2>2 DEF Thread
<1>3. PICK w \in WalkRec : w = walk[t]
  BY <1>1
<1>4. w.at \in Linked /\ (pc[t] = "sizeNext" <=> w.at \in V) /\ Path(block, V \cup {w.at}, w.at, w.start)
  BY <1>2, <1>3, StretchIs
<1>5. w.start \in V \cup {w.at}
  BY <1>4 DEF Path
<1> QED
  BY <1>2, <1>3, <1>4, <1>5 DEF Walking

(* The tally, by what the next state holds. *)
LEMMA TallyNext ==
    ASSUME NEW t \in Thread, NEW V \in SUBSET Linked', walk'[t].at \in Linked',
           pc'[t] = "sizeNext" <=> walk'[t].at \in V,
           Path(block', V \cup {walk'[t].at}, walk'[t].at, walk'[t].start),
           IF t = "producer" THEN SumOfProducer(V)' ELSE SumOfConsumer(V)'
    PROVE  IF t = "producer" THEN ProducerTally' ELSE ConsumerTally'
<1>1. Stretch(t, V)'
  BY StretchNext
<1>2. CASE t = "producer"
  <2>1. Stretch("producer", V)' /\ SumOfProducer(V)'
    BY <1>1, <1>2
  <2>2. \E U \in SUBSET Linked' : Stretch("producer", U)' /\ SumOfProducer(U)'
    BY <2>1
  <2>3. ProducerTally'
    BY <2>2, Zenon DEF ProducerTally, Stretch, SumOfProducer, Live, Reading, At
  <2> QED
    BY <1>2, <2>3
<1>3. CASE t = "consumer"
  <2>1. Stretch("consumer", V)' /\ SumOfConsumer(V)'
    BY <1>1, <1>3
  <2>2. \E U \in SUBSET Linked' : Stretch("consumer", U)' /\ SumOfConsumer(U)'
    BY <2>1
  <2>3. ConsumerTally'
    BY <2>2, Zenon DEF ConsumerTally, Stretch, SumOfConsumer, Live, At
  <2> QED
    BY <1>3, <2>3
<1> QED
  BY <1>2, <1>3 DEF Thread

(* A thread that counts links no block. *)
LEMMA WalkLinks ==
    ASSUME IInv, NEW t \in Thread, NEW to \in WalkLabels, pc[t] \in WalkLabels, pc' = [pc EXCEPT ![t] = to],
           block' = block
    PROVE  Linked' = Linked /\ pc'[t] = to
<1>1. pc \in [Thread -> Label]
  BY TypeFacts DEF IInv
<1>2. pc'["producer"] = "link" <=> pc["producer"] = "link"
  BY <1>1 DEF Thread, WalkLabels
<1> QED
  BY <1>1, <1>2 DEF Linked, Blocks, At

(* What some of the linked blocks hold, and the others.                      *)
LEMMA Parts ==
    ASSUME IInv, NEW V \in SUBSET Linked, NEW a \in Linked, a \notin V
    PROVE  /\ Amount(block, V) \in Nat /\ Amount(block, Linked \ V) \in Nat /\ Amount(block, {a}) \in Nat
           /\ Amount(block, Linked \ (V \cup {a})) \in Nat
           /\ Amount(block, V \cup {a}) = Amount(block, V) + Amount(block, {a})
           /\ Amount(block, Linked \ V) = Amount(block, {a}) + Amount(block, Linked \ (V \cup {a}))
           /\ Amount(block, {a}) = (block[a].tail - block[a].front) % block[a].size
<1>1. AllSound /\ Linked \subseteq Blocks
  BY RingFacts, SoundBlocks DEF IInv
<1>2. Sound(block, V) /\ Sound(block, {a}) /\ Sound(block, Linked \ V) /\ Sound(block, Linked \ (V \cup {a}))
  BY <1>1 DEF AllSound
<1>3. V \cap {a} = {} /\ {a} \subseteq Linked \ V /\ (Linked \ V) \ {a} = Linked \ (V \cup {a})
  OBVIOUS
<1>4. /\ Amount(block, V) \in Nat /\ Amount(block, Linked \ V) \in Nat /\ Amount(block, {a}) \in Nat
      /\ Amount(block, Linked \ (V \cup {a})) \in Nat
  BY <1>2, SomeBlocks
<1>5. Amount(block, V \cup {a}) = Amount(block, V) + Amount(block, {a})
  BY <1>2, <1>3, Apart
<1>6. Amount(block, Linked \ V) = Amount(block, {a}) + Amount(block, (Linked \ V) \ {a})
  BY <1>2, <1>3, PartOfWhole
<1> QED
  BY <1>2, <1>3, <1>4, <1>5, <1>6, OneBlock

(* A thread begins to count, at the front block. *)
LEMMA SizeBeginCounts ==
    ASSUME IInv, IInv', RInv, conf' = conf, NEW t \in Thread, SizeBegin(t)
    PROVE  RInv'
<1>1. PICK a : a = frontBlock
  OBVIOUS
<1>2. pc \in [Thread -> Label] /\ walk \in [Thread -> WalkRec] /\ a \in Linked /\ lenAtCall \in [Thread -> Nat]
  BY <1>1, RingFacts, TypeFacts DEF IInv, RInv, LengthAtCall
<1>3. /\ pc[t] = "idle" /\ pc' = [pc EXCEPT ![t] = "sizeFront"]
      /\ lenAtCall' = [lenAtCall EXCEPT ![t] = sent - taken] /\ walk' = [walk EXCEPT ![t] = WalkFrom(a)]
      /\ UNCHANGED <<block, frontBlock, tailBlock, largestBlockSize, sent, taken>>
  BY <1>1 DEF SizeBegin, Begin, Goto, At, producerRegs, consumerRegs
<1>4. walk'[t] = WalkFrom(a) /\ lenAtCall'[t] = sent - taken
  BY <1>2, <1>3
<1>5. Moves(t, "sizeFront") /\ pc[t] \in WalkLabels /\ "sizeFront" \in WalkLabels
  BY <1>3 DEF Moves, WalkLabels
<1>6. Linked' = Linked /\ pc'[t] = "sizeFront"
  BY <1>3, <1>5, WalkLinks
<1>7. walk'[t].at = a /\ walk'[t].start = a /\ walk'[t].sum = 0
  BY <1>4 DEF WalkFrom
<1>8. PICK m \in Nat : m = sent - taken
  <2>1. sent \in Nat /\ taken \in Nat /\ taken <= sent
    BY NumbersNow DEF InStep
  <2>2. sent - taken \in Nat
    BY <2>1, SMT
  <2> QED
    BY <2>2
<1>9. PICK h \in {0, 1} : Amount(block, Linked) = m + h /\ (t = "producer" => h = 0)
  BY <1>3, <1>8 DEF RInv, Total, Live, At
<1>10. Amount(block, {}) = 0 /\ Linked \ {} = Linked
  BY NoBlocks
<1>11. IF t = "producer" THEN SumOfProducer({})' ELSE SumOfConsumer({})'
  <2>1. 0 + (m + 0) <= m /\ m <= 0 + (m + h) /\ 0 <= 0
    BY SMT
  <2>2. CASE t = "producer"
    <3>1. Amount(block', {}) <= walk'[t].sum
      BY <1>3, <1>7, <1>10, <2>1
    <3>2. walk'[t].sum + Amount(block', Linked' \ {}) <= lenAtCall'[t]
      BY <1>3, <1>4, <1>6, <1>7, <1>8, <1>9, <1>10, <2>1, <2>2
    <3> QED
      BY <1>6, <2>2, <3>1, <3>2 DEF SumOfProducer, Live, At
  <2>3. CASE t = "consumer"
    <3>1. walk'[t].sum <= Amount(block', {})
      BY <1>3, <1>7, <1>10, <2>1
    <3>2. lenAtCall'[t] <= walk'[t].sum + Amount(block', Linked' \ {})
      BY <1>3, <1>4, <1>6, <1>7, <1>8, <1>9, <1>10, <2>1
    <3> QED
      BY <1>6, <2>3, <3>1, <3>2 DEF SumOfConsumer, Live, At
  <2> QED
    BY <2>2, <2>3 DEF Thread
<1>12. Path(block', {} \cup {a}, a, a)
  BY DEF Path
<1>13. IF t = "producer" THEN ProducerTally' ELSE ConsumerTally'
  BY <1>2, <1>6, <1>7, <1>11, <1>12, TallyNext
<1>14. \A u \in Thread \ {t} : walk'[u] = walk[u]
  BY <1>2, <1>3
<1> QED
  BY <1>3, <1>5, <1>13, <1>14, WalkGoesOn

(* It loads the front of a block. *)
LEMMA SizeFrontCounts ==
    ASSUME IInv, IInv', RInv, conf' = conf, NEW t \in Thread, SizeFront(t)
    PROVE  RInv'
<1>1. pc \in [Thread -> Label] /\ walk \in [Thread -> WalkRec] /\ lenAtCall \in [Thread -> Nat]
      /\ BlocksTyped /\ Linked \subseteq Blocks
  BY RingFacts, TypeFacts DEF IInv, RInv, LengthAtCall
<1>2. /\ pc[t] = "sizeFront" /\ pc' = [pc EXCEPT ![t] = "sizeTail"]
      /\ walk' = [walk EXCEPT ![t].front = block[walk[t].at].front]
      /\ UNCHANGED <<block, frontBlock, tailBlock, largestBlockSize, sent, taken, lenAtCall>>
  BY DEF SizeFront, Step, Goto, At, producerRegs, consumerRegs
<1>3. PICK w \in WalkRec, V \in SUBSET Linked : Walking(t, w, V)
  BY <1>2, WalkStands DEF Counting
<1>4. PICK a : a = w.at
  OBVIOUS
<1>5. /\ w = walk[t] /\ a \in Linked /\ a \notin V /\ Path(block, V \cup {a}, a, w.start)
      /\ w.sum \in Int
  BY <1>2, <1>3, <1>4 DEF Walking, WalkRec
<1>6. PICK v : v = walk'[t]
  OBVIOUS
<1>7. v.at = a /\ v.start = w.start /\ v.sum = w.sum /\ v.front = block[a].front
  BY <1>1, <1>2, <1>4, <1>5, <1>6 DEF WalkRec
<1>8. Moves(t, "sizeTail") /\ pc[t] \in WalkLabels /\ "sizeTail" \in WalkLabels
  BY <1>2 DEF Moves, WalkLabels
<1>9. Linked' = Linked /\ pc'[t] = "sizeTail"
  BY <1>2, <1>8, WalkLinks
<1>10. PICK L \in Nat : L = lenAtCall[t]
  BY <1>1
<1>11. PICK P \in Nat, Q \in Nat, A \in Nat, R \in Nat :
          /\ P = Amount(block, V) /\ Q = Amount(block, Linked \ V) /\ A = Amount(block, {a})
          /\ R = Amount(block, Linked \ (V \cup {a})) /\ Q = A + R
          /\ A = (block[a].tail - block[a].front) % block[a].size
  <2>1. PICK P, Q, A, R :
           /\ P = Amount(block, V) /\ Q = Amount(block, Linked \ V) /\ A = Amount(block, {a})
           /\ R = Amount(block, Linked \ (V \cup {a}))
    OBVIOUS
  <2>2. /\ P \in Nat /\ Q \in Nat /\ A \in Nat /\ R \in Nat /\ Q = A + R
        /\ A = (block[a].tail - block[a].front) % block[a].size
    BY <1>5, <2>1, Parts
  <2> QED
    BY <2>1, <2>2, Zenon
<1>12. block[a].front \in 0..(block[a].size - 1)
  BY <1>1, <1>5, BlockFacts
<1>13. IF t = "producer" THEN SumOfProducer(V)' ELSE SumOfConsumer(V)'
  <2>1. CASE t = "producer"
    <3>1. P <= w.sum /\ w.sum + Q <= L
      BY <1>2, <1>3, <1>5, <1>10, <1>11, <2>1 DEF Walking, SumOfProducer, Live, At
    <3>2. w.sum + A + R <= L /\ A <= A
      BY <1>5, <1>11, <3>1, SMT
    <3>3. walk'["producer"] = v /\ lenAtCall'["producer"] = L /\ pc'["producer"] = "sizeTail"
      BY <1>2, <1>6, <1>9, <1>10, <2>1
    <3>4. Reading("producer")' = A
      BY <1>2, <1>7, <1>11, <3>3 DEF Reading
    <3> QED
      BY <1>2, <1>7, <1>9, <1>11, <1>12, <2>1, <3>1, <3>2, <3>3, <3>4 DEF SumOfProducer, Live, At
  <2>2. CASE t = "consumer"
    <3>1. w.sum <= P /\ L <= w.sum + Q
      BY <1>3, <1>5, <1>10, <1>11, <2>2 DEF Walking, SumOfConsumer, Live
    <3>2. walk'["consumer"] = v /\ lenAtCall'["consumer"] = L
      BY <1>2, <1>6, <1>10, <2>2
    <3> QED
      BY <1>2, <1>7, <1>9, <1>11, <2>2, <3>1, <3>2 DEF SumOfConsumer, Live, At
  <2> QED
    BY <2>1, <2>2 DEF Thread
<1>14. IF t = "producer" THEN ProducerTally' ELSE ConsumerTally'
  BY <1>2, <1>5, <1>6, <1>7, <1>9, <1>13, TallyNext
<1>15. \A u \in Thread \ {t} : walk'[u] = walk[u]
  BY <1>1, <1>2
<1> QED
  BY <1>2, <1>8, <1>14, <1>15, WalkGoesOn

(* It loads the tail, and adds what is between.                              *)
LEMMA SizeTailCounts ==
    ASSUME IInv, IInv', RInv, conf' = conf, NEW t \in Thread, SizeTail(t)
    PROVE  RInv'
<1>1. pc \in [Thread -> Label] /\ walk \in [Thread -> WalkRec] /\ lenAtCall \in [Thread -> Nat]
      /\ BlocksTyped /\ Linked \subseteq Blocks
  BY RingFacts, TypeFacts DEF IInv, RInv, LengthAtCall
<1>2. PICK D : D = (block[walk[t].at].tail - walk[t].front) % block[walk[t].at].size
  OBVIOUS
<1>3. /\ pc[t] = "sizeTail" /\ pc' = [pc EXCEPT ![t] = "sizeNext"]
      /\ walk' = [walk EXCEPT ![t].sum = @ + D]
      /\ UNCHANGED <<block, frontBlock, tailBlock, largestBlockSize, sent, taken, lenAtCall>>
  BY <1>2 DEF SizeTail, Step, Goto, At, producerRegs, consumerRegs
<1>4. PICK w \in WalkRec, V \in SUBSET Linked : Walking(t, w, V)
  BY <1>3, WalkStands DEF Counting
<1>5. PICK a : a = w.at
  OBVIOUS
<1>6. /\ w = walk[t] /\ a \in Linked /\ a \notin V /\ Path(block, V \cup {a}, a, w.start)
      /\ w.sum \in Int /\ w.front \in Int
  BY <1>3, <1>4, <1>5 DEF Walking, WalkRec
<1>7. D = (block[a].tail - w.front) % block[a].size /\ D \in Int
  <2>1. D = (block[a].tail - w.front) % block[a].size
    BY <1>2, <1>5, <1>6
  <2>2. block[a].tail \in Int /\ block[a].size \in Nat \ {0}
    BY <1>1, <1>6, BlockFacts
  <2> QED
    BY <1>6, <2>1, <2>2, SMT
<1>8. PICK v : v = walk'[t]
  OBVIOUS
<1>9. v.at = a /\ v.start = w.start /\ v.sum = w.sum + D
  BY <1>1, <1>3, <1>5, <1>6, <1>8 DEF WalkRec
<1>10. Moves(t, "sizeNext") /\ pc[t] \in WalkLabels /\ "sizeNext" \in WalkLabels
  BY <1>3 DEF Moves, WalkLabels
<1>11. Linked' = Linked /\ pc'[t] = "sizeNext"
  BY <1>3, <1>10, WalkLinks
<1>12. PICK L \in Nat : L = lenAtCall[t]
  BY <1>1
<1>13. PICK P \in Nat, Q \in Nat, A \in Nat, R \in Nat :
          /\ P = Amount(block, V) /\ Q = Amount(block, Linked \ V) /\ A = Amount(block, {a})
          /\ R = Amount(block, Linked \ (V \cup {a})) /\ Q = A + R /\ Amount(block, V \cup {a}) = P + A
          /\ A = (block[a].tail - block[a].front) % block[a].size
  <2>1. PICK P, Q, A, R :
           /\ P = Amount(block, V) /\ Q = Amount(block, Linked \ V) /\ A = Amount(block, {a})
           /\ R = Amount(block, Linked \ (V \cup {a}))
    OBVIOUS
  <2>2. /\ P \in Nat /\ Q \in Nat /\ A \in Nat /\ R \in Nat /\ Q = A + R
        /\ Amount(block, V \cup {a}) = P + A
        /\ A = (block[a].tail - block[a].front) % block[a].size
    BY <1>6, <2>1, Parts
  <2> QED
    BY <2>1, <2>2, Zenon
<1> DEFINE U == V \cup {a}
<1>14. IF t = "producer" THEN SumOfProducer(U)' ELSE SumOfConsumer(U)'
  <2>1. CASE t = "producer"
    <3>1. P <= w.sum /\ A <= D /\ w.sum + D + R <= L
      BY <1>3, <1>4, <1>5, <1>6, <1>7, <1>12, <1>13, <2>1 DEF Walking, SumOfProducer, Live, Reading, At
    <3>2. P + A <= w.sum + D
      BY <1>6, <1>7, <3>1, SMT
    <3>3. walk'["producer"] = v /\ lenAtCall'["producer"] = L /\ pc'["producer"] = "sizeNext"
      BY <1>3, <1>8, <1>11, <1>12, <2>1
    <3>4. Amount(block', U) <= v.sum /\ v.sum + Amount(block', Linked' \ U) <= L
      BY <1>3, <1>9, <1>11, <1>13, <3>1, <3>2
    <3> HIDE DEF U
    <3> QED
      BY <2>1, <3>3, <3>4 DEF SumOfProducer, Live, At
  <2>2. CASE t = "consumer"
    <3>1. w.sum <= P /\ L <= w.sum + Q /\ w.front = block[a].front
      BY <1>3, <1>4, <1>5, <1>6, <1>12, <1>13, <2>2 DEF Walking, SumOfConsumer, Live, At
    <3>2. D = A
      BY <1>7, <1>13, <3>1
    <3>3. w.sum + D <= P + A /\ L <= (w.sum + D) + R
      BY <1>6, <1>7, <1>13, <3>1, <3>2, SMT
    <3>4. walk'["consumer"] = v /\ lenAtCall'["consumer"] = L /\ pc'["consumer"] = "sizeNext"
      BY <1>3, <1>8, <1>11, <1>12, <2>2
    <3>5. v.sum <= Amount(block', U) /\ L <= v.sum + Amount(block', Linked' \ U)
      BY <1>3, <1>9, <1>11, <1>13, <3>3
    <3> HIDE DEF U
    <3> QED
      BY <2>2, <3>4, <3>5 DEF SumOfConsumer, Live, At
  <2> QED
    BY <2>1, <2>2 DEF Thread
<1>15. U \cup {a} = U /\ U \in SUBSET Linked /\ a \in U
  BY <1>6
<1>16. IF t = "producer" THEN ProducerTally' ELSE ConsumerTally'
  <2>1. Path(block', U \cup {a}, a, w.start)
    BY <1>3, <1>6, <1>15
  <2> HIDE DEF U
  <2> QED
    BY <1>6, <1>8, <1>9, <1>11, <1>14, <1>15, <2>1, TallyNext
<1>17. \A u \in Thread \ {t} : walk'[u] = walk[u]
  BY <1>1, <1>3
<1> QED
  BY <1>3, <1>10, <1>16, <1>17, WalkGoesOn

(* A stretch that comes back to its start is the whole ring.                 *)
LEMMA AllCounted ==
    ASSUME IInv, NEW V \in SUBSET Linked, NEW a \in V, NEW s, Path(block, V, a, s), block[a].next = s
    PROVE  V = Linked
<1>1. \A b \in V : block[b].next \in V
  BY DEF Path
<1>2. \A S \in SUBSET Linked : S # {} /\ (\A b \in S : block[b].next \in S) => S = Linked
  BY DEF IInv, Ring
<1> QED
  BY <1>1, <1>2, Zenon

(* It goes on to the next block, or is back where it began.                  *)
LEMMA SizeNextCounts ==
    ASSUME IInv, IInv', RInv, conf' = conf, NEW t \in Thread, SizeNext(t)
    PROVE  RInv'
<1>1. pc \in [Thread -> Label] /\ walk \in [Thread -> WalkRec] /\ lenAtCall \in [Thread -> Nat]
      /\ BlocksTyped /\ Linked \subseteq Blocks
  BY RingFacts, TypeFacts DEF IInv, RInv, LengthAtCall
<1>2. PICK n : n = block[walk[t].at].next
  OBVIOUS
<1>3. pc[t] = "sizeNext" /\ UNCHANGED <<block, frontBlock, tailBlock, largestBlockSize, sent, taken>>
  BY DEF SizeNext, Step, At, producerRegs, consumerRegs
<1>4. \A u \in Thread \ {t} : walk'[u] = walk[u]
  BY <1>1 DEF SizeNext
<1>5. CASE n = walk[t].start
  <2>1. pc' = [pc EXCEPT ![t] = "idle"] /\ lenAtCall' = [lenAtCall EXCEPT ![t] = 0]
    BY <1>2, <1>5 DEF SizeNext, Return, Goto
  <2>2. Moves(t, "idle") /\ pc[t] \in WalkLabels /\ "idle" \in WalkLabels /\ pc'[t] = "idle"
    BY <1>1, <1>3, <2>1 DEF Moves, WalkLabels, Thread
  <2>3. t = "producer" => ProducerTally'
    BY <2>2, Zenon DEF ProducerTally, Counting
  <2>4. t = "consumer" => ConsumerTally'
    BY <2>2, Zenon DEF ConsumerTally, Counting
  <2> QED
    BY <1>3, <1>4, <2>2, <2>3, <2>4, WalkGoesOn DEF Thread
<1>6. CASE n # walk[t].start
  <2>1. pc' = [pc EXCEPT ![t] = "sizeFront"] /\ lenAtCall' = lenAtCall /\ walk' = [walk EXCEPT ![t].at = n]
    BY <1>2, <1>6 DEF SizeNext, Step, Goto
  <2>2. Moves(t, "sizeFront") /\ pc[t] \in WalkLabels /\ "sizeFront" \in WalkLabels
    BY <1>3, <2>1 DEF Moves, WalkLabels
  <2>3. Linked' = Linked /\ pc'[t] = "sizeFront"
    BY <1>3, <2>1, <2>2, WalkLinks
  <2>4. PICK w \in WalkRec, V \in SUBSET Linked : Walking(t, w, V)
    BY <1>3, WalkStands DEF Counting
  <2>5. PICK a, s : a = w.at /\ s = w.start
    OBVIOUS
  <2>6. /\ w = walk[t] /\ a \in Linked /\ a \in V /\ Path(block, V, a, s) /\ n = block[a].next /\ n # s
    <3>1. w = walk[t] /\ a \in Linked /\ a \in V /\ Path(block, V \cup {a}, a, s)
      BY <1>3, <2>4, <2>5 DEF Walking
    <3>2. V \cup {a} = V
      BY <3>1
    <3> QED
      BY <1>2, <1>6, <2>5, <3>1, <3>2
  <2>7. PICK v : v = walk'[t]
    OBVIOUS
  <2>8. v.at = n /\ v.start = s /\ v.sum = w.sum
    BY <1>1, <2>1, <2>5, <2>6, <2>7 DEF WalkRec
  <2>9. \A b, c \in Linked : block[b].next = block[c].next => b = c
    BY DEF IInv, Ring
  <2>10. n \in Linked
    BY <2>6 DEF IInv, Ring
  <2>11. /\ s \in V
         /\ \A b \in V \ {a} : block[b].next \in V \ {s}
         /\ \A b \in V \ {s} : \E c \in V \ {a} : block[c].next = b
    BY <2>6 DEF Path
  <2>12. n \notin V
    <3> SUFFICES ASSUME n \in V PROVE FALSE
      OBVIOUS
    <3>1. PICK c \in V \ {a} : block[c].next = n
      BY <2>6, <2>11
    <3> QED
      BY <2>6, <2>9, <3>1
  <2>13. Path(block, V \cup {n}, n, s)
    <3>1. \A b \in (V \cup {n}) \ {n} : block[b].next \in (V \cup {n}) \ {s}
      BY <2>6, <2>11
    <3>2. \A b \in (V \cup {n}) \ {s} : \E c \in (V \cup {n}) \ {n} : block[c].next = b
      <4> SUFFICES ASSUME NEW b \in (V \cup {n}) \ {s} PROVE \E c \in V \ {n} : block[c].next = b
        OBVIOUS
      <4>1. CASE b = n
        BY <2>6, <2>12, <4>1
      <4>2. CASE b # n
        <5>1. PICK c \in V \ {a} : block[c].next = b
          BY <2>11, <4>2
        <5> QED
          BY <2>12, <5>1
      <4> QED
        BY <4>1, <4>2
    <3> QED
      BY <2>11, <3>1, <3>2 DEF Path
  <2>14. PICK L : L = lenAtCall[t]
    OBVIOUS
  <2>15. IF t = "producer" THEN SumOfProducer(V)' ELSE SumOfConsumer(V)'
    <3>1. CASE t = "producer"
      <4>1. Amount(block, V) <= w.sum /\ w.sum + Amount(block, Linked \ V) <= L
        BY <1>3, <2>4, <2>6, <2>14, <3>1 DEF Walking, SumOfProducer, Live, At
      <4>2. walk'["producer"] = v /\ lenAtCall'["producer"] = L /\ pc'["producer"] = "sizeFront"
        BY <2>1, <2>3, <2>7, <2>14, <3>1
      <4> QED
        BY <1>3, <2>3, <2>8, <3>1, <4>1, <4>2 DEF SumOfProducer, Live, At
    <3>2. CASE t = "consumer"
      <4>1. w.sum <= Amount(block, V) /\ L <= w.sum + Amount(block, Linked \ V)
        BY <1>3, <2>4, <2>6, <2>14, <3>2 DEF Walking, SumOfConsumer, Live, At
      <4>2. walk'["consumer"] = v /\ lenAtCall'["consumer"] = L /\ pc'["consumer"] = "sizeFront"
        BY <2>1, <2>3, <2>7, <2>14, <3>2
      <4> QED
        BY <1>3, <2>3, <2>8, <3>2, <4>1, <4>2 DEF SumOfConsumer, Live, At
    <3> QED
      BY <3>1, <3>2 DEF Thread
  <2>16. IF t = "producer" THEN ProducerTally' ELSE ConsumerTally'
    BY <1>3, <2>3, <2>7, <2>8, <2>10, <2>12, <2>13, <2>15, TallyNext
  <2> QED
    BY <1>3, <1>4, <2>1, <2>2, <2>16, WalkGoesOn
<1> QED
  BY <1>5, <1>6

-----------------------------------------------------------------------------
(* The invariant of the counts *)

(* Empty blocks hold nothing. *)
LEMMA EmptyBlocks ==
    ASSUME NEW r, NEW W, Sound(r, W), \A b \in W : r[b].front = r[b].tail
    PROVE  Amount(r, W) = 0
<1>1. \A b \in W : FromTo(r[b].front, r[b].tail, r[b].size) = {}
  <2> SUFFICES ASSUME NEW b \in W PROVE FromTo(r[b].front, r[b].tail, r[b].size) = {}
    OBVIOUS
  <2>1. PICK f, s : f = r[b].front /\ f = r[b].tail /\ s = r[b].size
    OBVIOUS
  <2>2. f \in Int /\ s \in Nat
    BY <2>1 DEF Sound
  <2>3. FromTo(f, f, s) = {}
    BY <2>2, SMT DEF FromTo
  <2> QED
    BY <2>1, <2>3
<1>2. Cells(r, W) = {}
  <2>1. \A c : c \notin Cells(r, W)
    BY <1>1, CellIsSlot
  <2> QED
    BY <2>1
<1> QED
  BY <1>2, FS_EmptySet DEF Amount

(* The queue is constructed with nothing to count. *)
LEMMA InitCounts == Init => RInv
<1> SUFFICES ASSUME Init PROVE RInv
  OBVIOUS
<1>1. IInv
  BY InitInvariant
<1>2. /\ frontBlock = 1 /\ tailBlock = 1 /\ largestBlockSize = InitialBlockSize
      /\ sent = 0 /\ taken = 0 /\ lenAtCall = [t \in Thread |-> 0]
      /\ pc = [t \in Thread |-> "idle"]
  BY DEF Init
<1>3. pc["producer"] = "idle" /\ pc["consumer"] = "idle"
  BY <1>2 DEF Thread
<1>4. PICK n, s : n = InitialBlockCount /\ s = InitialBlockSize
  OBVIOUS
<1>5. conf \in Configurations /\ n \in Nat /\ s \in Nat /\ s >= s
  <2>1. conf \in Configurations
    BY DEF Init
  <2> QED
    BY <1>4, <2>1, Sizes, SMT
<1>6. block = [b \in 1..n |-> NewBlock(s, IF b = n THEN 1 ELSE b + 1)]
  BY <1>4 DEF Init
<1>7. \A b \in 1..n : block[b].front = 0 /\ block[b].tail = 0 /\ block[b].size = s
  BY <1>6 DEF NewBlock
<1>8. Blocks = 1..n /\ Linked = Blocks /\ Pending = {}
  <2>1. BlocksTyped
    BY <1>1, RingFacts
  <2>2. block \in Seq(BlockRec)
    BY <2>1 DEF BlocksTyped
  <2>3. Blocks = 1..n
    BY <1>6, <2>2, LenProperties DEF Blocks
  <2> QED
    BY <1>3, <2>3 DEF Linked, Pending, At
<1>9. Total
  <2>1. Sound(block, Linked)
    BY <1>1, <1>8, RingFacts, SoundBlocks DEF AllSound
  <2>2. Amount(block, Linked) = 0
    BY <1>7, <1>8, <2>1, EmptyBlocks
  <2>3. 0 = 0 - 0 + 0
    BY SMT
  <2> QED
    BY <1>2, <1>3, <2>2, <2>3 DEF Total, Live, At
<1>10. LengthAtCall
  BY <1>2, <1>3 DEF LengthAtCall, At
<1>11. Full
  <2>1. InUse = {1}
    BY <1>2, <1>7, <1>8 DEF InUse, Empty
  <2> QED
    BY <1>2, <2>1 DEF Full
<1>12. Reserved
  BY <1>2, <1>4, <1>5, <1>7, <1>8 DEF Reserved
<1>13. Refusals
  BY <1>3 DEF Refusals, At
<1>14. ProducerTally /\ ConsumerTally
  BY <1>3 DEF ProducerTally, ConsumerTally, Counting
<1> QED
  BY <1>9, <1>10, <1>11, <1>12, <1>13, <1>14 DEF RInv

(* A step that changes nothing. *)
LEMMA CountsStutter ==
    ASSUME IInv, RInv, UNCHANGED vars
    PROVE  RInv'
<1>1. /\ conf' = conf /\ block' = block /\ frontBlock' = frontBlock /\ tailBlock' = tailBlock /\ pc' = pc
      /\ walk' = walk /\ sent' = sent /\ taken' = taken /\ largestBlockSize' = largestBlockSize
      /\ lenAtCall' = lenAtCall
  BY DEF vars
<1>2. /\ BlocksTyped /\ Linked \subseteq Blocks /\ tailBlock \in Blocks
      /\ Total /\ LengthAtCall /\ Full /\ Reserved /\ Refusals /\ ProducerTally /\ ConsumerTally
  BY RingFacts DEF IInv, RInv
<1>3. /\ Len(block') = Len(block) /\ Blocks' = Blocks /\ BlocksTyped'
      /\ SameFront /\ SameTail /\ SameNext /\ SameSize
  BY <1>1, <1>2, Untouched
<1>4. Linked' = Linked /\ InUse' = InUse
  BY <1>1, <1>2, <1>3, StaysInPlace
<1>5. Total' /\ LengthAtCall'
  BY <1>1, <1>2, <1>4 DEF Total, LengthAtCall, Live, At
<1>6. Full'
  <2>1. \A b : FullBlock(b)' <=> FullBlock(b)
    BY <1>1 DEF FullBlock, Advance
  <2>2. Overflows' => Overflows
    BY <1>1 DEF Overflows
  <2>3. Overflows' /\ tailBlock # frontBlock => FullBlock(tailBlock)
    BY <1>2, <2>2 DEF Full
  <2>4. Overflows' /\ tailBlock # frontBlock => FullBlock(tailBlock)'
    BY <1>1, <2>3, Zenon DEF FullBlock, Advance
  <2> QED
    BY <1>1, <1>2, <1>4, <2>1, <2>4, FullKept
<1>7. Reserved'
  BY <1>1, <1>2, <1>3, <1>4, ReservedKept
<1>8. Refusals'
  <2>1. Size' = Size
    BY <1>1 DEF Size
  <2> QED
    BY <1>1, <1>2, <2>1 DEF Refusals, At
<1>9. \A W \in SUBSET Blocks : /\ Amount(block, W) \in Nat /\ Amount(block', W) \in Nat
                               /\ Amount(block', W) <= Amount(block, W) /\ Amount(block, W) <= Amount(block', W)
  <2> SUFFICES ASSUME NEW W \in SUBSET Blocks PROVE Amount(block, W) \in Nat
    BY <1>1, SMT
  <2> QED
    BY <1>2, <1>3, SoundBefore, SomeBlocks
<1>10. lenAtCall \in [Thread -> Nat]
  BY <1>2 DEF LengthAtCall
<1>11. ProducerTally'
  BY <1>1, <1>2, <1>3, <1>4, <1>9, <1>10, ProducerTallyKept
<1>12. ConsumerTally'
  BY <1>1, <1>2, <1>3, <1>4, <1>9, <1>10, ConsumerTallyKept
<1> QED
  BY <1>5, <1>6, <1>7, <1>8, <1>11, <1>12 DEF RInv

(* Every step keeps it. *)
LEMMA StepCounts ==
    ASSUME IInv, RInv, [Next]_vars
    PROVE  RInv'
<1>1. IInv'
  BY StepInvariant
<1>2. CASE UNCHANGED vars
  BY <1>2, CountsStutter
<1>3. CASE Next
  <2>1. conf' = conf
    BY <1>3 DEF Next
  <2>2. CASE InnerEnqueue
    BY <1>1, <2>1, <2>2, EnqueueBeginCounts, LoadFrontCounts, ConstructCounts, PublishCounts,
       CheckNextCounts, UseNextCounts, ConstructNextCounts, AdvanceTailCounts,
       AdvanceBlockCounts, MakeBlockCounts, MakeBlockFailsCounts, LinkCounts DEF InnerEnqueue
  <2>3. CASE TryDequeue
    <3>1. CASE LoadTail
      BY <1>1, <2>1, <3>1, RefreshCounts DEF LoadTail
    <3>2. CASE Recheck
      BY <1>1, <2>1, <3>2, RefreshCounts DEF Recheck
    <3>3. CASE ~LoadTail /\ ~Recheck
      BY <1>1, <2>1, <2>3, <3>3, DequeueBeginCounts, LoadTailBlockCounts, LoadNextCounts, LoadNextTailCounts,
         MoveFrontCounts, ReadPeekedCounts, ReadCounts, ReleaseCounts DEF TryDequeue
    <3> QED
      BY <3>1, <3>2, <3>3
  <2>4. CASE \E t \in SizeCallers : SizeApprox(t)
    <3>1. PICK t \in SizeCallers : SizeApprox(t)
      BY <2>4
    <3>2. conf \in Configurations
      BY TypeFacts DEF IInv
    <3>3. t \in Thread
      BY <3>1, <3>2, RWQAssumption DEF SizeCallers
    <3> QED
      BY <1>1, <2>1, <3>1, <3>3, SizeBeginCounts, SizeFrontCounts, SizeTailCounts, SizeNextCounts DEF SizeApprox
  <2> QED
    BY <1>3, <2>2, <2>3, <2>4 DEF Next
<1> QED
  BY <1>2, <1>3

(* It holds in every state. *)
LEMMA CountsInvariant == Spec => [](IInv /\ RInv)
<1>1. IInv /\ RInv /\ [Next]_vars => (IInv /\ RInv)'
  BY StepInvariant, StepCounts
<1> QED
  BY <1>1, InitInvariant, InitCounts, PTL DEF Spec

-----------------------------------------------------------------------------
(* The steps of the blocks are steps of the abstract queue *)

(* The threads inside a call. *)
Busy == {t \in Thread : ~At(t, "idle")}

(* A call begins. *)
LEMMA AsCall ==
    ASSUME NEW t \in Thread, Size' = Size, t \notin Busy, Busy' = Busy \cup {t},
           lenAtCall' = [lenAtCall EXCEPT ![t] = Len(Contents)], result' = [result EXCEPT ![t] = Raw],
           Contents' = Contents, sent' = sent
    PROVE  Abstract!Next
<1>1. Abstract!Call(t)
  BY DEF Abstract!Call, Abstract!None, Raw, Busy
<1> QED
  BY <1>1 DEF Abstract!Next, Abstract!Thread, Thread

(* A call ends. *)
Ends(t, v) ==
    /\ t \in Busy /\ Busy' = Busy \ {t} /\ lenAtCall' = [lenAtCall EXCEPT ![t] = 0]
    /\ result' = [result EXCEPT ![t] = v] /\ Size' = Size

(* It ends with an element enqueued. *)
LEMMA AsEnqueue ==
    ASSUME Ends("producer", Raw), Contents' = Append(Contents, sent + 1), sent' = sent + 1
    PROVE  Abstract!Next
<1>1. Abstract!Enqueue
  BY DEF Ends, Abstract!Enqueue, Abstract!Return, Abstract!None, Raw, Busy
<1> QED
  BY <1>1 DEF Ends, Abstract!Next

(* It is refused. *)
LEMMA AsRefuseEnqueue ==
    ASSUME Ends("producer", Raw), Size <= lenAtCall["producer"], Size \in Nat, lenAtCall["producer"] \in Nat,
           Contents' = Contents, sent' = sent
    PROVE  Abstract!Next
<1>1. lenAtCall["producer"] >= Size
  OBVIOUS
<1>2. Abstract!RefuseEnqueue
  BY <1>1 DEF Ends, Abstract!RefuseEnqueue, Abstract!Return, Abstract!None, Raw, Busy
<1> QED
  BY <1>2 DEF Ends, Abstract!Next

(* It ends with the oldest element taken. *)
LEMMA AsDequeue ==
    ASSUME Ends("consumer", Head(Contents)), Contents # <<>>, Contents' = Tail(Contents), sent' = sent
    PROVE  Abstract!Next
<1>1. Abstract!Dequeue
  BY DEF Ends, Abstract!Dequeue, Abstract!Return, Busy
<1> QED
  BY <1>1 DEF Ends, Abstract!Next

(* It ends with the oldest element seen. *)
LEMMA AsPeek ==
    ASSUME Ends("consumer", Head(Contents)), Contents # <<>>, Contents' = Contents, sent' = sent
    PROVE  Abstract!Next
<1>1. Abstract!Peek
  BY DEF Ends, Abstract!Peek, Abstract!Return, Busy
<1> QED
  BY <1>1 DEF Ends, Abstract!Next

(* It finds nothing. *)
LEMMA AsRefuseDequeue ==
    ASSUME Ends("consumer", Raw), lenAtCall["consumer"] = 0, Contents' = Contents, sent' = sent
    PROVE  Abstract!Next
<1>1. Abstract!RefuseDequeue
  BY DEF Ends, Abstract!RefuseDequeue, Abstract!Return, Abstract!None, Raw, Busy
<1> QED
  BY <1>1 DEF Ends, Abstract!Next

(* It ends with a count. *)
LEMMA AsSizeApprox ==
    ASSUME NEW t \in Thread, NEW n \in Nat, Ends(t, n), Len(Contents) \in Nat, lenAtCall[t] \in Nat,
           IF t = "producer" THEN Len(Contents) <= n /\ n <= lenAtCall[t]
                             ELSE lenAtCall[t] <= n /\ n <= Len(Contents) + 1,
           Contents' = Contents, sent' = sent
    PROVE  Abstract!Next
<1>1. Abstract!SizeApprox(t, n)
  BY DEF Ends, Abstract!SizeApprox, Abstract!Return, Busy
<1>2. n \in 0..(Len(Contents) + lenAtCall[t] + 1)
  <2>1. PICK c \in Nat, l \in Nat : c = Len(Contents) /\ l = lenAtCall[t]
    OBVIOUS
  <2>2. n <= c + l + 1
    <3>1. CASE t = "producer"
      <4>1. n <= l
        BY <2>1, <3>1
      <4> QED
        BY <4>1, SMT
    <3>2. CASE t # "producer"
      <4>1. n <= c + 1
        BY <2>1, <3>2
      <4> QED
        BY <4>1, SMT
    <3> QED
      BY <3>1, <3>2
  <2>3. n \in 0..(c + l + 1)
    BY <2>2, SMT
  <2> QED
    BY <2>1, <2>3
<1> QED
  BY <1>1, <1>2 DEF Ends, Abstract!Next, Abstract!Thread, Thread

(* It goes on, unseen. *)
LEMMA AsStutter ==
    ASSUME Size' = Size, Contents' = Contents, sent' = sent, Busy' = Busy, lenAtCall' = lenAtCall,
           result' = result
    PROVE  UNCHANGED Abstract!vars
BY DEF Abstract!vars, Busy

(* Who is in a call after a step of t. *)
LEMMA BusyNext ==
    ASSUME pc \in [Thread -> Label], NEW t \in Thread, NEW l, pc' = [pc EXCEPT ![t] = l]
    PROVE  /\ t \in Busy <=> pc[t] # "idle"
           /\ l = "idle" => Busy' = Busy \ {t}
           /\ l # "idle" => Busy' = Busy \cup {t}
<1>1. pc'[t] = l /\ \A u \in Thread \ {t} : pc'[u] = pc[u]
  OBVIOUS
<1>2. Busy' = {u \in Thread : pc'[u] # "idle"} /\ Busy = {u \in Thread : pc[u] # "idle"}
  BY DEF Busy, At
<1> QED
  BY <1>1, <1>2

(* What is in the queue while nothing enters or leaves it. *)
LEMMA SameContents ==
    ASSUME IInv, IInv', sent' = sent, taken' = taken
    PROVE  Contents' = Contents
<1>1. Contents = Unread(taken, sent)
  BY NumbersNow DEF InStep
<1>2. Contents' = Unread(taken', sent')
  BY NumbersNext
<1> QED
  BY <1>1, <1>2

(* A step inside a call is unseen, if nothing enters or leaves. *)
LEMMA Unseen ==
    ASSUME IInv, IInv', conf' = conf, NEW t \in Thread, NEW from, NEW to, Step(t, from, to),
           from # "idle", to # "idle", sent' = sent, taken' = taken
    PROVE  UNCHANGED Abstract!vars
<1>1. pc \in [Thread -> Label]
  BY TypeFacts DEF IInv
<1>2. pc[t] = from /\ pc' = [pc EXCEPT ![t] = to] /\ lenAtCall' = lenAtCall /\ result' = result
  BY DEF Step, At, Goto
<1>3. Busy' = Busy
  BY <1>1, <1>2, BusyNext
<1> QED
  BY <1>2, <1>3, ConfKept, SameContents, AsStutter

(* A call that begins is seen. *)
LEMMA BeginIsCall ==
    ASSUME IInv, IInv', conf' = conf, NEW t \in Thread, NEW l, l # "idle", Begin(t, l),
           sent' = sent, taken' = taken
    PROVE  Abstract!Next
<1>1. pc \in [Thread -> Label]
  BY TypeFacts DEF IInv
<1>2. /\ pc[t] = "idle" /\ pc' = [pc EXCEPT ![t] = l]
      /\ lenAtCall' = [lenAtCall EXCEPT ![t] = sent - taken] /\ result' = [result EXCEPT ![t] = Raw]
  BY DEF Begin, At, Goto
<1>3. t \notin Busy /\ Busy' = Busy \cup {t}
  BY <1>1, <1>2, BusyNext
<1>4. Len(Contents) = sent - taken
  BY NumbersNow, UnreadIs DEF InStep
<1> QED
  BY <1>2, <1>3, <1>4, ConfKept, SameContents, AsCall

(* A call that returns ends. *)
LEMMA ReturnIsEnd ==
    ASSUME IInv, conf' = conf, NEW t \in Thread, NEW v, pc[t] # "idle", Return(t, v)
    PROVE  Ends(t, v)
<1>1. pc \in [Thread -> Label]
  BY TypeFacts DEF IInv
<1>2. /\ pc' = [pc EXCEPT ![t] = "idle"]
      /\ lenAtCall' = [lenAtCall EXCEPT ![t] = 0] /\ result' = [result EXCEPT ![t] = v]
  BY DEF Return, Goto
<1>3. t \in Busy /\ Busy' = Busy \ {t}
  BY <1>1, <1>2, BusyNext
<1> QED
  BY <1>2, <1>3, ConfKept DEF Ends

(* What the abstract queue may do in a step of the blocks. *)
Allowed == Abstract!Next \/ UNCHANGED Abstract!vars

(* The calls begin. *)
LEMMA CallsBegin ==
    ASSUME IInv, IInv', conf' = conf,
           \/ \E alloc \in BOOLEAN : EnqueueBegin(alloc)
           \/ \E o \in {"dequeue", "peek"} : DequeueBegin(o)
           \/ \E t \in Thread : SizeBegin(t)
    PROVE  Allowed
<1> DEFINE Begins == \E t \in Thread : \E l : Begin(t, l) /\ l # "idle" /\ sent' = sent /\ taken' = taken
<1>1. ASSUME NEW alloc \in BOOLEAN, EnqueueBegin(alloc) PROVE Begins
  <2>1. /\ Begin("producer", IF NextTail # block[tailBlock].localFront THEN "construct" ELSE "loadFront")
        /\ sent' = sent /\ taken' = taken
    BY <1>1 DEF EnqueueBegin, consumerRegs
  <2> QED
    BY <2>1, Zenon DEF Thread
<1>2. ASSUME NEW o \in {"dequeue", "peek"}, DequeueBegin(o) PROVE Begins
  <2>1. /\ Begin("consumer", IF block[frontBlock].front # block[frontBlock].localTail THEN "read" ELSE "loadTail")
        /\ sent' = sent /\ taken' = taken
    BY <1>2 DEF DequeueBegin, producerRegs
  <2> QED
    BY <2>1, Zenon DEF Thread
<1>3. ASSUME NEW t \in Thread, SizeBegin(t) PROVE Begins
  BY <1>3 DEF SizeBegin, producerRegs, consumerRegs
<1>4. Begins
  BY <1>1, <1>2, <1>3
<1> QED
  BY <1>4, BeginIsCall DEF Allowed

(* A step of the producer inside its call. *)
LEMMA ProducerUnseen ==
    ASSUME IInv, IInv', conf' = conf,
           LoadFront \/ Construct \/ UseNext \/ ConstructNext \/ AdvanceTail \/ MakeBlock \/ Link
    PROVE  Allowed
<1>1. PICK from, to : Step("producer", from, to) /\ from # "idle" /\ to # "idle"
  <2>1. CASE LoadFront
    <3>1. Step("producer", "loadFront", IF NextTail # block[tailBlock].front THEN "construct" ELSE "checkNext")
      BY <2>1 DEF LoadFront
    <3> QED
      BY <3>1, Zenon
  <2>2. CASE ~LoadFront
    BY <2>2 DEF Construct, UseNext, ConstructNext, AdvanceTail, MakeBlock, Link
  <2> QED
    BY <2>1, <2>2
<1>2. sent' = sent /\ taken' = taken
  BY DEF LoadFront, Construct, UseNext, ConstructNext, AdvanceTail, MakeBlock, Link, producerRegs, consumerRegs
<1> QED
  BY <1>1, <1>2, Unseen DEF Allowed, Thread

(* A step of the consumer inside its call. *)
LEMMA ConsumerUnseen ==
    ASSUME IInv, IInv', conf' = conf,
           LoadTail \/ Recheck \/ LoadNext \/ LoadNextTail \/ MoveFront \/ Read
    PROVE  Allowed
<1>1. PICK from, to : Step("consumer", from, to) /\ from # "idle" /\ to # "idle"
  <2>1. ASSUME NEW from, NEW other, RefreshLocalTail(from, other), from # "idle", other # "idle"
        PROVE \E f, to : Step("consumer", f, to) /\ f # "idle" /\ to # "idle"
    <3>1. Step("consumer", from, IF block[frontBlock].front # block[frontBlock].tail THEN "read" ELSE other)
      BY <2>1 DEF RefreshLocalTail
    <3> QED
      BY <2>1, <3>1, Zenon
  <2>2. CASE LoadTail
    BY <2>1, <2>2 DEF LoadTail
  <2>3. CASE Recheck
    BY <2>1, <2>3 DEF Recheck
  <2>4. CASE ~LoadTail /\ ~Recheck
    BY <2>4 DEF LoadNext, LoadNextTail, MoveFront, Read
  <2> QED
    BY <2>2, <2>3, <2>4
<1>2. sent' = sent /\ taken' = taken
  BY DEF LoadTail, Recheck, RefreshLocalTail, LoadNext, LoadNextTail, MoveFront, Read, producerRegs, consumerRegs
<1> QED
  BY <1>1, <1>2, Unseen DEF Allowed, Thread

(* The element is published, in the tail block or with the next one.         *)
LEMMA EnqueueIsSeen ==
    ASSUME IInv, IInv', conf' = conf, Publish \/ AdvanceBlock
    PROVE  Allowed
<1>1. pc["producer"] # "idle" /\ Return("producer", Raw) /\ sent' = sent + 1 /\ taken' = taken
  BY DEF Publish, AdvanceBlock, At, consumerRegs
<1>2. Ends("producer", Raw)
  BY <1>1, ReturnIsEnd DEF Thread
<1>3. Contents = Unread(taken, sent) /\ taken \in Nat /\ sent \in Nat /\ taken <= sent
  BY NumbersNow DEF InStep
<1>4. Contents' = Unread(taken, sent + 1)
  <2>1. Contents' = Unread(taken', sent')
    BY NumbersNext
  <2> QED
    BY <1>1, <2>1
<1>5. Append(Unread(taken, sent), sent + 1) = Unread(taken, sent + 1)
  BY <1>3, UnreadAppend
<1>6. Contents' = Append(Contents, sent + 1)
  BY <1>3, <1>4, <1>5
<1> QED
  BY <1>1, <1>2, <1>6, AsEnqueue DEF Allowed

(* try_enqueue finds no room, or the allocation fails.                       *)
LEMMA EnqueueRefused ==
    ASSUME IInv, IInv', RInv, conf' = conf, CheckNext \/ MakeBlockFails
    PROVE  Allowed
<1>1. sent' = sent /\ taken' = taken
  BY DEF CheckNext, MakeBlockFails, producerRegs, consumerRegs
<1>2. CASE \E to \in {"useNext", "makeBlock"} : Step("producer", "checkNext", to)
  BY <1>1, <1>2, Unseen DEF Allowed, Thread
<1>3. CASE ~\E to \in {"useNext", "makeBlock"} : Step("producer", "checkNext", to)
  <2>1. /\ pc["producer"] # "idle" /\ Return("producer", Raw)
        /\ At("producer", "makeBlock") \/ (At("producer", "checkNext") /\ ~NextBlockIsFree)
    BY <1>3 DEF CheckNext, MakeBlockFails, At
  <2>2. Size <= lenAtCall["producer"]
    BY <2>1, NoRoom DEF RInv, Refusals
  <2>3. Ends("producer", Raw)
    BY <2>1, ReturnIsEnd DEF Thread
  <2>4. Size \in Nat
    BY TypeFacts, Capacity DEF IInv
  <2>5. lenAtCall["producer"] \in Nat
    BY DEF RInv, LengthAtCall, Thread
  <2> QED
    BY <1>1, <2>2, <2>3, <2>4, <2>5, SameContents, AsRefuseEnqueue DEF Allowed
<1> QED
  BY <1>2, <1>3

(* The element leaves the queue. *)
LEMMA DequeueIsSeen ==
    ASSUME IInv, IInv', conf' = conf, Release
    PROVE  Allowed
<1>1. pc["consumer"] = "release" /\ Return("consumer", elem) /\ sent' = sent /\ taken' = taken + 1
  BY DEF Release, At, producerRegs
<1>2. Ends("consumer", elem)
  BY <1>1, ReturnIsEnd DEF Thread
<1>3. Contents = Unread(taken, sent) /\ taken \in Nat /\ sent \in Nat
  BY NumbersNow DEF InStep
<1>4. taken < sent /\ elem = taken + 1
  BY <1>1, ElementsRun DEF At
<1>5. Contents # <<>> /\ Head(Contents) = elem /\ Tail(Contents) = Unread(taken + 1, sent)
  BY <1>3, <1>4, UnreadTail
<1>6. Contents' = Unread(taken', sent')
  BY NumbersNext
<1>7. Contents' = Tail(Contents)
  BY <1>1, <1>5, <1>6
<1> QED
  BY <1>1, <1>2, <1>5, <1>7, AsDequeue DEF Allowed

(* A dequeue finds nothing. *)
LEMMA DequeueRefused ==
    ASSUME IInv, IInv', RInv, conf' = conf, LoadTailBlock
    PROVE  Allowed
<1>1. sent' = sent /\ taken' = taken
  BY DEF LoadTailBlock, producerRegs, consumerRegs
<1>2. CASE Step("consumer", "loadTailBlock", "recheck")
  BY <1>1, <1>2, Unseen DEF Allowed, Thread
<1>3. CASE ~Step("consumer", "loadTailBlock", "recheck")
  <2>1. frontBlock = tailBlock /\ At("consumer", "loadTailBlock") /\ Return("consumer", Raw)
    BY <1>3 DEF LoadTailBlock
  <2>2. lenAtCall["consumer"] = 0
    BY <2>1 DEF RInv, Refusals
  <2>3. Ends("consumer", Raw)
    BY <2>1, ReturnIsEnd DEF Thread, At
  <2> QED
    BY <1>1, <2>2, <2>3, SameContents, AsRefuseDequeue DEF Allowed
<1> QED
  BY <1>2, <1>3

(* The block that is read from holds the first element. *)
LEMMA ReadsFirst ==
    ASSUME IInv, At("consumer", "read")
    PROVE  /\ readBlock \in InUse /\ ~Empty(readBlock)
           /\ block[readBlock].data[block[readBlock].front] = taken + 1
<1>1. PICK b : b = readBlock
  OBVIOUS
<1>2. ConsumerAt /\ Chain /\ frontBlock \in InUse /\ Moved = {}
  BY RingFacts DEF IInv, Moved, At
<1>3. CASE b = frontBlock /\ HasOne(frontBlock)
  <2>1. b \in InUse /\ ~Empty(b) /\ First(b) = taken + 1
    BY <1>2, <1>3, FrontIsTaken DEF Chain
  <2> QED
    BY <1>1, <1>2, <2>1 DEF First, Val
<1>4. CASE FrontDone /\ b = block[frontBlock].next
  <2>1. frontBlock \in InUse \ {tailBlock} /\ Empty(frontBlock)
    BY <1>2, <1>4 DEF FrontDone
  <2>2. b \in InUse /\ ~Empty(b)
    BY <1>4, <2>1, RingFacts
  <2>3. First(b) = taken + 1
    BY <1>2, <1>4, <2>1 DEF Chain
  <2> QED
    BY <1>1, <1>2, <2>2, <2>3 DEF First, Val
<1> QED
  BY <1>1, <1>2, <1>3, <1>4 DEF ConsumerAt

(* A block that is not empty holds something. *)
LEMMA HoldsOne ==
    ASSUME IInv, NEW b \in Linked, ~Empty(b)
    PROVE  Amount(block, {b}) \in Nat /\ Amount(block, {b}) >= 1
<1>1. BlocksTyped /\ b \in Blocks
  BY RingFacts
<1>2. PICK f, t, s : f = block[b].front /\ t = block[b].tail /\ s = block[b].size
  OBVIOUS
<1>3. s \in Nat /\ s >= 2 /\ f \in 0..(s - 1) /\ t \in 0..(s - 1) /\ f # t
  BY <1>1, <1>2, BlockFacts DEF Empty
<1>4. b \notin {} /\ {} \in SUBSET Linked
  OBVIOUS
<1>5. Amount(block, {b}) = (t - f) % s /\ Amount(block, {b}) \in Nat
  BY <1>2, <1>4, Parts
<1>6. (t - f) % s # 0
  <2>1. CASE f < t
    <3>1. (t - f) \in 0..(s - 1) /\ t - f # 0
      BY <1>3, <2>1, SMT
    <3> QED
      BY <1>3, <3>1, SMT
  <2>2. CASE ~(f < t)
    <3>1. (t - f) % s = t - f + s
      BY <1>3, <2>2, SMT
    <3> QED
      BY <1>3, <2>2, <3>1, SMT
  <2> QED
    BY <2>1, <2>2
<1>7. PICK m \in Nat : m = Amount(block, {b})
  BY <1>5
<1>8. m # 0
  BY <1>5, <1>6, <1>7
<1> QED
  BY <1>7, <1>8, SMT

(* Then the queue holds something too. *)
LEMMA QueueHoldsOne ==
    ASSUME IInv, RInv, NEW b \in InUse, ~Empty(b)
    PROVE  taken < sent
<1>1. b \in Linked /\ taken \in Nat /\ sent \in Nat
  BY RingFacts, NumbersNow DEF InStep
<1>2. Amount(block, {b}) \in Nat /\ Amount(block, {b}) >= 1
  BY <1>1, HoldsOne
<1>3. /\ Amount(block, Linked \ {}) = Amount(block, {b}) + Amount(block, Linked \ ({} \cup {b}))
      /\ Amount(block, Linked \ ({} \cup {b})) \in Nat
  <2>1. b \notin {} /\ {} \in SUBSET Linked
    OBVIOUS
  <2> QED
    BY <1>1, <2>1, Parts
<1>4. Amount(block, Linked) = Amount(block, {b}) + Amount(block, Linked \ {b}) /\ Amount(block, Linked \ {b}) \in Nat
  <2>1. Linked \ {} = Linked /\ {} \cup {b} = {b}
    OBVIOUS
  <2> QED
    BY <1>3, <2>1
<1>5. PICK m, k, h : m = Amount(block, {b}) /\ k = Amount(block, Linked \ {b}) /\ h = sent - taken
  OBVIOUS
<1>6. CASE ~At("producer", "advanceBlock")
  <2>1. m + k = h + 0
    BY <1>4, <1>5, <1>6 DEF RInv, Total, Live
  <2> QED
    BY <1>1, <1>2, <1>4, <1>5, <2>1, SMT
<1>7. CASE At("producer", "advanceBlock")
  <2>1. m + k = h + 1
    BY <1>4, <1>5, <1>7 DEF RInv, Total, Live
  <2>2. PICK n : n = block[tailBlock].next
    OBVIOUS
  <2>3. n \in Linked /\ n \notin InUse
    BY <1>7, <2>2 DEF IInv, ProducerAt, NextIsFree, At
  <2>4. ~Empty(n)
    <3>1. Advance(block[n].front, n) = block[n].tail
      BY <1>7, <2>2 DEF IInv, ProducerAt, NextOfTail
    <3>2. block[n].size \in Nat /\ block[n].size >= 2 /\ block[n].front \in 0..(block[n].size - 1)
      BY <2>3, RingFacts, BlockFacts
    <3> QED
      BY <3>1, <3>2 DEF Advance, Empty
  <2>5. Amount(block, {n}) \in Nat /\ Amount(block, {n}) >= 1
    BY <2>3, <2>4, HoldsOne
  <2>6. /\ Amount(block, Linked \ {b}) = Amount(block, {n}) + Amount(block, Linked \ ({b} \cup {n}))
        /\ Amount(block, Linked \ ({b} \cup {n})) \in Nat
    <3>1. n \notin {b} /\ {b} \in SUBSET Linked
      BY <1>1, <2>3
    <3> QED
      BY <2>3, <3>1, Parts
  <2>7. k >= 1
    <3>1. PICK x \in Nat, y \in Nat : x = Amount(block, {n}) /\ y = Amount(block, Linked \ ({b} \cup {n}))
      BY <2>5, <2>6
    <3> QED
      BY <1>5, <2>5, <2>6, <3>1, SMT
  <2> QED
    BY <1>1, <1>2, <1>4, <1>5, <2>1, <2>7, SMT
<1> QED
  BY <1>6, <1>7

(* The element that is peeked at is the oldest, and stays. *)
LEMMA PeekIsSeen ==
    ASSUME IInv, IInv', RInv, conf' = conf, ReadPeeked
    PROVE  Allowed
<1>1. /\ At("consumer", "read") /\ pc["consumer"] # "idle"
      /\ Return("consumer", block[readBlock].data[block[readBlock].front])
      /\ sent' = sent /\ taken' = taken
  BY DEF ReadPeeked, At, producerRegs, consumerRegs
<1>2. readBlock \in InUse /\ ~Empty(readBlock) /\ block[readBlock].data[block[readBlock].front] = taken + 1
  BY <1>1, ReadsFirst
<1>3. Ends("consumer", taken + 1)
  BY <1>1, <1>2, ReturnIsEnd DEF Thread
<1>4. taken < sent
  BY <1>2, QueueHoldsOne
<1>5. Contents = Unread(taken, sent) /\ taken \in Nat /\ sent \in Nat
  BY NumbersNow DEF InStep
<1>6. Contents # <<>> /\ Head(Contents) = taken + 1
  BY <1>4, <1>5, UnreadTail
<1> QED
  BY <1>1, <1>3, <1>6, SameContents, AsPeek DEF Allowed

(* All blocks are counted, and the count is within its bounds. *)
LEMMA CountIsSeen ==
    ASSUME IInv, IInv', RInv, conf' = conf, NEW t \in Thread, SizeNext(t)
    PROVE  Allowed
<1>1. pc[t] = "sizeNext" /\ sent' = sent /\ taken' = taken
  BY DEF SizeNext, Step, At, producerRegs, consumerRegs
<1>2. CASE Step(t, "sizeNext", "sizeFront")
  BY <1>1, <1>2, Unseen DEF Allowed
<1>3. CASE ~Step(t, "sizeNext", "sizeFront")
  <2>1. block[walk[t].at].next = walk[t].start /\ Return(t, walk[t].sum)
    BY <1>3 DEF SizeNext
  <2>2. PICK w \in WalkRec, V \in SUBSET Linked : Walking(t, w, V)
    BY <1>1, WalkStands DEF Counting
  <2>3. PICK a, s, n : a = w.at /\ s = w.start /\ n = w.sum
    OBVIOUS
  <2>4. w = walk[t] /\ a \in V /\ Path(block, V, a, s) /\ block[a].next = s
    <3>1. w = walk[t] /\ a \in V /\ Path(block, V \cup {a}, a, s)
      BY <1>1, <2>2, <2>3 DEF Walking
    <3>2. V \cup {a} = V
      BY <3>1
    <3> QED
      BY <2>1, <2>3, <3>1, <3>2
  <2>5. V = Linked
    BY <2>4, AllCounted
  <2>6. Live(Linked \ V) = 0 /\ Live(V) = Live(Linked)
    <3>1. Linked \ V = {}
      BY <2>5
    <3> QED
      BY <2>5, <3>1, NoBlocks DEF Live
  <2>7. PICK h : h = IF At("producer", "advanceBlock") THEN 1 ELSE 0
    OBVIOUS
  <2>8. PICK c : c = sent - taken
    OBVIOUS
  <2>9. c \in Nat /\ Live(V) = c + h /\ (h = 0 \/ h = 1) /\ Len(Contents) = c
    <3>1. Contents = Unread(taken, sent) /\ taken \in Nat /\ sent \in Nat /\ taken <= sent
      BY NumbersNow DEF InStep
    <3>2. Len(Contents) = c /\ c \in Nat
      BY <2>8, <3>1, UnreadIs
    <3> QED
      BY <2>6, <2>7, <2>8, <3>2 DEF RInv, Total
  <2>10. n \in Int /\ lenAtCall[t] \in Nat /\ w.sum = n
    BY <2>2, <2>3 DEF WalkRec, RInv, LengthAtCall
  <2>11. IF t = "producer" THEN c <= n /\ n <= lenAtCall[t] ELSE lenAtCall[t] <= n /\ n <= c + 1
    <3>1. PICK m \in Nat : m = lenAtCall[t]
      BY <2>10
    <3>2. CASE t = "producer"
      <4>1. Live(V) <= n /\ n + Live(Linked \ V) <= m
        BY <1>1, <2>2, <2>4, <2>10, <3>1, <3>2 DEF Walking, SumOfProducer, At
      <4>2. c + h <= n /\ n + 0 <= m
        BY <2>6, <2>9, <4>1
      <4>3. c <= n /\ n <= m
        BY <2>9, <2>10, <4>2, SMT
      <4> QED
        BY <3>1, <3>2, <4>3
    <3>3. CASE t # "producer"
      <4>0. t = "consumer"
        BY <3>3 DEF Thread
      <4>1. n <= Live(V) /\ m <= n + Live(Linked \ V)
        BY <1>1, <2>2, <2>4, <2>10, <3>1, <4>0 DEF Walking, SumOfConsumer
      <4>2. n <= c + h /\ m <= n + 0
        BY <2>6, <2>9, <4>1
      <4>3. n <= c + 1 /\ m <= n
        BY <2>9, <2>10, <4>2, SMT
      <4> QED
        BY <3>1, <3>3, <4>3
    <3> QED
      BY <3>2, <3>3
  <2>12. Ends(t, n)
    BY <1>1, <2>1, <2>3, <2>4, ReturnIsEnd
  <2>13. n \in Nat
    BY <2>9, <2>10, <2>11
  <2> QED
    BY <1>1, <2>9, <2>10, <2>11, <2>12, <2>13, SameContents, AsSizeApprox DEF Allowed
<1> QED
  BY <1>2, <1>3

(* The queue is empty at first. *)
LEMMA StartsEmpty == Init => Abstract!Init
<1> SUFFICES ASSUME Init PROVE Abstract!Init
  OBVIOUS
<1>1. sent = 0 /\ taken = 0 /\ conf \in Configurations
      /\ lenAtCall = [t \in Thread |-> 0] /\ result = [t \in Thread |-> Raw]
      /\ pc = [t \in Thread |-> "idle"]
  BY DEF Init
<1>2. Size \in Nat
  BY <1>1, Capacity
<1>3. Contents = <<>>
  <2>1. Contents = Unread(taken, sent)
    BY InitInvariant, NumbersNow DEF InStep
  <2> QED
    BY <1>1, <2>1, UnreadEmpty
<1>4. {t \in Thread : ~At(t, "idle")} = {}
  BY <1>1 DEF At
<1> QED
  BY <1>1, <1>2, <1>3, <1>4 DEF Abstract!Init, Abstract!Thread, Abstract!None, Thread, Raw

(* Every step is one of the abstract queue, or unseen. *)
LEMMA StepIsAllowed ==
    ASSUME IInv, RInv, [Next]_vars
    PROVE  Allowed
<1>1. IInv'
  BY StepInvariant
<1>2. CASE UNCHANGED vars
  <2>1. /\ conf' = conf /\ pc' = pc /\ lenAtCall' = lenAtCall /\ result' = result
        /\ sent' = sent /\ taken' = taken
    BY <1>2 DEF vars
  <2>2. Busy' = Busy
    BY <2>1 DEF Busy, At
  <2> QED
    BY <1>1, <2>1, <2>2, ConfKept, SameContents, AsStutter DEF Allowed
<1>3. CASE Next
  <2>1. conf' = conf
    BY <1>3 DEF Next
  <2>2. CASE InnerEnqueue
    BY <1>1, <2>1, <2>2, CallsBegin, ProducerUnseen, EnqueueIsSeen, EnqueueRefused DEF InnerEnqueue
  <2>3. CASE TryDequeue
    BY <1>1, <2>1, <2>3, CallsBegin, ConsumerUnseen, DequeueRefused, PeekIsSeen, DequeueIsSeen DEF TryDequeue
  <2>4. CASE \E t \in SizeCallers : SizeApprox(t)
    <3>1. PICK t \in SizeCallers : SizeApprox(t)
      BY <2>4
    <3>2. conf \in Configurations
      BY TypeFacts DEF IInv
    <3>3. t \in Thread
      BY <3>1, <3>2, RWQAssumption DEF SizeCallers
    <3>4. CASE SizeBegin(t)
      BY <1>1, <2>1, <3>3, <3>4, CallsBegin
    <3>5. CASE SizeNext(t)
      BY <1>1, <2>1, <3>3, <3>5, CountIsSeen
    <3>6. CASE SizeFront(t) \/ SizeTail(t)
      <4>1. PICK from, to : Step(t, from, to) /\ from # "idle" /\ to # "idle"
        BY <3>6 DEF SizeFront, SizeTail
      <4>2. sent' = sent /\ taken' = taken
        BY <3>6 DEF SizeFront, SizeTail, producerRegs, consumerRegs
      <4> QED
        BY <1>1, <2>1, <3>3, <4>1, <4>2, Unseen DEF Allowed
    <3> QED
      BY <3>1, <3>4, <3>5, <3>6 DEF SizeApprox
  <2> QED
    BY <1>3, <2>2, <2>3, <2>4 DEF Next
<1> QED
  BY <1>2, <1>3

(* The ring of blocks implements the abstract queue, whatever the sizes and  *)
(* the number of blocks: elements leave in the order they entered, once each;*)
(* a dequeue or a peek finds nothing only if the queue was empty when it was *)
(* called; try_enqueue is refused only if `size` elements were in the queue  *)
(* when it was called; what size_approx returns lies between the length at   *)
(* the call and the length at the return, but for one element whose enqueue  *)
(* has not returned.                                                         *)
THEOREM QueueImplemented == Spec => ImplementsQueue
<1>1. IInv /\ RInv /\ [Next]_vars => [Abstract!Next]_Abstract!vars
  BY StepIsAllowed DEF Allowed
<1> QED
  BY <1>1, StartsEmpty, CountsInvariant, PTL DEF ImplementsQueue, Abstract!Spec, Spec

(* The elements in the queue are those that were enqueued and not taken, each *)
(* once and oldest first, whatever blocks and slots they went through.        *)
THEOREM FirstInFirstOut == Spec => [](Contents = Unread(taken, sent))
<1>1. IInv => Contents = Unread(taken, sent)
  BY Numbers
<1> QED
  BY <1>1, Invariance, PTL
==============================================================================
