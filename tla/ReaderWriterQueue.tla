-------------------------- MODULE ReaderWriterQueue --------------------------
(***************************************************************************)
(* moodycamel::ReaderWriterQueue (readerwriterqueue.h): a ring of blocks,  *)
(* each a circular buffer, shared without locks by one producer and one    *)
(* consumer.  A step performs at most one access to memory the other       *)
(* thread writes; what only its own thread writes is read in the same      *)
(* step.  Memory is sequentially consistent (the fences of the code).      *)
(***************************************************************************)
EXTENDS Integers, Sequences, FiniteSets

CONSTANT Configurations   \* how the queue is made and used

Thread == {"producer", "consumer"}

ASSUME RWQAssumption ==
    \A c \in Configurations :
        /\ c.size \in Nat \ {0}
        /\ c.maxBlockSize \in Nat /\ c.maxBlockSize >= 2
        /\ c.maxBlocks \in Nat /\ c.maxElements \in Nat
        /\ c.sizeCallers \subseteq Thread

Raw == 0                 \* a slot with no live object; elements are 1, 2, 3, ...

VARIABLES
    conf,             \* one of Configurations
    block,            \* Seq of Block records; a Block* is an index, nullptr is 0
    frontBlock,       \* block the consumer takes from (written by the consumer)
    tailBlock,        \* block the producer fills (written by the producer)
    largestBlockSize,
    pc,               \* where each thread is in its call
    canAlloc,         \* producer: CanAlloc (enqueue) or CannotAlloc (try_enqueue)
    op,               \* consumer: "dequeue" (also pop) or "peek"
    readBlock,        \* consumer: block of the element it is about to read
    elem,             \* consumer: element moved out, not yet returned
    walk,             \* size_approx registers of each thread
    sent, taken,      \* history: elements enqueued, elements dequeued
    lenAtCall,        \* history: elements in the queue when a thread's call began
    result            \* history: what each thread's last call returned

consumerRegs == <<op, readBlock, elem, taken>>
producerRegs == <<canAlloc, sent, largestBlockSize>>
vars == <<conf, block, frontBlock, tailBlock, largestBlockSize, pc, canAlloc, op,
          readBlock, elem, walk, sent, taken, lenAtCall, result>>

Size         == conf.size           \* constructor argument: elements to hold without allocating
MaxBlockSize == conf.maxBlockSize   \* template argument MAX_BLOCK_SIZE
MaxBlocks    == conf.maxBlocks      \* bound: malloc fails when this many blocks exist
MaxElements  == conf.maxElements    \* bound: elements the producer enqueues in all
SizeCallers  == conf.sizeCallers    \* the threads that also call size_approx

-----------------------------------------------------------------------------
(* Construction *)

Power[k \in Nat] == IF k = 0 THEN 1 ELSE 2 * Power[k - 1]

(* ceilToPow2: the least power of two that is not less than x *)
CeilToPow2(x) == CHOOSE p \in {Power[k] : k \in 0..x} :
                    p >= x /\ \A k \in 0..x : Power[k] >= x => p <= Power[k]

SeveralBlocks == CeilToPow2(Size + 1) > 2 * MaxBlockSize

InitialBlockSize == IF SeveralBlocks THEN MaxBlockSize ELSE CeilToPow2(Size + 1)

(* mutant: no spare block *)
InitialBlockCount_NoSpare ==
    IF SeveralBlocks THEN (Size + MaxBlockSize - 2) \div (MaxBlockSize - 1) ELSE 1

InitialBlockCount ==
    IF SeveralBlocks THEN (Size + MaxBlockSize * 2 - 3) \div (MaxBlockSize - 1) ELSE 1

NewBlock(capacity, successor) ==
    [front |-> 0, localTail |-> 0, tail |-> 0, localFront |-> 0,
     next |-> successor, size |-> capacity,
     data |-> [i \in 0..(capacity - 1) |-> Raw]]

WalkFrom(b) == [start |-> b, at |-> b, front |-> 0, sum |-> 0]

Init ==
    /\ conf \in Configurations
    /\ block = [b \in 1..InitialBlockCount |->
                  NewBlock(InitialBlockSize, IF b = InitialBlockCount THEN 1 ELSE b + 1)]
    /\ frontBlock = 1
    /\ tailBlock = 1
    /\ largestBlockSize = InitialBlockSize
    /\ pc = [t \in Thread |-> "idle"]
    /\ canAlloc = FALSE
    /\ op = "dequeue"
    /\ readBlock = 1
    /\ elem = Raw
    /\ walk = [t \in Thread |-> WalkFrom(1)]
    /\ sent = 0 /\ taken = 0
    /\ lenAtCall = [t \in Thread |-> 0]
    /\ result = [t \in Thread |-> Raw]

-----------------------------------------------------------------------------
(* Helpers *)

At(t, label) == pc[t] = label
Goto(t, label) == pc' = [pc EXCEPT ![t] = label]

(* mutant: the index is not masked *)
Advance_NoMask(i, b) == i + 1

(* (i + 1) & sizeMask *)
Advance(i, b) == IF i + 1 = block[b].size THEN 0 ELSE i + 1

NextTail == Advance(block[tailBlock].tail, tailBlock)

Begin(t, label) ==
    /\ At(t, "idle")
    /\ Goto(t, label)
    /\ lenAtCall' = [lenAtCall EXCEPT ![t] = sent - taken]
    /\ result' = [result EXCEPT ![t] = Raw]

Return(t, value) ==
    /\ Goto(t, "idle")
    /\ lenAtCall' = [lenAtCall EXCEPT ![t] = 0]
    /\ result' = [result EXCEPT ![t] = value]

(* a step inside a call *)
Step(t, from, to) == At(t, from) /\ Goto(t, to) /\ UNCHANGED <<lenAtCall, result>>

-----------------------------------------------------------------------------
(* inner_enqueue: the producer *)

(* mutant: tail rather than the next tail is compared, so no slot stays unused *)
EnqueueBegin_NoSpareSlot(alloc) ==
    /\ sent < MaxElements
    /\ Begin("producer", IF block[tailBlock].tail # block[tailBlock].localFront
                         THEN "construct" ELSE "loadFront")
    /\ canAlloc' = alloc
    /\ UNCHANGED <<block, frontBlock, tailBlock, largestBlockSize, sent, consumerRegs, walk>>

EnqueueBegin(alloc) ==
    /\ sent < MaxElements
    /\ Begin("producer", IF NextTail # block[tailBlock].localFront
                         THEN "construct" ELSE "loadFront")
    /\ canAlloc' = alloc
    /\ UNCHANGED <<block, frontBlock, tailBlock, largestBlockSize, sent, consumerRegs, walk>>

LoadFront ==
    /\ Step("producer", "loadFront",
            IF NextTail # block[tailBlock].front THEN "construct" ELSE "checkNext")
    /\ block' = [block EXCEPT ![tailBlock].localFront = block[tailBlock].front]
    /\ UNCHANGED <<frontBlock, tailBlock, producerRegs, consumerRegs, walk>>

Construct ==
    /\ Step("producer", "construct", "publish")
    /\ block' = [block EXCEPT ![tailBlock].data[block[tailBlock].tail] = sent + 1]
    /\ UNCHANGED <<frontBlock, tailBlock, producerRegs, consumerRegs, walk>>

Publish ==
    /\ At("producer", "publish")
    /\ block' = [block EXCEPT ![tailBlock].tail = NextTail]
    /\ sent' = sent + 1
    /\ Return("producer", Raw)
    /\ UNCHANGED <<frontBlock, tailBlock, largestBlockSize, canAlloc, consumerRegs, walk>>

(* mutant: the producer does not look where the consumer is *)
NextBlockIsFree_Unchecked == TRUE

NextBlockIsFree == block[tailBlock].next # frontBlock

CheckNext ==
    /\ \/ NextBlockIsFree /\ Step("producer", "checkNext", "useNext")
       \/ ~NextBlockIsFree /\ canAlloc /\ Step("producer", "checkNext", "makeBlock")
       \/ ~NextBlockIsFree /\ ~canAlloc /\ At("producer", "checkNext") /\ Return("producer", Raw)
    /\ UNCHANGED <<block, frontBlock, tailBlock, producerRegs, consumerRegs, walk>>

UseNext ==
    /\ Step("producer", "useNext", "constructNext")
    /\ LET n == block[tailBlock].next
       IN  block' = [block EXCEPT ![n].localFront = block[n].front]
    /\ UNCHANGED <<frontBlock, tailBlock, producerRegs, consumerRegs, walk>>

ConstructNext ==
    /\ Step("producer", "constructNext", "advanceTail")
    /\ LET n == block[tailBlock].next
       IN  block' = [block EXCEPT ![n].data[block[n].tail] = sent + 1]
    /\ UNCHANGED <<frontBlock, tailBlock, producerRegs, consumerRegs, walk>>

AdvanceTail ==
    /\ Step("producer", "advanceTail", "advanceBlock")
    /\ LET n == block[tailBlock].next
       IN  block' = [block EXCEPT ![n].tail = Advance(block[n].tail, n)]
    /\ UNCHANGED <<frontBlock, tailBlock, producerRegs, consumerRegs, walk>>

AdvanceBlock ==
    /\ At("producer", "advanceBlock")
    /\ tailBlock' = block[tailBlock].next
    /\ sent' = sent + 1
    /\ Return("producer", Raw)
    /\ UNCHANGED <<block, frontBlock, largestBlockSize, canAlloc, consumerRegs, walk>>

NewBlockSize == IF largestBlockSize >= MaxBlockSize THEN largestBlockSize
                ELSE largestBlockSize * 2

(* mutant: the new block is linked back to the tail block, losing the rest of the ring *)
MakeBlock_LosesRing ==
    /\ Step("producer", "makeBlock", "link")
    /\ Len(block) < MaxBlocks
    /\ block' = Append(block, [NewBlock(NewBlockSize, tailBlock) EXCEPT
                                 !.data[0] = sent + 1, !.tail = 1, !.localTail = 1])
    /\ largestBlockSize' = NewBlockSize
    /\ UNCHANGED <<frontBlock, tailBlock, canAlloc, sent, consumerRegs, walk>>

(* mutant: the element is constructed but the tail stays 0 *)
MakeBlock_NoTail ==
    /\ Step("producer", "makeBlock", "link")
    /\ Len(block) < MaxBlocks
    /\ block' = Append(block, [NewBlock(NewBlockSize, block[tailBlock].next) EXCEPT
                                 !.data[0] = sent + 1])
    /\ largestBlockSize' = NewBlockSize
    /\ UNCHANGED <<frontBlock, tailBlock, canAlloc, sent, consumerRegs, walk>>

(* malloc succeeds; the new block is filled before any other thread can see it *)
MakeBlock ==
    /\ Step("producer", "makeBlock", "link")
    /\ Len(block) < MaxBlocks
    /\ block' = Append(block, [NewBlock(NewBlockSize, block[tailBlock].next) EXCEPT
                                 !.data[0] = sent + 1, !.tail = 1, !.localTail = 1])
    /\ largestBlockSize' = NewBlockSize
    /\ UNCHANGED <<frontBlock, tailBlock, canAlloc, sent, consumerRegs, walk>>

(* malloc may fail at any time *)
MakeBlockFails ==
    /\ At("producer", "makeBlock")
    /\ Return("producer", Raw)
    /\ UNCHANGED <<block, frontBlock, tailBlock, producerRegs, consumerRegs, walk>>

Link ==
    /\ Step("producer", "link", "advanceBlock")
    /\ block' = [block EXCEPT ![tailBlock].next = Len(block)]
    /\ UNCHANGED <<frontBlock, tailBlock, producerRegs, consumerRegs, walk>>

-----------------------------------------------------------------------------
(* try_dequeue, pop and peek: the consumer *)

DequeueBegin(o) ==
    /\ Begin("consumer", IF block[frontBlock].front # block[frontBlock].localTail
                         THEN "read" ELSE "loadTail")
    /\ op' = o
    /\ readBlock' = frontBlock
    /\ UNCHANGED <<block, frontBlock, tailBlock, producerRegs, elem, taken, walk>>

(* localTail = tail.load(), and on to `otherwise` if the block still looks empty *)
RefreshLocalTail(from, otherwise) ==
    /\ Step("consumer", from, IF block[frontBlock].front # block[frontBlock].tail
                              THEN "read" ELSE otherwise)
    /\ block' = [block EXCEPT ![frontBlock].localTail = block[frontBlock].tail]
    /\ UNCHANGED <<frontBlock, tailBlock, producerRegs, consumerRegs, walk>>

LoadTail == RefreshLocalTail("loadTail", "loadTailBlock")

(* mutant: no second look at the front block once the tail block is seen elsewhere *)
LoadTailBlock_NoRecheck ==
    /\ \/ frontBlock # tailBlock /\ Step("consumer", "loadTailBlock", "loadNext")
       \/ frontBlock = tailBlock /\ At("consumer", "loadTailBlock") /\ Return("consumer", Raw)
    /\ UNCHANGED <<block, frontBlock, tailBlock, producerRegs, consumerRegs, walk>>

LoadTailBlock ==
    /\ \/ frontBlock # tailBlock /\ Step("consumer", "loadTailBlock", "recheck")
       \/ frontBlock = tailBlock /\ At("consumer", "loadTailBlock") /\ Return("consumer", Raw)
    /\ UNCHANGED <<block, frontBlock, tailBlock, producerRegs, consumerRegs, walk>>

(* mutant: the second look uses the shadow copy of tail *)
Recheck_Stale ==
    /\ Step("consumer", "recheck", IF block[frontBlock].front # block[frontBlock].localTail
                                   THEN "read" ELSE "loadNext")
    /\ UNCHANGED <<block, frontBlock, tailBlock, producerRegs, consumerRegs, walk>>

Recheck == RefreshLocalTail("recheck", "loadNext")

LoadNext ==
    /\ Step("consumer", "loadNext", "loadNextTail")
    /\ readBlock' = block[frontBlock].next
    /\ UNCHANGED <<block, frontBlock, tailBlock, producerRegs, op, elem, taken, walk>>

LoadNextTail ==
    /\ \/ /\ op = "peek"
          /\ Step("consumer", "loadNextTail", "read")
          /\ UNCHANGED block
       \/ /\ op = "dequeue"
          /\ Step("consumer", "loadNextTail", "moveFront")
          /\ block' = [block EXCEPT ![readBlock].localTail = block[readBlock].tail]
    /\ UNCHANGED <<frontBlock, tailBlock, producerRegs, consumerRegs, walk>>

MoveFront ==
    /\ Step("consumer", "moveFront", "read")
    /\ frontBlock' = readBlock
    /\ UNCHANGED <<block, tailBlock, producerRegs, consumerRegs, walk>>

(* peek: the caller dereferences the pointer it was given *)
ReadPeeked ==
    /\ At("consumer", "read") /\ op = "peek"
    /\ Return("consumer", block[readBlock].data[block[readBlock].front])
    /\ UNCHANGED <<block, frontBlock, tailBlock, producerRegs, consumerRegs, walk>>

(* mutant: the moved-from element is not destroyed *)
Read_Leaks ==
    /\ op = "dequeue"
    /\ Step("consumer", "read", "release")
    /\ elem' = block[readBlock].data[block[readBlock].front]
    /\ UNCHANGED <<block, frontBlock, tailBlock, producerRegs, op, readBlock, taken, walk>>

(* move the element out and destroy it in its slot *)
Read ==
    /\ op = "dequeue"
    /\ Step("consumer", "read", "release")
    /\ LET i == block[readBlock].front
       IN  /\ elem' = block[readBlock].data[i]
           /\ block' = [block EXCEPT ![readBlock].data[i] = Raw]
    /\ UNCHANGED <<frontBlock, tailBlock, producerRegs, op, readBlock, taken, walk>>

Release ==
    /\ At("consumer", "release")
    /\ block' = [block EXCEPT ![readBlock].front = Advance(block[readBlock].front, readBlock)]
    /\ taken' = taken + 1
    /\ Return("consumer", elem)
    /\ elem' = Raw
    /\ UNCHANGED <<frontBlock, tailBlock, producerRegs, op, readBlock, walk>>

-----------------------------------------------------------------------------
(* size_approx, which either thread may call *)

SizeBegin(t) ==
    /\ Begin(t, "sizeFront")
    /\ walk' = [walk EXCEPT ![t] = WalkFrom(frontBlock)]
    /\ UNCHANGED <<block, frontBlock, tailBlock, producerRegs, consumerRegs>>

SizeFront(t) ==
    /\ Step(t, "sizeFront", "sizeTail")
    /\ walk' = [walk EXCEPT ![t].front = block[walk[t].at].front]
    /\ UNCHANGED <<block, frontBlock, tailBlock, producerRegs, consumerRegs>>

(* mutant: the difference is not masked *)
SizeTail_NoMask(t) ==
    /\ Step(t, "sizeTail", "sizeNext")
    /\ walk' = [walk EXCEPT ![t].sum = @ + (block[walk[t].at].tail - walk[t].front)]
    /\ UNCHANGED <<block, frontBlock, tailBlock, producerRegs, consumerRegs>>

SizeTail(t) ==
    /\ Step(t, "sizeTail", "sizeNext")
    /\ LET b == block[walk[t].at]
       IN  walk' = [walk EXCEPT ![t].sum = @ + ((b.tail - walk[t].front) % b.size)]
    /\ UNCHANGED <<block, frontBlock, tailBlock, producerRegs, consumerRegs>>

SizeNext(t) ==
    /\ LET n == block[walk[t].at].next
       IN  \/ /\ n = walk[t].start
              /\ At(t, "sizeNext") /\ Return(t, walk[t].sum)
              /\ walk' = [walk EXCEPT ![t] = WalkFrom(1)]
           \/ /\ n # walk[t].start
              /\ Step(t, "sizeNext", "sizeFront")
              /\ walk' = [walk EXCEPT ![t].at = n]
    /\ UNCHANGED <<block, frontBlock, tailBlock, producerRegs, consumerRegs>>

SizeApprox(t) == SizeBegin(t) \/ SizeFront(t) \/ SizeTail(t) \/ SizeNext(t)

-----------------------------------------------------------------------------
InnerEnqueue ==
    \/ \E alloc \in BOOLEAN : EnqueueBegin(alloc)
    \/ LoadFront \/ Construct \/ Publish
    \/ CheckNext \/ UseNext \/ ConstructNext \/ AdvanceTail \/ AdvanceBlock
    \/ MakeBlock \/ MakeBlockFails \/ Link

TryDequeue ==
    \/ \E o \in {"dequeue", "peek"} : DequeueBegin(o)
    \/ LoadTail \/ LoadTailBlock \/ Recheck
    \/ LoadNext \/ LoadNextTail \/ MoveFront
    \/ ReadPeeked \/ Read \/ Release

Next ==
    /\ InnerEnqueue \/ TryDequeue \/ \E t \in SizeCallers : SizeApprox(t)
    /\ UNCHANGED conf

Spec == Init /\ [][Next]_vars

-----------------------------------------------------------------------------
(* Properties *)

Blocks == 1..Len(block)

BlockType(r) ==
    /\ r.size \in Nat \ {0}
    /\ {r.front, r.localTail, r.tail, r.localFront} \subseteq 0..(r.size - 1)
    /\ r.next \in Blocks
    /\ r.data \in [0..(r.size - 1) -> Nat]

(* Every Block* is a block that exists, every index is inside its block and *)
(* every thread is at a point of the call it is making.                     *)
TypeOK ==
    /\ conf \in Configurations
    /\ block # <<>>
    /\ \A b \in Blocks : BlockType(block[b])
    /\ frontBlock \in Blocks /\ tailBlock \in Blocks /\ readBlock \in Blocks
    /\ largestBlockSize \in Nat \ {0}
    /\ pc["producer"] \in {"idle", "loadFront", "construct", "publish", "checkNext",
                           "useNext", "constructNext", "advanceTail", "advanceBlock",
                           "makeBlock", "link", "sizeFront", "sizeTail", "sizeNext"}
    /\ pc["consumer"] \in {"idle", "loadTail", "loadTailBlock", "recheck", "loadNext",
                           "loadNextTail", "moveFront", "read", "release",
                           "sizeFront", "sizeTail", "sizeNext"}
    /\ canAlloc \in BOOLEAN /\ op \in {"dequeue", "peek"}
    /\ {elem, sent, taken} \subseteq Nat
    /\ \A t \in Thread : walk[t].at \in Blocks /\ walk[t].start \in Blocks

NextOfTail == block[block[tailBlock].next]

(* The assertions of the code never fail: the block the producer moves to   *)
(* is empty (line 589) and the block the consumer moves to, or peeks into,  *)
(* is not (lines 352, 417 and 468).                                         *)
AssertionsHold ==
    /\ At("producer", "constructNext") => NextOfTail.localFront = NextOfTail.tail
    /\ At("consumer", "loadNextTail") => block[readBlock].front # block[readBlock].tail
    /\ At("consumer", "moveFront") => block[readBlock].front # block[readBlock].localTail

(* Where the producer is about to construct, and where the consumer is      *)
(* about to read or destroy, an element.                                    *)
SlotWritten ==
    CASE At("producer", "construct")     -> {<<tailBlock, block[tailBlock].tail>>}
      [] At("producer", "constructNext") -> {<<block[tailBlock].next, NextOfTail.tail>>}
      [] OTHER -> {}

SlotRead ==
    IF At("consumer", "read") THEN {<<readBlock, block[readBlock].front>>} ELSE {}

SlotValue(s) == block[s[1]].data[s[2]]

(* The two threads never touch the same slot at the same time; an element is *)
(* constructed only in a slot whose element was destroyed, and the one that  *)
(* is read, or peeked at, is alive and the first that was not taken yet.     *)
SlotsExclusive ==
    /\ SlotWritten \cap SlotRead = {}
    /\ \A s \in SlotWritten : SlotValue(s) = Raw
    /\ \A s \in SlotRead : SlotValue(s) = taken + 1

Hop[n \in Nat] == IF n = 0 THEN frontBlock ELSE block[Hop[n - 1]].next

Linked == IF At("producer", "link") THEN Blocks \ {Len(block)} ELSE Blocks

(* Blocks are never lost: from the front block, the next pointers visit every *)
(* block that was linked exactly once and come back.  max_capacity, size_approx *)
(* and the destructor walk this ring until they are back.                     *)
RingIntact ==
    LET n == Cardinality(Linked)
    IN  {Hop[k] : k \in 0..(n - 1)} = Linked /\ Hop[n] = frontBlock

Occupied(b) == LET r == block[b]
               IN  {i \in 0..(r.size - 1) : IF r.front <= r.tail
                                            THEN r.front <= i /\ i < r.tail
                                            ELSE r.front <= i \/ i < r.tail}

(* Between calls the live elements are exactly the slots from front to tail *)
(* of each block, the ones the destructor destroys: none leaks and none is  *)
(* destroyed twice.                                                         *)
DestructorDestroysTheLive ==
    (\A t \in Thread : At(t, "idle")) =>
        \A b \in Blocks : Occupied(b) = {i \in DOMAIN block[b].data : block[b].data[i] # Raw}
=============================================================================
