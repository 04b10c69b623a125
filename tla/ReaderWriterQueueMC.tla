------------------------ MODULE ReaderWriterQueueMC ------------------------
(* Two queues to check: one that reserves several blocks, and one that begins *)
(* with a single block and grows.                                             *)
EXTENDS ReaderWriterQueueMapping

(* (4 + 2*2 - 3) / (2 - 1) = 5 blocks are reserved, a sixth is allocated.   *)
Ring == [size |-> 4, maxBlockSize |-> 2, maxBlocks |-> 6, maxElements |-> 8, sizeCallers |-> {}]

(* One block of two slots at first; the appended block is twice as large,   *)
(* and both threads call size_approx.                                       *)
Grow == [size |-> 1, maxBlockSize |-> 4, maxBlocks |-> 2, maxElements |-> 6,
         sizeCallers |-> Thread]

RingAndGrow == {Ring, Grow}
=============================================================================
