---------------------- MODULE ReaderWriterQueueMapping ----------------------
(***************************************************************************)
(* The queue of blocks implements the abstract queue of SPSCQueue.  The    *)
(* elements the abstract queue holds are those of the blocks from the      *)
(* front block to the tail block.  An enqueue takes effect at its last     *)
(* store (tail, or tailBlock), a dequeue at its store to front.            *)
(***************************************************************************)
EXTENDS ReaderWriterQueue, SequencesExt

Segment(b) ==
    LET r == block[b]
    IN  [k \in 1..Cardinality(Occupied(b)) |-> r.data[(r.front + k - 1) % r.size]]

FrontToTail ==
    LET last == CHOOSE k \in 0..Len(block) :
                    Hop[k] = tailBlock /\ \A j \in 0..(k - 1) : Hop[j] # tailBlock
    IN  [k \in 1..(last + 1) |-> Segment(Hop[k - 1])]

Elements == FlattenSeq(FrontToTail)

(* an element moved out of its slot leaves the queue when front moves on *)
Contents == IF At("consumer", "release") THEN <<elem>> \o Tail(Elements) ELSE Elements

Abstract == INSTANCE SPSCQueue WITH
    capacity <- Size,
    queue <- Contents,
    busy <- {t \in Thread : ~At(t, "idle")}

(* Every behaviour of the blocks and indices is one of the abstract queue:  *)
(* elements leave in the order they entered, once each; a dequeue finds     *)
(* nothing only if the queue was empty at the call; try_enqueue is refused  *)
(* only if the queue held `size` elements at the call ("can hold at least   *)
(* `size` elements without further allocations"); size_approx is within the *)
(* bounds SPSCQueue gives it.                                               *)
ImplementsQueue == Abstract!Spec
=============================================================================
