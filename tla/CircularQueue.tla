---------------------------- MODULE CircularQueue ----------------------------
(***************************************************************************)
(* spdlog/details/circular_q.h: a vector of max_items_ slots, one of which  *)
(* stays free, with the indices of the oldest element and of the next free  *)
(* slot.  The queue of the asynchronous logger and the sinks' list of files *)
(* are both of this class.                                                  *)
(***************************************************************************)
EXTENDS Integers, Sequences

Moved == [kind |-> "moved"]   \* what a slot holds that was moved from or never used

circular_q(maxItems) ==
    [max_items |-> maxItems + 1, head |-> 0, tail |-> 0, overrun_counter |-> 0,
     v |-> [i \in 0..maxItems |-> Moved]]

(* mutant: the indices do not go round *)
After_NoWrap(q, i) == i + 1

(* The indices go round. *)
After(q, i) == (i + 1) % q.max_items

size(q) == IF q.tail >= q.head THEN q.tail - q.head ELSE q.max_items - (q.head - q.tail)

empty(q) == q.tail = q.head

full(q) == After(q, q.tail) = q.head

front(q) == q.v[q.head]

(* mutant: the oldest element is overrun without moving head *)
push_back_NoHead(q, item) ==
    LET tail == After(q, q.tail)
    IN  [q EXCEPT !.v[q.tail] = item, !.tail = tail,
                  !.overrun_counter = IF tail = q.head THEN @ + 1 ELSE @]

(* The oldest element is overrun if there is no room. *)
push_back(q, item) ==
    LET tail == After(q, q.tail)
        over == tail = q.head
    IN  [q EXCEPT !.v[q.tail] = item,
                  !.tail = tail,
                  !.head = IF over THEN After(q, @) ELSE @,
                  !.overrun_counter = IF over THEN @ + 1 ELSE @]

(* The element was moved out of its slot before. *)
pop_front(q) == [q EXCEPT !.v[q.head] = Moved, !.head = After(q, @)]

(* The elements, oldest first. *)
Items(q) == [i \in 1..size(q) |-> q.v[(q.head + i - 1) % q.max_items]]
=============================================================================
