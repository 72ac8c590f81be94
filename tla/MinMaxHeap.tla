------------------------------ MODULE MinMaxHeap ------------------------------
(***************************************************************************)
(* The buffer of out-of-order messages of a subscriber                     *)
(* (subscriber/min_max_heap.rs): a binary heap that yields the message     *)
(* with the least sequence number, together with a cached maximum and a    *)
(* count of the copies of each number, from which has_gaps is computed     *)
(* without looking into the heap.  UDP repeats datagrams, so the heap is a *)
(* bag.  One variable per field of the struct; the variables are those of  *)
(* the sequencer when it instantiates this module.                         *)
(***************************************************************************)
EXTENDS Integers, FiniteSets

CONSTANTS
    Message,        \* the messages that can be buffered
    None,           \* Option::None
    MaxCopies       \* bound: copies of one sequence number in the buffer

ASSUME HeapAssumption ==
    /\ \A m \in Message : m.sequence \in Nat
    /\ None \notin Int
    /\ MaxCopies \in Nat

VARIABLES
    heap,           \* BinaryHeap<Reverse<ReceivedMessage>>, as a bag
    max_id,         \* Option<i64>
    counter         \* HashMap<i64, usize>, a function on its keys

heapVars == <<heap, max_id, counter>>

Bag == INSTANCE BagsExt

Buffered == DOMAIN heap

BufferedIds == {m.sequence : m \in Buffered}

\* What peek may return and pop may remove: ReceivedMessage is ordered by its
\* sequence number alone, so equal numbers come out in any order
Least == {m \in Buffered : \A o \in Buffered : m.sequence <= o.sequence}

-----------------------------------------------------------------------------
\* Mutation of CountMissing: messages are counted, not numbers
CountMissingByMessages ==
    IF max_id = None THEN 0
    ELSE max_id - (CHOOSE m \in Least : TRUE).sequence + 1 - Cardinality(Buffered)

\* min_id is the sequence number of what peek returns: max_id is not None
CountMissing ==
    IF max_id = None THEN 0
    ELSE LET min_id == (CHOOSE m \in Least : TRUE).sequence
         IN  max_id - min_id + 1 - Cardinality(DOMAIN counter)

HasGaps == CountMissing > 0

-----------------------------------------------------------------------------
Empty == [x \in {} |-> 0]

\* new
Init ==
    /\ heap = Empty
    /\ max_id = None
    /\ counter = Empty

\* Mutation of Push: the maximum follows the last message
PushResetsMax(m) ==
    /\ m.sequence \in DOMAIN counter => counter[m.sequence] < MaxCopies
    /\ max_id' = m.sequence
    /\ counter' = Bag!BagAdd(counter, m.sequence)
    /\ heap' = Bag!BagAdd(heap, m)

Push(m) ==
    /\ m.sequence \in DOMAIN counter => counter[m.sequence] < MaxCopies
    /\ max_id' = IF max_id = None \/ max_id < m.sequence THEN m.sequence ELSE max_id
    /\ counter' = Bag!BagAdd(counter, m.sequence)
    /\ heap' = Bag!BagAdd(heap, m)

\* Mutation of Pop: a key stays with count 0
PopKeepsKey(m) ==
    /\ m \in Least
    /\ heap' = Bag!BagRemove(heap, m)
    /\ max_id' = IF DOMAIN heap' = {} THEN None ELSE max_id
    /\ counter' = [counter EXCEPT ![m.sequence] = @ - 1]

\* Mutation of Pop: a key is removed with its first copy
PopForgetsKey(m) ==
    /\ m \in Least
    /\ heap' = Bag!BagRemove(heap, m)
    /\ max_id' = IF DOMAIN heap' = {} THEN None ELSE max_id
    /\ counter' = [n \in DOMAIN counter \ {m.sequence} |-> counter[n]]

\* A key of the counter is removed with its last copy; the maximum is only
\* forgotten when nothing is left
Pop(m) ==
    /\ m \in Least
    /\ heap' = Bag!BagRemove(heap, m)
    /\ max_id' = IF DOMAIN heap' = {} THEN None ELSE max_id
    /\ counter' = Bag!BagRemove(counter, m.sequence)

Clear ==
    /\ heap' = Empty
    /\ counter' = Empty
    /\ max_id' = None

Next == \/ \E m \in Message : Push(m) \/ Pop(m)
        \/ Clear

Spec == Init /\ [][Next]_heapVars

-----------------------------------------------------------------------------
(* Properties *)

\* The copies of a number in the heap
Copies(id) == UNION {{m} \X (1 .. heap[m]) : m \in {b \in Buffered : b.sequence = id}}

TypeOK ==
    /\ Buffered \subseteq Message
    /\ heap \in [Buffered -> Nat \ {0}]
    /\ max_id \in Nat \union {None}
    /\ DOMAIN counter \subseteq Nat
    /\ counter \in [DOMAIN counter -> Nat \ {0}]

\* "heap and counter must have 1:1 mapping" (min_max_heap.rs:33), which the
\* unwrap of pop relies on: the keys of the counter are the buffered numbers
\* and each counts its copies, whatever messages share a number.
CounterMirrorsHeap ==
    /\ DOMAIN counter = BufferedIds
    /\ \A id \in BufferedIds : counter[id] = Cardinality(Copies(id))

\* "self.max_id.is_none() == self.heap.is_empty()" (min_max_heap.rs:69), which
\* the unwrap of count_missing relies on, and the cached maximum is exact
\* although pop never recomputes it.
MaxIdExact ==
    IF Buffered = {} THEN max_id = None
    ELSE max_id \in BufferedIds /\ \A id \in BufferedIds : id <= max_id

\* has_gaps (min_max_heap.rs:62-76) answers whether a number between the least
\* and the greatest buffered one is missing, in spite of repeated datagrams.
GapsExact ==
    HasGaps <=> \E lo, hi \in BufferedIds : \E n \in lo .. hi : n \notin BufferedIds
==============================================================================
