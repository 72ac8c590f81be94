--------------------------- MODULE MinMaxHeap_proofs ---------------------------
(***************************************************************************)
(* The two mappings the unwraps of min_max_heap.rs rely on, and the        *)
(* meaning of has_gaps, for any messages and any sequence of operations.   *)
(***************************************************************************)
EXTENDS MinMaxHeap, FiniteSetTheorems, WellFoundedInduction, TLAPS

\* A nonempty set of naturals has a least element.
LEMMA NatMin ==
  ASSUME NEW T \in SUBSET Nat, T # {}
  PROVE  \E x \in T : \A y \in T : x <= y
<1>1. PICK x \in T : \A y \in T : ~ (<<y, x>> \in OpToRel(<, Nat))
  BY NatLessThanWellFounded, WFMin, Zenon
<1>2. \A y \in T : x <= y
  <2>1. SUFFICES ASSUME NEW y \in T, y < x PROVE FALSE
    OBVIOUS
  <2>2. <<y, x>> \in OpToRel(<, Nat)
    BY <2>1 DEF OpToRel
  <2>3. QED BY <2>2, <1>1
<1>3. QED BY <1>2

-----------------------------------------------------------------------------
(* Bags with one element more, and one less. *)

IsBag(B) == B \in [DOMAIN B -> Nat \ {0}]

\* A bag with one more copy.
LEMMA BagAddFacts ==
  ASSUME NEW B, IsBag(B), NEW x
  PROVE  /\ IsBag(Bag!BagAdd(B, x))
         /\ DOMAIN Bag!BagAdd(B, x) = DOMAIN B \union {x}
         /\ \A e \in DOMAIN B \ {x} : Bag!BagAdd(B, x)[e] = B[e]
         /\ Bag!BagAdd(B, x)[x] = IF x \in DOMAIN B THEN B[x] + 1 ELSE 1
BY DEF IsBag, Bag!BagAdd

\* A bag with one copy less.
LEMMA BagRemoveFacts ==
  ASSUME NEW B, IsBag(B), NEW x \in DOMAIN B
  PROVE  /\ IsBag(Bag!BagRemove(B, x))
         /\ DOMAIN Bag!BagRemove(B, x) = IF B[x] = 1 THEN DOMAIN B \ {x} ELSE DOMAIN B
         /\ \A e \in DOMAIN B \ {x} : Bag!BagRemove(B, x)[e] = B[e]
         /\ B[x] # 1 => Bag!BagRemove(B, x)[x] = B[x] - 1
BY DEF IsBag, Bag!BagRemove

-----------------------------------------------------------------------------
(* Typing. *)

\* Every operation keeps the types.
LEMMA TypeInductive == TypeOK /\ [Next]_heapVars => TypeOK'
<1>1. SUFFICES ASSUME TypeOK, [Next]_heapVars PROVE TypeOK'
  OBVIOUS
<1> USE <1>1, HeapAssumption
<1>2. IsBag(heap) /\ IsBag(counter)
  BY DEF TypeOK, Buffered, IsBag
<1>3. ASSUME NEW m \in Message, Push(m) PROVE TypeOK'
  <2>1. IsBag(heap') /\ DOMAIN heap' = DOMAIN heap \union {m}
    BY <1>2, <1>3, BagAddFacts DEF Push
  <2>2. IsBag(counter') /\ DOMAIN counter' = DOMAIN counter \union {m.sequence}
    <3>1. \A x : /\ IsBag(Bag!BagAdd(counter, x))
                 /\ DOMAIN Bag!BagAdd(counter, x) = DOMAIN counter \union {x}
      BY <1>2, BagAddFacts
    <3>2. QED BY <1>3, <3>1 DEF Push
  <2>3. max_id' \in Nat
    BY <1>3 DEF Push, TypeOK
  <2>4. QED BY <2>1, <2>2, <2>3 DEF TypeOK, Buffered, IsBag
<1>4. ASSUME NEW m \in Message, Pop(m), m.sequence \in DOMAIN counter PROVE TypeOK'
  <2>1. IsBag(heap') /\ DOMAIN heap' \subseteq DOMAIN heap
    BY <1>2, <1>4, BagRemoveFacts DEF Pop, Least, Buffered
  <2>2. IsBag(counter') /\ DOMAIN counter' \subseteq DOMAIN counter
    BY <1>2, <1>4, BagRemoveFacts DEF Pop
  <2>3. max_id' \in Nat \union {None}
    BY <1>4 DEF Pop, TypeOK
  <2>4. QED BY <2>1, <2>2, <2>3 DEF TypeOK, Buffered, IsBag
<1>5. ASSUME NEW m \in Message, Pop(m), m.sequence \notin DOMAIN counter PROVE TypeOK'
  <2>1. IsBag(heap') /\ DOMAIN heap' \subseteq DOMAIN heap
    BY <1>2, <1>5, BagRemoveFacts DEF Pop, Least, Buffered
  <2>2. counter' = counter
    BY <1>5 DEF Pop, Bag!BagRemove
  <2>3. max_id' \in Nat \union {None}
    BY <1>5 DEF Pop, TypeOK
  <2>4. QED BY <2>1, <2>2, <2>3 DEF TypeOK, Buffered, IsBag
<1>6. CASE Clear
  BY <1>6 DEF Clear, TypeOK, Buffered, Empty
<1>7. CASE UNCHANGED heapVars
  BY <1>7 DEF heapVars, TypeOK, Buffered
<1>8. QED BY <1>3, <1>4, <1>5, <1>6, <1>7 DEF Next

\* A new heap has them.
LEMMA InitTyped == Init => TypeOK
BY DEF Init, TypeOK, Buffered, Empty

\* Every field of the heap keeps its type.
THEOREM HeapTypeCorrect == Spec => []TypeOK
BY InitTyped, TypeInductive, PTL DEF Spec

-----------------------------------------------------------------------------
(* The counter.  Copies(id) gains one element when a message is pushed and *)
(* loses one when it is popped, and the entry of the counter with it.      *)

\* The copies of a number are those of the messages that have it.
LEMMA CopiesMember ==
  ASSUME NEW id, NEW p
  PROVE  p \in Copies(id) <=> \E b \in Buffered : /\ b.sequence = id
                                                 /\ \E i \in 1 .. heap[b] : p = <<b, i>>
BY DEF Copies

\* Only a number that is not buffered has none.
LEMMA CopiesEmpty ==
  ASSUME TypeOK, NEW id
  PROVE  Copies(id) = {} <=> id \notin BufferedIds
<1>1. ASSUME NEW b \in Buffered, b.sequence = id PROVE <<b, 1>> \in Copies(id)
  BY <1>1, CopiesMember DEF TypeOK
<1>2. QED BY <1>1, CopiesMember DEF BufferedIds

Mirrored(id) ==
    /\ IsFiniteSet(Copies(id))
    /\ Cardinality(Copies(id)) = IF id \in DOMAIN counter THEN counter[id] ELSE 0

\* CounterMirrorsHeap, with the finiteness its step needs
Mirror == /\ DOMAIN counter = BufferedIds
          /\ \A id \in Nat : Mirrored(id)

\* A push adds a copy to its own number only.
LEMMA PushCopies ==
  ASSUME TypeOK, NEW m \in Message, Push(m)
  PROVE  \E i : /\ <<m, i>> \notin Copies(m.sequence)
                /\ Copies(m.sequence)' = Copies(m.sequence) \union {<<m, i>>}
                /\ \A id : id # m.sequence => Copies(id)' = Copies(id)
<1> DEFINE i == IF m \in Buffered THEN heap[m] + 1 ELSE 1
<1>1. /\ Buffered' = Buffered \union {m}
      /\ \A b \in Buffered \ {m} : heap'[b] = heap[b]
      /\ heap'[m] = i
  <2>1. IsBag(heap)
    BY DEF TypeOK, Buffered, IsBag
  <2>2. /\ DOMAIN Bag!BagAdd(heap, m) = Buffered \union {m}
        /\ \A b \in Buffered \ {m} : Bag!BagAdd(heap, m)[b] = heap[b]
        /\ Bag!BagAdd(heap, m)[m] = i
    BY <2>1, BagAddFacts DEF Buffered
  <2>3. heap' = Bag!BagAdd(heap, m)
    BY DEF Push
  <2> HIDE DEF i
  <2>4. QED BY <2>2, <2>3 DEF Buffered
<1>2. i \in Nat \ {0} /\ (m \in Buffered => heap[m] \in Nat)
  BY DEF TypeOK
<1>3. \A k : k \in 1 .. i <=> k = i \/ (m \in Buffered /\ k \in 1 .. heap[m])
  BY <1>2
<1> HIDE DEF i
<1>4. \A id, p : p \in Copies(id)' <=>
          \E b \in Buffered' : b.sequence = id /\ \E k \in 1 .. heap'[b] : p = <<b, k>>
  BY DEF Copies
<1>5. \A id, p : p \in Copies(id) <=>
          \E b \in Buffered : b.sequence = id /\ \E k \in 1 .. heap[b] : p = <<b, k>>
  BY CopiesMember
<1>6. <<m, i>> \notin Copies(m.sequence)
  <2>1. m \in Buffered => i \notin 1 .. heap[m]
    BY <1>2 DEF i
  <2>2. QED BY <2>1, <1>5
<1>7. \A id, p : p \in Copies(id)' <=> p \in Copies(id) \/ (id = m.sequence /\ p = <<m, i>>)
  BY <1>1, <1>2, <1>3, <1>4, <1>5
<1>8. QED
  <2>1. Copies(m.sequence)' = Copies(m.sequence) \union {<<m, i>>}
    BY <1>7
  <2>2. \A id : id # m.sequence => Copies(id)' = Copies(id)
    BY <1>7
  <2>3. QED BY <1>6, <2>1, <2>2

\* A pop takes a copy from its own number only.
LEMMA PopCopies ==
  ASSUME TypeOK, NEW m \in Message, Pop(m)
  PROVE  \E i : /\ <<m, i>> \in Copies(m.sequence)
                /\ Copies(m.sequence)' = Copies(m.sequence) \ {<<m, i>>}
                /\ \A id : id # m.sequence => Copies(id)' = Copies(id)
<1> DEFINE n == heap[m]
<1>1. m \in Buffered /\ n \in Nat \ {0}
  BY DEF TypeOK, Pop, Least
<1>2. /\ Buffered' = IF n = 1 THEN Buffered \ {m} ELSE Buffered
      /\ \A b \in Buffered \ {m} : heap'[b] = heap[b]
      /\ n # 1 => heap'[m] = n - 1
  <2>1. IsBag(heap)
    BY DEF TypeOK, Buffered, IsBag
  <2>2. /\ DOMAIN Bag!BagRemove(heap, m) = IF n = 1 THEN Buffered \ {m} ELSE Buffered
        /\ \A b \in Buffered \ {m} : Bag!BagRemove(heap, m)[b] = heap[b]
        /\ n # 1 => Bag!BagRemove(heap, m)[m] = n - 1
    BY <1>1, <2>1, BagRemoveFacts DEF Buffered
  <2>3. heap' = Bag!BagRemove(heap, m)
    BY DEF Pop
  <2>4. QED BY <2>2, <2>3 DEF Buffered
<1>3. heap[m] = n
  OBVIOUS
<1> HIDE DEF n
<1>4. \A k : k \in 1 .. n <=> k = n \/ (n # 1 /\ k \in 1 .. n - 1)
  BY <1>1
<1>5. n # 1 => n \notin 1 .. n - 1
  BY <1>1
<1>6. \A id, p : p \in Copies(id)' <=>
          \E b \in Buffered' : b.sequence = id /\ \E k \in 1 .. heap'[b] : p = <<b, k>>
  BY DEF Copies
<1>7. \A id, p : p \in Copies(id) <=>
          \E b \in Buffered : b.sequence = id /\ \E k \in 1 .. heap[b] : p = <<b, k>>
  BY CopiesMember
<1>8. <<m, n>> \in Copies(m.sequence)
  BY <1>1, <1>3, <1>7
<1>9. \A id, p : p \in Copies(id)' <=> p \in Copies(id) /\ p # <<m, n>>
  BY <1>1, <1>2, <1>3, <1>4, <1>5, <1>6, <1>7
<1>10. QED
  <2>1. Copies(m.sequence)' = Copies(m.sequence) \ {<<m, n>>}
    BY <1>9
  <2>2. \A id : id # m.sequence => <<m, n>> \notin Copies(id)
    BY <1>7
  <2>3. \A id : id # m.sequence => Copies(id)' = Copies(id)
    BY <1>9, <2>2
  <2>4. QED BY <1>8, <2>1, <2>3

\* The counter follows a push.
LEMMA PushMirrors == ASSUME TypeOK, Mirror, NEW m \in Message, Push(m) PROVE Mirror'
<1> USE HeapAssumption
<1>1. PICK i : /\ <<m, i>> \notin Copies(m.sequence)
               /\ Copies(m.sequence)' = Copies(m.sequence) \union {<<m, i>>}
               /\ \A id : id # m.sequence => Copies(id)' = Copies(id)
  BY PushCopies
<1>2. IsBag(heap) /\ IsBag(counter)
  BY DEF TypeOK, Buffered, IsBag
<1>3. Buffered' = Buffered \union {m}
  BY <1>2, BagAddFacts DEF Push, Buffered
<1> DEFINE s == m.sequence
<1>4. heap' = Bag!BagAdd(heap, m) /\ counter' = Bag!BagAdd(counter, s) /\ s \in Nat
  BY DEF Push
<1>5. BufferedIds' = BufferedIds \union {s}
  BY <1>3 DEF BufferedIds
<1>6. Copies(s)' = Copies(s) \union {<<m, i>>} /\ <<m, i>> \notin Copies(s)
  BY <1>1
<1>7. \A id : id # s => Copies(id)' = Copies(id)
  BY <1>1
<1> HIDE DEF s
<1>8. /\ DOMAIN counter' = DOMAIN counter \union {s}
      /\ \A id \in DOMAIN counter \ {s} : counter'[id] = counter[id]
      /\ counter'[s] = IF s \in DOMAIN counter THEN counter[s] + 1 ELSE 1
  <2> DEFINE B == Bag!BagAdd(counter, s)
  <2>1. /\ DOMAIN B = DOMAIN counter \union {s}
        /\ \A id \in DOMAIN counter \ {s} : B[id] = counter[id]
        /\ B[s] = IF s \in DOMAIN counter THEN counter[s] + 1 ELSE 1
    BY <1>2, BagAddFacts
  <2>2. counter' = B
    BY <1>4
  <2> HIDE DEF B
  <2>3. QED BY <2>1, <2>2
<1>9. Mirrored(s)'
  <2>1. IsFiniteSet(Copies(s)) /\ Cardinality(Copies(s)) = IF s \in DOMAIN counter THEN counter[s] ELSE 0
    BY <1>4 DEF Mirror, Mirrored
  <2> DEFINE C == Copies(s)
             D == Copies(s)'
             p == <<m, i>>
  <2>2. D = C \union {p} /\ p \notin C
    BY <1>6
  <2>3. IsFiniteSet(C)
    BY <2>1
  <2> HIDE DEF C, D, p
  <2>4. IsFiniteSet(D) /\ Cardinality(D) = Cardinality(C) + 1
    BY <2>2, <2>3, FS_AddElement
  <2>5. Cardinality(D) = counter'[s]
    BY <2>1, <2>4, <1>8 DEF C
  <2>6. QED BY <2>4, <2>5, <1>8 DEF D, Mirrored
<1>10. ASSUME NEW id \in Nat, id # s PROVE Mirrored(id)'
  BY <1>7, <1>8, <1>10 DEF Mirror, Mirrored
<1>11. QED BY <1>5, <1>8, <1>9, <1>10 DEF Mirror

\* The counter follows a pop, its last copy included.
LEMMA PopMirrors == ASSUME TypeOK, Mirror, NEW m \in Message, Pop(m) PROVE Mirror'
<1> USE HeapAssumption
<1>1. PICK i : /\ <<m, i>> \in Copies(m.sequence)
               /\ Copies(m.sequence)' = Copies(m.sequence) \ {<<m, i>>}
               /\ \A id : id # m.sequence => Copies(id)' = Copies(id)
  BY PopCopies
<1> DEFINE s == m.sequence
<1>2. /\ counter' = Bag!BagRemove(counter, s)
      /\ s \in Nat
      /\ s \in BufferedIds
  BY DEF Pop, Least, BufferedIds
<1>3. Copies(s)' = Copies(s) \ {<<m, i>>} /\ <<m, i>> \in Copies(s)
  BY <1>1
<1>4. \A id : id # s => Copies(id)' = Copies(id)
  BY <1>1
<1> HIDE DEF s
<1>5. s \in DOMAIN counter /\ IsBag(counter)
  BY <1>2 DEF Mirror, TypeOK, IsBag
<1>6. /\ DOMAIN counter' = IF counter[s] = 1 THEN DOMAIN counter \ {s} ELSE DOMAIN counter
      /\ \A id \in DOMAIN counter \ {s} : counter'[id] = counter[id]
      /\ counter[s] # 1 => counter'[s] = counter[s] - 1
      /\ counter[s] \in Nat \ {0}
  <2>1. counter[s] \in Nat \ {0}
    BY <1>5 DEF IsBag
  <2>2. QED BY <2>1, <1>2, <1>5, BagRemoveFacts
<1>7. IsFiniteSet(Copies(s)') /\ Cardinality(Copies(s)') = counter[s] - 1
  <2>1. IsFiniteSet(Copies(s)) /\ Cardinality(Copies(s)) = counter[s]
    BY <1>2, <1>5 DEF Mirror, Mirrored
  <2> DEFINE C == Copies(s)
             D == Copies(s)'
             p == <<m, i>>
  <2>2. D = C \ {p} /\ p \in C
    BY <1>3
  <2>3. IsFiniteSet(C) /\ Cardinality(C) = counter[s]
    BY <2>1
  <2> HIDE DEF C, D, p
  <2>4. IsFiniteSet(D) /\ Cardinality(D) = Cardinality(C) - 1
    BY <2>2, <2>3, FS_RemoveElement
  <2>5. QED BY <2>3, <2>4 DEF D
<1>8. Mirrored(s)'
  <2>1. CASE counter[s] = 1
    BY <2>1, <1>6, <1>7 DEF Mirrored
  <2>2. CASE counter[s] # 1
    BY <2>2, <1>5, <1>6, <1>7 DEF Mirrored
  <2>3. QED BY <2>1, <2>2
<1>9. ASSUME NEW id \in Nat, id # s PROVE Mirrored(id)'
  BY <1>4, <1>6, <1>9 DEF Mirror, Mirrored
<1>10. DOMAIN counter' = BufferedIds'
  <2>1. TypeOK'
    BY TypeInductive DEF Next
  <2>2. \A id : Copies(id)' = {} <=> id \notin BufferedIds'
    <3>1. \A id, p : p \in Copies(id)' <=>
            \E b \in Buffered' : b.sequence = id /\ \E k \in 1 .. heap'[b] : p = <<b, k>>
      BY DEF Copies
    <3>2. \A b \in Buffered' : 1 \in 1 .. heap'[b]
      BY <2>1 DEF TypeOK
    <3>3. \A id : id \in BufferedIds' <=> \E b \in Buffered' : b.sequence = id
      BY DEF BufferedIds
    <3>4. ASSUME NEW id, id \in BufferedIds' PROVE Copies(id)' # {}
      <4>1. PICK b \in Buffered' : b.sequence = id
        BY <3>3, <3>4
      <4>2. <<b, 1>> \in Copies(id)'
        BY <3>1, <3>2, <4>1
      <4>3. QED BY <4>2
    <3>5. ASSUME NEW id, Copies(id)' # {} PROVE id \in BufferedIds'
      BY <3>1, <3>3, <3>5
    <3>6. QED BY <3>4, <3>5
  <2>3. \A id : Copies(id) = {} <=> id \notin BufferedIds
    BY CopiesEmpty
  <2>4. counter[s] = 1 <=> Copies(s)' = {}
    <3>1. counter[s] - 1 = 0 <=> counter[s] = 1
      BY <1>6
    <3>2. QED BY <3>1, <1>7, FS_EmptySet
  <2>5. \A id : id # s => (id \in BufferedIds' <=> id \in BufferedIds)
    BY <2>2, <2>3, <1>4
  <2>6. s \in BufferedIds' <=> counter[s] # 1
    BY <2>2, <2>4
  <2>7. DOMAIN counter = BufferedIds
    BY DEF Mirror
  <2>8. QED BY <2>5, <2>6, <2>7, <1>2, <1>6
<1>11. QED BY <1>8, <1>9, <1>10 DEF Mirror

\* The counter mirrors the heap whatever is called.
LEMMA MirrorInductive == TypeOK /\ Mirror /\ [Next]_heapVars => Mirror'
<1>1. SUFFICES ASSUME TypeOK, Mirror, [Next]_heapVars PROVE Mirror'
  OBVIOUS
<1>2. CASE Clear
  <2>1. /\ Buffered' = {} /\ BufferedIds' = {} /\ DOMAIN counter' = {}
    BY <1>2 DEF Clear, Buffered, BufferedIds, Empty
  <2>2. \A id : Copies(id)' = {}
    BY <2>1 DEF Copies
  <2>3. QED BY <2>1, <2>2, FS_EmptySet DEF Mirror, Mirrored
<1>3. CASE UNCHANGED heapVars
  <2>1. BufferedIds' = BufferedIds /\ counter' = counter
    BY <1>3 DEF heapVars, BufferedIds, Buffered
  <2>2. \A id : Copies(id)' = Copies(id)
    BY <1>3 DEF heapVars, Copies, Buffered
  <2>3. \A id \in Nat : Mirrored(id)' <=> Mirrored(id)
    BY <2>1, <2>2 DEF Mirrored
  <2>4. QED BY <1>1, <2>1, <2>3 DEF Mirror
<1>4. QED BY <1>1, <1>2, <1>3, PushMirrors, PopMirrors DEF Next

\* Both are empty at first.
LEMMA InitMirrored == Init => Mirror
<1>1. SUFFICES ASSUME Init PROVE Mirror
  OBVIOUS
<1>2. Buffered = {} /\ BufferedIds = {} /\ DOMAIN counter = {}
  BY <1>1 DEF Init, Buffered, BufferedIds, Empty
<1>3. \A id : Copies(id) = {}
  BY <1>2 DEF Copies
<1>4. QED BY <1>2, <1>3, FS_EmptySet DEF Mirror, Mirrored

\* The counter is a mirror of the heap: the unwrap in pop never panics, and
\* the number of keys is the number of distinct buffered messages.
THEOREM HeapCounterMirrors == Spec => []CounterMirrorsHeap
<1>1. TypeOK /\ Mirror => CounterMirrorsHeap
  BY DEF Mirror, Mirrored, CounterMirrorsHeap, TypeOK
<1>2. QED
  BY <1>1, InitTyped, InitMirrored, TypeInductive, MirrorInductive, PTL DEF Spec

-----------------------------------------------------------------------------
(* The cached maximum. *)

\* The cached maximum stays exact although pop does not recompute it.
LEMMA MaxInductive == TypeOK /\ MaxIdExact /\ [Next]_heapVars => MaxIdExact'
<1>1. SUFFICES ASSUME TypeOK, MaxIdExact, [Next]_heapVars PROVE MaxIdExact'
  OBVIOUS
<1> USE <1>1, HeapAssumption
<1>2. IsBag(heap)
  BY DEF TypeOK, Buffered, IsBag
<1>3. \A b \in Buffered : b.sequence \in Nat
  BY DEF TypeOK
<1>4. ASSUME NEW m \in Message, Push(m) PROVE MaxIdExact'
  <2>1. Buffered' = Buffered \union {m}
    BY <1>2, <1>4, BagAddFacts DEF Push, Buffered
  <2>2. BufferedIds' = BufferedIds \union {m.sequence} /\ BufferedIds \subseteq Nat
    BY <2>1, <1>3 DEF BufferedIds
  <2>3. max_id' = IF max_id = None \/ max_id < m.sequence THEN m.sequence ELSE max_id
    BY <1>4 DEF Push
  <2>4. Buffered = {} <=> BufferedIds = {}
    BY DEF BufferedIds
  <2>5. CASE Buffered = {}
    <3>1. max_id' = m.sequence /\ BufferedIds' = {m.sequence} /\ Buffered' # {}
      BY <2>1, <2>2, <2>3, <2>4, <2>5 DEF MaxIdExact
    <3>2. m.sequence \in Nat
      OBVIOUS
    <3>3. QED BY <3>1, <3>2 DEF MaxIdExact
  <2>6. CASE Buffered # {}
    <3>1. max_id \in Nat /\ max_id \in BufferedIds /\ max_id # None
      <4>1. max_id \in BufferedIds
        BY <2>6 DEF MaxIdExact
      <4>2. BufferedIds \subseteq Nat
        BY <2>2
      <4>3. max_id \in Nat
        BY <4>1, <4>2, Zenon
      <4>4. None \notin Nat
        OBVIOUS
      <4>5. QED BY <4>1, <4>3, <4>4, Zenon
    <3>2. m.sequence \in Nat
      OBVIOUS
    <3>3. max_id' \in BufferedIds'
      BY <2>2, <2>3, <3>1
    <3>4. \A id \in BufferedIds' : id <= max_id'
      BY <2>2, <2>3, <2>6, <3>1, <3>2 DEF MaxIdExact
    <3>5. QED BY <2>1, <3>3, <3>4 DEF MaxIdExact
  <2>7. QED BY <2>5, <2>6
<1>5. ASSUME NEW m \in Message, Pop(m) PROVE MaxIdExact'
  <2>1. Buffered' \subseteq Buffered /\ Buffered \ {m} \subseteq Buffered'
    BY <1>2, <1>5, BagRemoveFacts DEF Pop, Least, Buffered
  <2>2. m \in Buffered /\ \A b \in Buffered : m.sequence <= b.sequence
    BY <1>5 DEF Pop, Least
  <2>3. max_id' = IF Buffered' = {} THEN None ELSE max_id
    BY <1>5 DEF Pop, Buffered
  <2>4. PICK top \in Buffered : max_id = top.sequence
    BY <2>2 DEF MaxIdExact, BufferedIds
  <2>5. \A b \in Buffered : b.sequence <= max_id
    BY <2>2 DEF MaxIdExact, BufferedIds
  <2>6. ASSUME Buffered' # {} PROVE max_id \in BufferedIds'
    <3>1. CASE top \in Buffered'
      BY <3>1, <2>4 DEF BufferedIds
    <3>2. CASE top \notin Buffered'
      <4>1. PICK b \in Buffered' : TRUE
        BY <2>6
      <4>2. top = m /\ b.sequence = max_id
        BY <3>2, <2>1, <2>2, <2>4, <2>5, <1>3
      <4>3. QED BY <4>2 DEF BufferedIds
    <3>3. QED BY <3>1, <3>2
  <2>7. QED BY <2>1, <2>3, <2>5, <2>6 DEF MaxIdExact, BufferedIds
<1>6. CASE Clear
  BY <1>6 DEF Clear, MaxIdExact, Buffered, Empty
<1>7. CASE UNCHANGED heapVars
  BY <1>7 DEF heapVars, MaxIdExact, BufferedIds, Buffered
<1>8. QED BY <1>4, <1>5, <1>6, <1>7 DEF Next

\* An empty heap has no maximum.
LEMMA InitMax == Init => MaxIdExact
BY DEF Init, MaxIdExact, Buffered, Empty

\* The cached maximum is the greatest buffered number although pop never
\* recomputes it: what pop removes is the least.
THEOREM HeapMaximumIsExact == Spec => []MaxIdExact
BY InitTyped, InitMax, TypeInductive, MaxInductive, PTL DEF Spec

-----------------------------------------------------------------------------
(* has_gaps. *)

\* There is something to peek at in a heap that is not empty.
LEMMA LeastExists == ASSUME TypeOK, Buffered # {} PROVE Least # {}
<1>1. BufferedIds \in SUBSET Nat /\ BufferedIds # {}
  BY HeapAssumption DEF TypeOK, BufferedIds
<1>2. PICK lo \in BufferedIds : \A id \in BufferedIds : lo <= id
  BY <1>1, NatMin
<1>3. PICK m \in Buffered : m.sequence = lo
  BY DEF BufferedIds
<1>4. m \in Least
  BY <1>2, <1>3 DEF Least, BufferedIds
<1>5. QED BY <1>4

\* A set of numbers between lo and hi, both in it, has hi - lo + 1 elements
\* exactly when none is missing.
LEMMA CountGaps ==
  ASSUME NEW lo \in Nat, NEW hi \in Nat, NEW S \in SUBSET (lo .. hi), lo \in S, hi \in S
  PROVE  hi - lo + 1 - Cardinality(S) > 0 <=> S # lo .. hi
<1>1. IsFiniteSet(lo .. hi) /\ Cardinality(lo .. hi) = hi - lo + 1
  <2>1. lo <= hi
    OBVIOUS
  <2>2. QED BY <2>1, FS_Interval
<1>2. /\ IsFiniteSet(S)
      /\ Cardinality(S) <= Cardinality(lo .. hi)
      /\ Cardinality(lo .. hi) = Cardinality(S) => lo .. hi = S
  BY <1>1, FS_Subset
<1>3. Cardinality(S) \in Nat
  BY <1>2, FS_CardinalityType
<1>4. QED BY <1>1, <1>2, <1>3

\* has_gaps is true exactly when a number between two buffered ones is not
\* buffered: repeated datagrams do not hide a gap, nor make one up.
THEOREM HeapGapsAreExact == Spec => []GapsExact
<1>1. TypeOK /\ Mirror /\ MaxIdExact => GapsExact
  <2>1. SUFFICES ASSUME TypeOK, Mirror, MaxIdExact PROVE GapsExact
    OBVIOUS
  <2> USE <2>1, HeapAssumption
  <2>2. CASE Buffered = {}
    BY <2>2 DEF MaxIdExact, GapsExact, HasGaps, CountMissing, BufferedIds
  <2>3. CASE Buffered # {}
    <3> DEFINE top == CHOOSE m \in Least : TRUE
               lo == top.sequence
    <3>1. top \in Least
      BY <2>3, LeastExists
    <3>2. BufferedIds \subseteq Nat /\ max_id \in BufferedIds /\ lo \in BufferedIds
      BY <2>3, <3>1 DEF MaxIdExact, Least, BufferedIds, TypeOK
    <3>3. \A id \in BufferedIds : lo <= id /\ id <= max_id
      BY <2>3, <3>1 DEF MaxIdExact, Least, BufferedIds
    <3>4. HasGaps <=> max_id - lo + 1 - Cardinality(BufferedIds) > 0
      BY <3>2 DEF HasGaps, CountMissing, Mirror
    <3> HIDE DEF lo, top
    <3>5. BufferedIds \in SUBSET (lo .. max_id)
      BY <3>2, <3>3
    <3>6. HasGaps <=> BufferedIds # lo .. max_id
      BY <3>2, <3>4, <3>5, CountGaps
    <3>7. BufferedIds # lo .. max_id <=> \E n \in lo .. max_id : n \notin BufferedIds
      BY <3>5
    <3>8. \A a, b \in BufferedIds : a .. b \subseteq lo .. max_id
      BY <3>2, <3>3
    <3>9. QED BY <3>2, <3>6, <3>7, <3>8 DEF GapsExact
  <2>4. QED BY <2>2, <2>3
<1>2. QED
  BY <1>1, InitTyped, InitMirrored, InitMax, TypeInductive, MirrorInductive, MaxInductive,
     PTL DEF Spec
==============================================================================
