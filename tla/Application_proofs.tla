--------------------------- MODULE Application_proofs ---------------------------
(***************************************************************************)
(* The replica and the publisher's state, for every set of prices, leaves  *)
(* and values and every number of rows few enough that no u32 overflows.   *)
(* What a replica holds is explained by a history: the state the publisher *)
(* had before each number of its log.  A replica that wants number n       *)
(* covers the state of the history at n, whence the next delta fits it.    *)
(***************************************************************************)
EXTENDS Application, FiniteSetTheorems, WellFoundedInduction, TLAPS

-----------------------------------------------------------------------------
(* Greatest and least elements.                                            *)

\* The least element of a nonempty set of naturals.
LEMMA MinIsLeast ==
  ASSUME NEW S \in SUBSET Nat, S # {}
  PROVE  Min(S) \in S /\ \A y \in S : Min(S) <= y
<1>1. PICK x \in S : \A y \in S : ~ (<<y, x>> \in OpToRel(<, Nat))
  BY NatLessThanWellFounded, WFMin, Zenon
<1>2. \A y \in S : x <= y
  <2>1. SUFFICES ASSUME NEW y \in S, y < x PROVE FALSE
    OBVIOUS
  <2>2. <<y, x>> \in OpToRel(<, Nat)
    BY <2>1 DEF OpToRel
  <2>3. QED BY <2>2, <1>1
<1>3. QED BY <1>2 DEF Min

\* The greatest element of a nonempty set of naturals below a bound: the one
\* that is least when counted down from the bound.
LEMMA MaxIsGreatest ==
  ASSUME NEW b \in Nat, NEW S \in SUBSET (0 .. b), S # {}
  PROVE  Max(S) \in S /\ \A x \in S : x <= Max(S)
<1> DEFINE T == {b - x : x \in S}
<1>1. T \in SUBSET Nat
  OBVIOUS
<1>2. T # {}
  OBVIOUS
<1>3. Min(T) \in T /\ \A y \in T : Min(T) <= y
  BY <1>1, <1>2, MinIsLeast
<1> DEFINE t == Min(T)
<1>4. t \in T /\ \A y \in T : t <= y
  BY <1>3
<1> HIDE DEF t
<1>5. PICK m \in S : t = b - m
  BY <1>4
<1>6. \A x \in S : x <= m
  <2>1. SUFFICES ASSUME NEW x \in S PROVE x <= m
    OBVIOUS
  <2>2. t <= b - x
    BY <1>4
  <2>3. QED BY <2>2, <1>5
<1>7. QED BY <1>6 DEF Max

\* The lesser of two naturals.
LEMMA MinOfTwo ==
  ASSUME NEW a \in Nat, NEW b \in Nat
  PROVE  Min({a, b}) \in {a, b} /\ Min({a, b}) <= a /\ Min({a, b}) <= b
<1>1. {a, b} \in SUBSET Nat /\ {a, b} # {}
  OBVIOUS
<1>2. QED BY <1>1, MinIsLeast

\* The greater of two naturals.
LEMMA MaxOfTwo ==
  ASSUME NEW a \in Nat, NEW b \in Nat
  PROVE  Max({a, b}) \in {a, b} /\ a <= Max({a, b}) /\ b <= Max({a, b})
<1>1. {a, b} \in SUBSET (0 .. a + b) /\ {a, b} # {} /\ a + b \in Nat
  OBVIOUS
<1>2. QED BY <1>1, MaxIsGreatest

-----------------------------------------------------------------------------
(* The book.                                                               *)

\* What a delta leaves of a quantity it fits, if there is room for it
After(book, d) ==
    IF d.action = "Insert" THEN Aggregate(book[d.side], d.price) + d.quantity
                           ELSE Aggregate(book[d.side], d.price) - d.quantity

\* A level that is not there has no quantity.
LEMMA QuantityTyped ==
  ASSUME NEW book, IsBook(book), NEW side \in {"Buy", "Sell"}, NEW p
  PROVE  /\ Aggregate(book[side], p) \in 0 .. U32 - 1
         /\ Aggregate(book[side], p) = 0 <=> p \notin DOMAIN book[side]
<1>1. U32 \in Nat \ {0}
  BY BookAssumption
<1>2. book[side] \in [DOMAIN book[side] -> 1 .. U32 - 1]
  BY DEF IsBook
<1>3. CASE p \in DOMAIN book[side]
  <2>1. book[side][p] \in 1 .. U32 - 1
    BY <1>2, <1>3
  <2>2. QED BY <1>1, <1>3, <2>1 DEF Aggregate
<1>4. CASE p \notin DOMAIN book[side]
  BY <1>1, <1>4 DEF Aggregate
<1>5. QED BY <1>3, <1>4

\* apply_delta changes one level, to what the delta leaves of it; the level is
\* gone when nothing is left (order_book.rs:135-187).
LEMMA QuoteApplied ==
  ASSUME NEW book, IsBook(book), NEW d \in QuoteDelta,
         ~ Underflows(book, d), After(book, d) < U32
  PROVE  LET new == ApplyQuote(book, d)
         IN  /\ IsBook(new)
             /\ \A side \in {"Buy", "Sell"} : \A p :
                  Aggregate(new[side], p) = IF side = d.side /\ p = d.price
                                            THEN After(book, d) ELSE Aggregate(book[side], p)
             /\ \A side \in {"Buy", "Sell"} :
                  DOMAIN new[side] \subseteq DOMAIN book[side]
                     \union IF side = d.side /\ d.action = "Insert" THEN {d.price} ELSE {}
<1> DEFINE side == d.side
           price == d.price
           old == Aggregate(book[side], price)
           left == After(book, d)
           new == ApplyQuote(book, d)
<1>1. /\ U32 \in Nat \ {0} /\ side \in {"Buy", "Sell"} /\ price \in 0 .. U32 - 1
      /\ d.quantity \in 1 .. U32 - 1 /\ d.action \in {"Insert", "Remove"}
  BY BookAssumption DEF QuoteDelta
<1>2. old \in 0 .. U32 - 1 /\ (old = 0 <=> price \notin DOMAIN book[side])
  BY <1>1, QuantityTyped
<1>3. left \in 0 .. U32 - 1 /\ (d.action = "Insert" => left # 0)
  BY <1>1, <1>2 DEF After, Underflows
<1>4. left % U32 = left
  BY <1>1, <1>3
<1> DEFINE gone == d.action = "Remove" /\ left = 0
           levels == IF gone THEN Restrict(book[side], DOMAIN book[side] \ {price})
                             ELSE With(book[side], price, left)
<1>5. new = [book EXCEPT ![side] = levels]
  BY <1>4 DEF ApplyQuote, After
<1>6. DOMAIN book = {"Buy", "Sell"}
  BY DEF IsBook
<1>7. /\ DOMAIN new = {"Buy", "Sell"} /\ new[side] = levels
      /\ \A s \in {"Buy", "Sell"} : s # side => new[s] = book[s]
  BY <1>1, <1>5, <1>6
<1>8. /\ DOMAIN book[side] \subseteq 0 .. U32 - 1
      /\ book[side] \in [DOMAIN book[side] -> 1 .. U32 - 1]
  BY <1>1, <1>6 DEF IsBook
<1>9. /\ DOMAIN levels \subseteq 0 .. U32 - 1
      /\ levels \in [DOMAIN levels -> 1 .. U32 - 1]
      /\ DOMAIN levels \subseteq DOMAIN book[side]
           \union IF d.action = "Insert" THEN {price} ELSE {}
      /\ \A p : Aggregate(levels, p) = IF p = price THEN left ELSE Aggregate(book[side], p)
  <2>1. CASE gone
    BY <2>1, <1>8 DEF Restrict, Aggregate
  <2>2. CASE ~ gone
    <3>1. left \in 1 .. U32 - 1 /\ price \in 0 .. U32 - 1
      BY <2>2, <1>1, <1>3
    <3>2. levels = With(book[side], price, left)
      BY <2>2
    <3>3. d.action = "Remove" => price \in DOMAIN book[side]
      BY <1>1, <1>2 DEF Underflows
    <3> HIDE DEF left, levels, price, side
    <3>4. levels \in [DOMAIN levels -> 1 .. U32 - 1]
      BY <3>1, <3>2, <1>8 DEF With
    <3>5. DOMAIN levels = DOMAIN book[side] \union {price}
      BY <3>2 DEF With
    <3>6. \A p : Aggregate(levels, p) = IF p = price THEN left ELSE Aggregate(book[side], p)
      BY <3>2 DEF With, Aggregate
    <3>7. QED BY <3>1, <3>3, <3>4, <3>5, <3>6, <1>1, <1>8
  <2>3. QED BY <2>1, <2>2
<1> HIDE DEF levels, new, left, side, price
<1>10. IsBook(new)
  BY <1>1, <1>6, <1>7, <1>9 DEF IsBook
<1>11. ASSUME NEW s \in {"Buy", "Sell"}, NEW p
       PROVE  Aggregate(new[s], p) = IF s = side /\ p = price
                                     THEN left ELSE Aggregate(book[s], p)
  BY <1>7, <1>9
<1>12. ASSUME NEW s \in {"Buy", "Sell"}
       PROVE  DOMAIN new[s] \subseteq DOMAIN book[s]
                \union IF s = side /\ d.action = "Insert" THEN {price} ELSE {}
  BY <1>7, <1>9
<1>13. QED BY <1>10, <1>11, <1>12 DEF new, left, side, price

BookCovers(s, t) ==
    \A side \in {"Buy", "Sell"} : \A p : Aggregate(t[side], p) <= Aggregate(s[side], p)

\* A delta that fits a book fits one that covers it, and leaves them so, if
\* there is room.
LEMMA QuoteCovered ==
  ASSUME NEW s, IsBook(s), NEW t, IsBook(t), BookCovers(s, t), NEW d \in QuoteDelta,
         ~ Underflows(t, d), After(s, d) < U32
  PROVE  /\ ~ Underflows(s, d)
         /\ BookCovers(ApplyQuote(s, d), ApplyQuote(t, d))
<1>1. /\ d.side \in {"Buy", "Sell"} /\ d.quantity \in 1 .. U32 - 1
      /\ U32 \in Nat \ {0} /\ d.action \in {"Insert", "Remove"}
  BY BookAssumption DEF QuoteDelta
<1> DEFINE a == Aggregate(s[d.side], d.price)
           b == Aggregate(t[d.side], d.price)
<1>2. a \in 0 .. U32 - 1 /\ b \in 0 .. U32 - 1 /\ b <= a
  BY <1>1, QuantityTyped DEF BookCovers
<1>3. ~ Underflows(s, d)
  BY <1>1, <1>2 DEF Underflows
<1>4. After(t, d) <= After(s, d)
  BY <1>1, <1>2 DEF After
<1>5. After(t, d) < U32
  <2>1. After(t, d) \in Int /\ After(s, d) \in Int
    BY <1>1, <1>2 DEF After
  <2>2. QED BY <1>1, <1>4, <2>1
<1>6. ASSUME NEW side \in {"Buy", "Sell"}, NEW p
      PROVE  Aggregate(ApplyQuote(t, d)[side], p) <= Aggregate(ApplyQuote(s, d)[side], p)
  <2>1. Aggregate(ApplyQuote(s, d)[side], p) =
          IF side = d.side /\ p = d.price THEN After(s, d) ELSE Aggregate(s[side], p)
    BY <1>3, QuoteApplied
  <2>2. Aggregate(ApplyQuote(t, d)[side], p) =
          IF side = d.side /\ p = d.price THEN After(t, d) ELSE Aggregate(t[side], p)
    BY <1>5, QuoteApplied
  <2>3. QED BY <2>1, <2>2, <1>4 DEF BookCovers
<1>7. QED BY <1>3, <1>6 DEF BookCovers

-----------------------------------------------------------------------------
(* The tree.                                                               *)

\* What a delta can be.
LEMMA LeafDeltas ==
  ASSUME NEW d \in LeafDelta
  PROVE  /\ d.id \in LeafIds
         /\ \/ d.delta \in {"EditA", "EditB"} /\ d.value \in Int
            \/ d.delta = "NewLeaf" /\ d.leaf \in Leaf
            \/ d.delta = "DeleteLeaf"
<1>1. I32 \in Int /\ Values \subseteq -I32 .. I32 - 1
  BY TreeAssumption
<1>2. Values \subseteq Int
  BY <1>1
<1>3. [a : Values, b : Values] \subseteq Leaf
  BY <1>1 DEF Leaf
<1> HIDE DEF Leaf
<1>4. QED BY <1>2, <1>3 DEF LeafDelta

\* What wraps is an i32 again.
LEMMA WrappedTyped ==
  ASSUME NEW x \in Int
  PROVE  Wrapped(x) \in -I32 .. I32 - 1
<1> DEFINE y == x + I32
           m == 2 * I32
<1>1. I32 \in Nat \ {0} /\ y \in Int /\ m \in Nat \ {0} /\ m = I32 + I32
  BY TreeAssumption
<1>2. Wrapped(x) = (y % m) - I32
  BY DEF Wrapped
<1> HIDE DEF y, m
<1>3. y % m \in 0 .. m - 1
  BY <1>1
<1>4. QED BY <1>1, <1>2, <1>3

\* A delta changes one leaf (proto.rs:38-61).
LEMMA LeafApplied ==
  ASSUME NEW leaves, IsTree(leaves), NEW d \in LeafDelta, ~ EditsNothing(leaves, d)
  PROVE  IsTree(ApplyLeaf(leaves, d))
<1>1. d.id \in LeafIds /\ DOMAIN leaves \subseteq LeafIds /\ leaves \in [DOMAIN leaves -> Leaf]
  BY LeafDeltas DEF IsTree
<1>2. CASE d.delta = "EditA"
  <2>1. d.id \in DOMAIN leaves /\ d.value \in Int
    BY <1>2, LeafDeltas DEF EditsNothing
  <2>2. leaves[d.id] \in Leaf
    BY <1>1, <2>1
  <2>3. [leaves[d.id] EXCEPT !.a = Wrapped(@ + d.value)] \in Leaf
    BY <2>1, <2>2, TreeAssumption, WrappedTyped DEF Leaf
  <2>4. ApplyLeaf(leaves, d) = [leaves EXCEPT ![d.id] = [leaves[d.id] EXCEPT !.a = Wrapped(@ + d.value)]]
    BY <1>2 DEF ApplyLeaf
  <2>5. QED BY <1>1, <2>1, <2>3, <2>4 DEF IsTree
<1>3. CASE d.delta = "EditB"
  <2>1. d.id \in DOMAIN leaves /\ d.value \in Int
    BY <1>3, LeafDeltas DEF EditsNothing
  <2>2. leaves[d.id] \in Leaf
    BY <1>1, <2>1
  <2>3. [leaves[d.id] EXCEPT !.b = Wrapped(@ + d.value)] \in Leaf
    BY <2>1, <2>2, TreeAssumption, WrappedTyped DEF Leaf
  <2>4. ApplyLeaf(leaves, d) = [leaves EXCEPT ![d.id] = [leaves[d.id] EXCEPT !.b = Wrapped(@ + d.value)]]
    BY <1>3 DEF ApplyLeaf
  <2>5. QED BY <1>1, <2>1, <2>3, <2>4 DEF IsTree
<1>4. CASE d.delta = "NewLeaf"
  <2>1. d.leaf \in Leaf
    BY <1>4, LeafDeltas
  <2>2. ApplyLeaf(leaves, d) =
          [id \in DOMAIN leaves \union {d.id} |-> IF id = d.id THEN d.leaf ELSE leaves[id]]
    BY <1>4 DEF ApplyLeaf
  <2>3. QED BY <1>1, <2>1, <2>2 DEF IsTree
<1>5. CASE d.delta = "DeleteLeaf"
  <2>1. ApplyLeaf(leaves, d) = [id \in DOMAIN leaves \ {d.id} |-> leaves[id]]
    BY <1>5 DEF ApplyLeaf, Restrict
  <2>2. QED BY <1>1, <2>1 DEF IsTree
<1>6. QED BY <1>2, <1>3, <1>4, <1>5, LeafDeltas

TreeCovers(s, t) == DOMAIN t \subseteq DOMAIN s /\ \A id \in DOMAIN t : t[id] = s[id]

\* A delta that fits a tree fits one that has it as a part, and leaves them so.
LEMMA LeafCovered ==
  ASSUME NEW s, NEW t, TreeCovers(s, t), NEW d \in LeafDelta, ~ EditsNothing(t, d)
  PROVE  /\ ~ EditsNothing(s, d)
         /\ TreeCovers(ApplyLeaf(s, d), ApplyLeaf(t, d))
<1>1. ~ EditsNothing(s, d)
  BY DEF EditsNothing, TreeCovers
<1>2. CASE d.delta = "EditA"
  <2>1. d.id \in DOMAIN t /\ d.id \in DOMAIN s /\ s[d.id] = t[d.id]
    BY <1>2 DEF EditsNothing, TreeCovers
  <2>2. ApplyLeaf(s, d) = [s EXCEPT ![d.id] = [s[d.id] EXCEPT !.a = Wrapped(@ + d.value)]]
    BY <1>2 DEF ApplyLeaf
  <2>3. ApplyLeaf(t, d) = [t EXCEPT ![d.id] = [t[d.id] EXCEPT !.a = Wrapped(@ + d.value)]]
    BY <1>2 DEF ApplyLeaf
  <2>4. QED BY <1>1, <2>1, <2>2, <2>3 DEF TreeCovers
<1>3. CASE d.delta = "EditB"
  <2>1. d.id \in DOMAIN t /\ d.id \in DOMAIN s /\ s[d.id] = t[d.id]
    BY <1>3 DEF EditsNothing, TreeCovers
  <2>2. ApplyLeaf(s, d) = [s EXCEPT ![d.id] = [s[d.id] EXCEPT !.b = Wrapped(@ + d.value)]]
    BY <1>3 DEF ApplyLeaf
  <2>3. ApplyLeaf(t, d) = [t EXCEPT ![d.id] = [t[d.id] EXCEPT !.b = Wrapped(@ + d.value)]]
    BY <1>3 DEF ApplyLeaf
  <2>4. QED BY <1>1, <2>1, <2>2, <2>3 DEF TreeCovers
<1>4. CASE d.delta = "NewLeaf"
  <2>1. ApplyLeaf(s, d) =
          [id \in DOMAIN s \union {d.id} |-> IF id = d.id THEN d.leaf ELSE s[id]]
    BY <1>4 DEF ApplyLeaf
  <2>2. ApplyLeaf(t, d) =
          [id \in DOMAIN t \union {d.id} |-> IF id = d.id THEN d.leaf ELSE t[id]]
    BY <1>4 DEF ApplyLeaf
  <2>3. QED BY <1>1, <2>1, <2>2 DEF TreeCovers
<1>5. CASE d.delta = "DeleteLeaf"
  <2>1. ApplyLeaf(s, d) = [id \in DOMAIN s \ {d.id} |-> s[id]]
    BY <1>5 DEF ApplyLeaf, Restrict
  <2>2. ApplyLeaf(t, d) = [id \in DOMAIN t \ {d.id} |-> t[id]]
    BY <1>5 DEF ApplyLeaf, Restrict
  <2>3. QED BY <1>1, <2>1, <2>2 DEF TreeCovers
<1>6. QED BY <1>2, <1>3, <1>4, <1>5, LeafDeltas

-----------------------------------------------------------------------------
(* Either implementation.                                                  *)

\* What n deltas can have put at one price
Limit(n) == n * MAX_QUANTITY

\* A state that n deltas have made
Sized(s, n) ==
    /\ IsState(s)
    /\ kind = "book" => \A side \in {"Buy", "Sell"} : \A p : Aggregate(s[side], p) <= Limit(n)

Small(d) == kind = "book" /\ d.action = "Insert" => d.quantity < MAX_QUANTITY

\* There is room for the quantity of every row.
LEMMA Limits ==
  ASSUME NEW n \in 0 .. MaxRows
  PROVE  /\ Limit(n) \in Nat /\ Limit(n + 1) = Limit(n) + MAX_QUANTITY
         /\ Limit(n + 1) <= U32
<1>1. n \in Nat /\ MAX_QUANTITY \in Nat /\ MaxRows \in Nat /\ n <= MaxRows /\ U32 \in Nat
  BY BookAssumption, RowsAssumption
<1>2. n * MAX_QUANTITY \in Nat /\ (n + 1) * MAX_QUANTITY = n * MAX_QUANTITY + MAX_QUANTITY
  BY <1>1
<1>3. (n + 1) * MAX_QUANTITY <= (MaxRows + 1) * MAX_QUANTITY
  <2> DEFINE k == MaxRows - n
  <2>1. k \in Nat /\ MaxRows + 1 = (n + 1) + k
    BY <1>1
  <2> HIDE DEF k
  <2>2. ((n + 1) + k) * MAX_QUANTITY = (n + 1) * MAX_QUANTITY + k * MAX_QUANTITY
    BY <1>1, <2>1
  <2>3. k * MAX_QUANTITY \in Nat /\ (n + 1) * MAX_QUANTITY \in Nat
    BY <1>1, <2>1
  <2>4. QED BY <2>1, <2>2, <2>3
<1>4. (n + 1) * MAX_QUANTITY <= U32
  <2>1. (n + 1) * MAX_QUANTITY \in Int /\ (MaxRows + 1) * MAX_QUANTITY \in Int
    BY <1>1
  <2>2. QED BY <1>1, <1>3, <2>1, RowsAssumption
<1>5. QED BY <1>2, <1>4 DEF Limit

\* Covering level by level is covering at every price.
LEMMA CoversBook ==
  ASSUME kind = "book", NEW s, IsBook(s), NEW t, IsBook(t)
  PROVE  Covers(s, t) <=> BookCovers(s, t)
<1>1. ASSUME NEW side \in {"Buy", "Sell"}, NEW p
      PROVE  /\ Aggregate(s[side], p) \in 0 .. U32 - 1
             /\ p \in DOMAIN t[side] => Aggregate(t[side], p) = t[side][p]
             /\ p \notin DOMAIN t[side] => Aggregate(t[side], p) = 0
  BY QuantityTyped DEF Aggregate
<1>2. QED BY <1>1 DEF Covers, BookCovers

\* A state one delta larger is still within the limit.
LEMMA SizedGrows ==
  ASSUME NEW n \in 0 .. MaxRows, NEW s, Sized(s, n)
  PROVE  Sized(s, n + 1)
<1>1. Limit(n) \in Nat /\ Limit(n + 1) = Limit(n) + MAX_QUANTITY /\ MAX_QUANTITY \in Nat
  BY Limits, BookAssumption
<1>2. CASE kind = "book"
  <2>1. ASSUME NEW side \in {"Buy", "Sell"}, NEW p
        PROVE  Aggregate(s[side], p) <= Limit(n + 1)
    <3>1. Aggregate(s[side], p) \in 0 .. U32 - 1
      BY <1>2, QuantityTyped DEF Sized, IsState
    <3>2. Aggregate(s[side], p) <= Limit(n)
      BY <1>2 DEF Sized
    <3>3. QED BY <1>1, <3>1, <3>2, BookAssumption
  <2>2. QED BY <1>2, <2>1 DEF Sized
<1>3. QED BY <1>2 DEF Sized

\* The default state has no levels and no leaves.
LEMMA DefaultSized ==
  ASSUME NEW n \in 0 .. MaxRows + 1
  PROVE  Sized(Default, n) /\ Covers(Default, Default)
<1>1. Limit(n) \in Nat
  BY BookAssumption, RowsAssumption DEF Limit
<1>2. CASE kind = "book"
  <2>1. Default = EmptyBook /\ IsBook(EmptyBook)
    <3>1. DOMAIN NoLevels = {} /\ NoLevels \in [{} -> 1 .. U32 - 1]
      BY DEF NoLevels
    <3>2. DOMAIN EmptyBook = {"Buy", "Sell"}
      BY DEF EmptyBook
    <3>3. \A side \in {"Buy", "Sell"} : EmptyBook[side] = NoLevels
      BY DEF EmptyBook
    <3>4. QED BY <1>2, <3>1, <3>2, <3>3 DEF Default, IsBook
  <2>2. \A side \in {"Buy", "Sell"} : \A p : Aggregate(EmptyBook[side], p) = 0
    BY DEF EmptyBook, NoLevels, Aggregate
  <2>3. BookCovers(EmptyBook, EmptyBook)
    BY <2>2 DEF BookCovers
  <2>4. Covers(Default, Default)
    BY <1>2, <2>1, <2>3, CoversBook
  <2>5. QED BY <1>1, <1>2, <2>1, <2>2, <2>4 DEF Sized, IsState
<1>3. CASE kind # "book"
  <2>1. Default = EmptyTree /\ IsTree(EmptyTree)
    BY <1>3 DEF Default, EmptyTree, IsTree
  <2>2. QED BY <1>3, <2>1 DEF Sized, IsState, Covers
<1>4. QED BY <1>2, <1>3

\* A small delta leaves room for those to come.
LEMMA Room ==
  ASSUME kind = "book", NEW n \in 0 .. MaxRows, NEW s, Sized(s, n), NEW d \in Delta, Small(d)
  PROVE  After(s, d) < U32 /\ After(s, d) <= Limit(n + 1)
<1>1. /\ d \in QuoteDelta /\ d.side \in {"Buy", "Sell"} /\ d.quantity \in 1 .. U32 - 1
      /\ d.action \in {"Insert", "Remove"} /\ U32 \in Nat \ {0} /\ MAX_QUANTITY \in Nat
  BY BookAssumption DEF Delta, QuoteDelta
<1> DEFINE old == Aggregate(s[d.side], d.price)
<1>2. old \in 0 .. U32 - 1 /\ old <= Limit(n)
  BY <1>1, QuantityTyped DEF Sized, IsState
<1>3. /\ Limit(n) \in Nat /\ Limit(n + 1) = Limit(n) + MAX_QUANTITY
      /\ Limit(n + 1) <= U32
  BY Limits
<1> HIDE DEF old
<1>4. CASE d.action = "Insert"
  <2>1. d.quantity < MAX_QUANTITY /\ After(s, d) = old + d.quantity
    BY <1>4 DEF Small, After, old
  <2>2. QED BY <1>1, <1>2, <1>3, <2>1
<1>5. CASE d.action = "Remove"
  <2>1. After(s, d) = old - d.quantity
    BY <1>5 DEF After, old
  <2>2. QED BY <1>1, <1>2, <1>3, <2>1
<1>6. QED BY <1>1, <1>4, <1>5

\* A delta that fits a state leaves a state, one delta larger.
LEMMA Applied ==
  ASSUME kind \in {"book", "tree"}, NEW n \in 0 .. MaxRows, NEW s, Sized(s, n),
         NEW d \in Delta, Small(d), ~ Misfits(s, d)
  PROVE  Sized(Apply(s, d), n + 1)
<1>1. CASE kind = "book"
  <2>1. IsBook(s) /\ d \in QuoteDelta /\ ~ Underflows(s, d)
    BY <1>1 DEF Sized, IsState, Delta, Misfits
  <2>2. After(s, d) < U32 /\ After(s, d) <= Limit(n + 1)
    BY <1>1, Room
  <2>3. Apply(s, d) = ApplyQuote(s, d)
    BY <1>1 DEF Apply
  <2>4. Sized(s, n + 1)
    BY SizedGrows
  <2>5. ASSUME NEW side \in {"Buy", "Sell"}, NEW p
        PROVE  Aggregate(ApplyQuote(s, d)[side], p) <= Limit(n + 1)
    <3>1. Aggregate(ApplyQuote(s, d)[side], p) =
            IF side = d.side /\ p = d.price THEN After(s, d) ELSE Aggregate(s[side], p)
      BY <2>1, <2>2, QuoteApplied
    <3>2. QED BY <1>1, <2>2, <2>4, <3>1 DEF Sized
  <2>6. IsBook(ApplyQuote(s, d))
    BY <2>1, <2>2, QuoteApplied
  <2>7. QED BY <1>1, <2>3, <2>5, <2>6 DEF Sized, IsState
<1>2. CASE kind = "tree"
  <2>1. IsTree(s) /\ d \in LeafDelta /\ ~ EditsNothing(s, d)
    BY <1>2 DEF Sized, IsState, Delta, Misfits
  <2>2. IsTree(ApplyLeaf(s, d))
    BY <2>1, LeafApplied
  <2>3. QED BY <1>2, <2>2 DEF Sized, IsState, Apply
<1>3. QED BY <1>1, <1>2

\* A delta that fits a state fits every state that covers it, and both go on
\* so (order_book.rs:144, proto.rs:44-51).
LEMMA Covered ==
  ASSUME kind \in {"book", "tree"}, NEW n \in 0 .. MaxRows, NEW s, Sized(s, n),
         NEW t, IsState(t), Covers(s, t), NEW d \in Delta, Small(d), ~ Misfits(t, d)
  PROVE  ~ Misfits(s, d) /\ Covers(Apply(s, d), Apply(t, d))
<1>1. CASE kind = "book"
  <2>1. /\ IsBook(s) /\ IsBook(t) /\ d \in QuoteDelta /\ ~ Underflows(t, d)
        /\ BookCovers(s, t)
    BY <1>1, CoversBook DEF Sized, IsState, Delta, Misfits
  <2>2. After(s, d) < U32
    BY <1>1, Room
  <2>3. ~ Underflows(s, d) /\ BookCovers(ApplyQuote(s, d), ApplyQuote(t, d))
    BY <2>1, <2>2, QuoteCovered
  <2>4. ~ Misfits(s, d) /\ Apply(s, d) = ApplyQuote(s, d) /\ Apply(t, d) = ApplyQuote(t, d)
    BY <1>1, <2>3 DEF Misfits, Apply
  <2>5. IsBook(ApplyQuote(s, d))
    BY <2>1, <2>2, <2>3, QuoteApplied
  <2>6. Covers(ApplyQuote(s, d), ApplyQuote(t, d))
    BY <1>1, <2>3 DEF Covers, BookCovers, Aggregate
  <2>7. QED BY <2>4, <2>6
<1>2. CASE kind = "tree"
  BY <1>2, LeafCovered DEF Covers, TreeCovers, Delta, Misfits, Apply
<1>3. QED BY <1>1, <1>2

-----------------------------------------------------------------------------
(* What the application samples.                                           *)

\* A side without prices is an empty one.
LEMMA NoPrices ==
  ASSUME NEW book, IsBook(book), NEW side \in {"Buy", "Sell"}
  PROVE  book[side] = NoLevels <=> DOMAIN book[side] = {}
<1>1. DOMAIN NoLevels = {} /\ NoLevels \in [{} -> 1 .. U32 - 1]
  BY DEF NoLevels
<1>2. book[side] \in [DOMAIN book[side] -> 1 .. U32 - 1]
  BY DEF IsBook
<1>3. ASSUME DOMAIN book[side] = {} PROVE book[side] = NoLevels
  <2>1. book[side] = [p \in DOMAIN book[side] |-> book[side][p]]
    BY <1>2
  <2>2. book[side] = [p \in {} |-> book[side][p]]
    BY <2>1, <1>3
  <2>3. [p \in {} |-> book[side][p]] = [p \in {} |-> 0]
    OBVIOUS
  <2>4. QED BY <2>2, <2>3 DEF NoLevels
<1>4. QED BY <1>1, <1>3

\* The price of an order never meets the other side: a buy is below every sell
\* if there is room below them, a sell is above every buy if there is room
\* above them (order_book.rs:61-100).
LEMMA OrderPriced ==
  ASSUME NEW book, IsBook(book), NEW p \in MID_PRICES
  PROVE  /\ OrderPrice(book, "Buy", p) \in 0 .. U32 - 2
         /\ 0 \notin DOMAIN book["Sell"] =>
              \A x \in DOMAIN book["Sell"] : OrderPrice(book, "Buy", p) < x
         /\ OrderPrice(book, "Sell", p) \in 0 .. U32 - 1
         /\ DOMAIN book["Buy"] \subseteq 0 .. U32 - 2 =>
              \A x \in DOMAIN book["Buy"] : x < OrderPrice(book, "Sell", p)
<1>1. /\ U32 \in Nat \ {0} /\ p \in 0 .. U32 - 2
      /\ DOMAIN book["Sell"] \subseteq 0 .. U32 - 1
      /\ DOMAIN book["Buy"] \subseteq 0 .. U32 - 1
  BY BookAssumption DEF IsBook
<1>2. /\ OrderPrice(book, "Buy", p) \in 0 .. U32 - 2
      /\ 0 \notin DOMAIN book["Sell"] =>
           \A x \in DOMAIN book["Sell"] : OrderPrice(book, "Buy", p) < x
  <2>1. CASE DOMAIN book["Sell"] = {}
    <3>1. OrderPrice(book, "Buy", p) = p
      BY <2>1, NoPrices DEF OrderPrice
    <3>2. QED BY <1>1, <2>1, <3>1
  <2>2. CASE DOMAIN book["Sell"] # {}
    <3> DEFINE best == Min(DOMAIN book["Sell"])
               limit == (best - 1) % U32
               price == Min({p, limit})
    <3>1. best \in DOMAIN book["Sell"] /\ \A x \in DOMAIN book["Sell"] : best <= x
      BY <1>1, <2>2, MinIsLeast
    <3>2. OrderPrice(book, "Buy", p) = price
      <4>1. book["Sell"] # NoLevels
        BY <2>2, NoPrices
      <4>2. QED BY <4>1 DEF OrderPrice, BestSell
    <3>3. best \in 0 .. U32 - 1
      BY <1>1, <3>1
    <3> HIDE DEF best
    <3>4. limit \in 0 .. U32 - 1 /\ (best # 0 => limit = best - 1)
      BY <1>1, <3>3
    <3> HIDE DEF limit
    <3>5. p \in Nat /\ limit \in Nat
      BY <1>1, <3>4
    <3>6. price \in {p, limit} /\ price <= p /\ price <= limit
      BY <3>5, MinOfTwo
    <3> HIDE DEF price
    <3>7. price \in 0 .. U32 - 2
      BY <1>1, <3>5, <3>6
    <3>8. ASSUME 0 \notin DOMAIN book["Sell"], NEW x \in DOMAIN book["Sell"]
          PROVE  price < x
      <4>1. best # 0 /\ best <= x /\ x \in 0 .. U32 - 1
        BY <1>1, <3>1, <3>8
      <4>2. QED BY <4>1, <3>3, <3>4, <3>6, <3>7
    <3>9. QED BY <3>2, <3>7, <3>8
  <2>3. QED BY <2>1, <2>2
<1>3. /\ OrderPrice(book, "Sell", p) \in 0 .. U32 - 1
      /\ DOMAIN book["Buy"] \subseteq 0 .. U32 - 2 =>
           \A x \in DOMAIN book["Buy"] : x < OrderPrice(book, "Sell", p)
  <2>1. CASE DOMAIN book["Buy"] = {}
    <3>1. OrderPrice(book, "Sell", p) = p
      BY <2>1, NoPrices DEF OrderPrice
    <3>2. QED BY <1>1, <2>1, <3>1
  <2>2. CASE DOMAIN book["Buy"] # {}
    <3> DEFINE best == Max(DOMAIN book["Buy"])
               limit == (best + 1) % U32
               price == Max({p, limit})
    <3>1. best \in DOMAIN book["Buy"] /\ \A x \in DOMAIN book["Buy"] : x <= best
      <4>1. U32 - 1 \in Nat
        BY <1>1
      <4>2. QED BY <1>1, <4>1, <2>2, MaxIsGreatest
    <3>2. OrderPrice(book, "Sell", p) = price
      <4>1. book["Buy"] # NoLevels
        BY <2>2, NoPrices
      <4>2. QED BY <4>1 DEF OrderPrice, BestBuy
    <3>3. best \in 0 .. U32 - 1
      BY <1>1, <3>1
    <3> HIDE DEF best
    <3>4. limit \in 0 .. U32 - 1 /\ (best <= U32 - 2 => limit = best + 1)
      BY <1>1, <3>3
    <3> HIDE DEF limit
    <3>5. p \in Nat /\ limit \in Nat
      BY <1>1, <3>4
    <3>6. price \in {p, limit} /\ limit <= price
      BY <3>5, MaxOfTwo
    <3> HIDE DEF price
    <3>7. price \in 0 .. U32 - 1
      BY <1>1, <3>4, <3>6
    <3>8. ASSUME DOMAIN book["Buy"] \subseteq 0 .. U32 - 2, NEW x \in DOMAIN book["Buy"]
          PROVE  x < price
      <4>1. best <= U32 - 2 /\ x <= best /\ x \in 0 .. U32 - 1
        BY <1>1, <3>1, <3>8
      <4>2. QED BY <4>1, <3>3, <3>4, <3>6, <3>7
    <3>9. QED BY <3>2, <3>7, <3>8
  <2>3. QED BY <2>1, <2>2
<1>4. QED BY <1>2, <1>3

\* A random delta is one, fits the book it was made for, is small, and has the
\* price of an order or of a level.
LEMMA RandomlyMade ==
  ASSUME NEW book, IsBook(book), NEW d \in RandomDeltas(book)
  PROVE  /\ d \in QuoteDelta /\ ~ Underflows(book, d)
         /\ d.action = "Insert" =>
              /\ d.quantity < MAX_QUANTITY
              /\ \E p \in MID_PRICES : d.price = OrderPrice(book, d.side, p)
<1>1. PICK side \in {"Buy", "Sell"} :
        \/ d \in [action : {"Insert"}, side : {side}, quantity : 1 .. MAX_QUANTITY - 1,
                  price : {OrderPrice(book, side, p) : p \in MID_PRICES}]
        \/ \E p \in DOMAIN book[side] :
             d \in [action : {"Remove"}, side : {side}, quantity : 1 .. book[side][p],
                    price : {p}]
  BY DEF RandomDeltas
<1>2. U32 \in Nat \ {0} /\ MAX_QUANTITY \in 0 .. U32
  BY BookAssumption
<1>3. CASE d \in [action : {"Insert"}, side : {side}, quantity : 1 .. MAX_QUANTITY - 1,
                  price : {OrderPrice(book, side, p) : p \in MID_PRICES}]
  <2>1. PICK p \in MID_PRICES : d.price = OrderPrice(book, side, p)
    BY <1>3
  <2>2. d.price \in 0 .. U32 - 1
    BY <1>2, <2>1, OrderPriced
  <2>3. /\ d.action = "Insert" /\ d.side = side /\ d.quantity \in 1 .. U32 - 1
        /\ d.quantity < MAX_QUANTITY
    BY <1>2, <1>3
  <2>4. d \in QuoteDelta
    BY <1>3, <2>2, <2>3 DEF QuoteDelta
  <2>5. QED BY <2>1, <2>3, <2>4 DEF Underflows
<1>4. ASSUME NEW p \in DOMAIN book[side],
             d \in [action : {"Remove"}, side : {side}, quantity : 1 .. book[side][p],
                    price : {p}]
      PROVE  d \in QuoteDelta /\ ~ Underflows(book, d) /\ d.action = "Remove"
  <2>1. p \in 0 .. U32 - 1 /\ book[side][p] \in 1 .. U32 - 1
    BY DEF IsBook
  <2>2. /\ d.action = "Remove" /\ d.side = side /\ d.price = p
        /\ d.quantity \in 1 .. U32 - 1 /\ d.quantity <= book[side][p]
    BY <1>2, <1>4, <2>1
  <2>3. d \in QuoteDelta
    BY <1>4, <2>1, <2>2 DEF QuoteDelta
  <2>4. ~ Underflows(book, d)
    BY <2>1, <2>2 DEF Underflows, Aggregate
  <2>5. QED BY <2>2, <2>3, <2>4
<1>5. QED BY <1>1, <1>3, <1>4

\* What the application may do next is a delta that fits its state.
LEMMA DeltasFit ==
  ASSUME kind \in {"book", "tree"}, NEW s, IsState(s), NEW d \in Deltas(s)
  PROVE  d \in Delta /\ d # NoDelta /\ Small(d) /\ ~ Misfits(s, d)
<1>1. CASE kind = "book"
  <2>1. IsBook(s) /\ d \in RandomDeltas(s)
    BY <1>1 DEF IsState, Deltas
  <2>2. d \in QuoteDelta /\ ~ Underflows(s, d) /\ (d.action = "Insert" => d.quantity < MAX_QUANTITY)
    BY <2>1, RandomlyMade
  <2>3. d # NoDelta
    BY <2>2 DEF QuoteDelta, NoDelta
  <2>4. QED BY <1>1, <2>2, <2>3 DEF Delta, Small, Misfits
<1>2. CASE kind = "tree"
  <2>1. d \in LeafDelta /\ ~ EditsNothing(s, d)
    BY <1>2 DEF Deltas
  <2>2. d # NoDelta
    BY <2>1, LeafDeltas DEF NoDelta
  <2>3. QED BY <1>2, <2>1, <2>2 DEF Delta, Small, Misfits
<1>3. QED BY <1>1, <1>2

-----------------------------------------------------------------------------
(* The invariant, layer by layer: types and sizes, and the numbers of the  *)
(* log; the two sides of the book; what the replica holds.                 *)

\* How many deltas and starts the state is the work of
Steps == IF pending = NoDelta THEN sequence ELSE sequence + 1

Bounded ==
    /\ rows = [n \in DOMAIN rows |-> rows[n]]
    /\ \A n \in DOMAIN rows : rows[n] # Started => Small(rows[n].delta)
    /\ pending # NoDelta => up /\ sequence <= MaxRows /\ Small(pending)
    /\ Sized(state, Steps)
    /\ Sized(replica, want)

Numbered ==
    /\ lost => store # "file" /\ (~ up => rows = NoRows)
    /\ up \/ ~ lost => DOMAIN rows = 0 .. sequence - 1
    /\ up => sequence # 0
    /\ ~ lost => want <= sequence
    /\ 0 \in DOMAIN rows => rows[0] = Started

Layer1 == TypeOK /\ Bounded /\ Numbered

\* They hold before the first run.
LEMMA InitLayer1 == Init => Layer1
<1> SUFFICES ASSUME Init PROVE Layer1
  OBVIOUS
<1>1. 0 \in 0 .. MaxRows + 1 /\ MaxRows \in Nat
  BY RowsAssumption
<1>2. Sized(Default, 0)
  BY <1>1, DefaultSized
<1>3. Bounded
  BY <1>2 DEF Init, Bounded, NoRows, Steps
<1>4. Numbered
  BY DEF Init, Numbered, NoRows
<1>5. TypeOK
  BY <1>1, <1>2, StoresAssumption DEF Init, TypeOK, NoRows, Sized
<1>6. QED BY <1>3, <1>4, <1>5 DEF Layer1

\* What depends on the implementation alone stays as long as it does.
LEMMA SameKind ==
  ASSUME kind' = kind
  PROVE  /\ Default' = Default /\ Delta' = Delta
         /\ \A s : IsState(s)' <=> IsState(s)
         /\ \A s, n : Sized(s, n)' <=> Sized(s, n)
         /\ \A d : Small(d)' <=> Small(d)
         /\ \A row : IsRow(row)' <=> IsRow(row)
         /\ \A s, d : Misfits(s, d)' <=> Misfits(s, d)
         /\ \A s, d : Apply(s, d)' = Apply(s, d)
         /\ \A s, t : Covers(s, t)' <=> Covers(s, t)
BY DEF Default, Delta, IsState, Sized, Small, IsRow, Misfits, Apply, Covers

\* The next number in the log.
LEMMA Inserted ==
  ASSUME NEW k \in Nat, DOMAIN rows = 0 .. k - 1, NEW row, rows' = Insert(rows, k, row)
  PROVE  /\ DOMAIN rows' = 0 .. k
         /\ rows' = [n \in DOMAIN rows' |-> rows'[n]]
         /\ rows'[k] = row
         /\ \A n \in DOMAIN rows : rows'[n] = rows[n]
<1>1. /\ DOMAIN rows' = DOMAIN rows \union {k}
      /\ rows' = [n \in DOMAIN rows' |-> rows'[n]]
      /\ rows'[k] = row
      /\ \A n \in DOMAIN rows : n # k => rows'[n] = rows[n]
  BY DEF Insert
<1>2. DOMAIN rows \union {k} = 0 .. k /\ \A n \in DOMAIN rows : n # k
  OBVIOUS
<1>3. QED BY <1>1, <1>2

\* A process that runs over the store takes the number after the last: over the
\* mock, whose next number is the last one, it only runs if there is none.
LEMMA RunNumber ==
  ASSUME Layer1, Run
  PROVE  /\ NextSequence \in 0 .. MaxRows
         /\ DOMAIN rows = 0 .. NextSequence - 1
         /\ ~ lost => NextSequence = sequence
<1>1. /\ MaxRows \in Nat /\ sequence \in 0 .. MaxRows + 1 /\ ~ up
      /\ DOMAIN rows \subseteq 0 .. MaxRows /\ NextSequence \notin DOMAIN rows
      /\ NextSequence <= MaxRows
  BY RowsAssumption DEF Layer1, TypeOK, Run, Refuses
<1>2. DOMAIN NoRows = {}
  BY DEF NoRows
<1>3. CASE rows = NoRows
  <2>1. NextSequence = 0
    BY <1>3 DEF NextSequence, SqliteNext, MockNext
  <2>2. ~ lost => sequence = 0
    BY <1>1, <1>2, <1>3 DEF Layer1, Numbered
  <2>3. QED BY <1>1, <1>2, <1>3, <2>1, <2>2
<1>4. CASE rows # NoRows
  <2>1. ~ lost /\ DOMAIN rows = 0 .. sequence - 1
    BY <1>1, <1>4 DEF Layer1, Numbered
  <2>2. DOMAIN rows # {}
    <3>1. SUFFICES ASSUME DOMAIN rows = {} PROVE FALSE
      OBVIOUS
    <3>2. rows = [n \in {} |-> rows[n]]
      BY <3>1 DEF Layer1, Bounded
    <3>3. [n \in {} |-> rows[n]] = [n \in {} |-> 0]
      OBVIOUS
    <3>4. QED BY <1>4, <3>2, <3>3 DEF NoRows
  <2>3. /\ Max(DOMAIN rows) \in DOMAIN rows
        /\ \A x \in DOMAIN rows : x <= Max(DOMAIN rows)
    BY <1>1, <2>2, MaxIsGreatest
  <2> DEFINE last == Max(DOMAIN rows)
  <2>4. last \in DOMAIN rows /\ \A x \in DOMAIN rows : x <= last
    BY <2>3
  <2>5. NextSequence = last \/ NextSequence = last + 1
    BY <1>4 DEF NextSequence, SqliteNext, MockNext
  <2> HIDE DEF last
  <2>6. last = sequence - 1
    <3>1. sequence - 1 \in DOMAIN rows
      BY <1>1, <2>1, <2>2
    <3>2. sequence - 1 <= last
      BY <3>1, <2>4
    <3>3. last \in 0 .. sequence - 1
      BY <2>1, <2>4
    <3>4. QED BY <1>1, <3>2, <3>3
  <2>7. NextSequence = sequence
    BY <1>1, <2>4, <2>5, <2>6
  <2>8. QED BY <1>1, <2>1, <2>7
<1>5. QED BY <1>3, <1>4

\* Every step keeps the types, the sizes and the numbers.
LEMMA Layer1Preserved == Layer1 /\ [Next]_vars => Layer1'
<1> SUFFICES ASSUME Layer1, [Next]_vars PROVE Layer1'
  OBVIOUS
<1>1. TypeOK /\ Bounded /\ Numbered /\ MaxRows \in Nat /\ kind \in {"book", "tree"}
  BY RowsAssumption DEF Layer1, TypeOK
<1>2. kind' = kind
  BY DEF Next, vars, storeVars, pubVars, subVars, Run, ApplyDelta, Publish, Die, Receive, Restart
<1>3. CASE Run
  <2> DEFINE k == NextSequence
  <2>1. /\ k \in 0 .. MaxRows /\ DOMAIN rows = 0 .. k - 1
        /\ ~ lost => k = sequence
    BY <1>3, RunNumber
  <2>2. /\ rows' = Insert(rows, k, Started) /\ sequence' = k + 1 /\ up' = TRUE
        /\ state' = Default /\ pending = NoDelta /\ zeroQuoted' = FALSE
    BY <1>1, <1>3 DEF Run, Bounded
  <2>3. UNCHANGED <<kind, store, lost, pending, replica, want, broken>>
    BY <1>3 DEF Run, subVars
  <2> HIDE DEF k
  <2>4. /\ DOMAIN rows' = 0 .. k
        /\ rows' = [n \in DOMAIN rows' |-> rows'[n]]
        /\ rows'[k] = Started
        /\ \A n \in DOMAIN rows : rows'[n] = rows[n]
    BY <2>1, <2>2, Inserted
  <2>5. k + 1 \in 0 .. MaxRows + 1
    BY <1>1, <2>1
  <2>6. Sized(Default, k + 1)
    BY <2>5, DefaultSized
  <2>7. IsState(Default)
    BY <2>6 DEF Sized
  <2>8. \A n \in DOMAIN rows' : n \in 0 .. MaxRows /\ IsRow(rows'[n])
    BY <1>1, <2>1, <2>4 DEF TypeOK, IsRow
  <2>9. TypeOK'
    BY <1>1, <1>2, <2>2, <2>3, <2>5, <2>7, <2>8, SameKind DEF TypeOK
  <2>10. \A n \in DOMAIN rows' : rows'[n] # Started => Small(rows'[n].delta)
    BY <1>1, <2>1, <2>4 DEF Bounded
  <2>11. Bounded'
    BY <1>1, <1>2, <2>2, <2>3, <2>4, <2>6, <2>10, SameKind DEF Bounded, Steps
  <2>12. Numbered'
    <3>1. 0 \in DOMAIN rows' => rows'[0] = Started
      BY <1>1, <2>1, <2>4 DEF Numbered
    <3>2. DOMAIN rows' = 0 .. sequence' - 1
      BY <2>1, <2>2, <2>4
    <3>3. ~ lost => want <= k + 1
      BY <1>1, <2>1 DEF Numbered, TypeOK
    <3>4. lost' = lost /\ want' = want /\ store' = store /\ up'
      BY <2>2, <2>3
    <3>5. sequence' = k + 1 /\ sequence' # 0
      BY <2>1, <2>2
    <3>6. lost => store # "file"
      BY <1>1 DEF Numbered
    <3>7. QED BY <3>1, <3>2, <3>3, <3>4, <3>5, <3>6 DEF Numbered
  <2>13. QED BY <2>9, <2>11, <2>12 DEF Layer1
<1>4. CASE ApplyDelta
  <2>1. /\ up /\ pending = NoDelta /\ sequence \in 0 .. MaxRows
        /\ UNCHANGED <<kind, store, rows, lost, up, sequence, replica, want, broken>>
    BY <1>1, <1>4 DEF ApplyDelta, TypeOK, storeVars, subVars
  <2>2. PICK d \in Deltas(state) :
          /\ state' = Apply(state, d)
          /\ pending' = d
          /\ zeroQuoted' = (zeroQuoted \/ (kind = "book" /\ d.side = "Sell" /\ d.price = 0))
    BY <1>4 DEF ApplyDelta
  <2>3. Sized(state, sequence) /\ IsState(state)
    BY <1>1, <2>1 DEF Bounded, Steps, Sized
  <2>4. d \in Delta /\ d # NoDelta /\ Small(d) /\ ~ Misfits(state, d)
    BY <1>1, <2>3, DeltasFit
  <2>5. Sized(state', sequence + 1) /\ IsState(state')
    BY <1>1, <2>1, <2>2, <2>3, <2>4, Applied DEF Sized
  <2>6. zeroQuoted' \in BOOLEAN
    BY <1>1, <2>2, Zenon DEF TypeOK
  <2>7. TypeOK'
    BY <1>1, <1>2, <2>1, <2>2, <2>4, <2>5, <2>6, SameKind DEF TypeOK
  <2>8. Bounded'
    BY <1>1, <1>2, <2>1, <2>2, <2>4, <2>5, SameKind DEF Bounded, Steps
  <2>9. Numbered'
    BY <1>1, <2>1 DEF Numbered
  <2>10. QED BY <2>7, <2>8, <2>9 DEF Layer1
<1>5. CASE Publish
  <2> DEFINE row == [payload |-> "Delta", delta |-> pending]
  <2>1. /\ up /\ pending # NoDelta /\ pending \in Delta /\ Small(pending)
        /\ sequence \in 0 .. MaxRows /\ DOMAIN rows = 0 .. sequence - 1
    BY <1>1, <1>5 DEF Publish, TypeOK, Bounded, Numbered
  <2>2. /\ rows' = Insert(rows, sequence, row) /\ sequence' = sequence + 1
        /\ pending' = NoDelta
        /\ UNCHANGED <<kind, store, lost, up, state, zeroQuoted, replica, want, broken>>
    BY <1>5 DEF Publish, subVars
  <2>3. row # Started /\ row.delta = pending /\ IsRow(row)
    BY <2>1 DEF Started, IsRow
  <2> HIDE DEF row
  <2>4. /\ DOMAIN rows' = 0 .. sequence
        /\ rows' = [n \in DOMAIN rows' |-> rows'[n]]
        /\ rows'[sequence] = row
        /\ \A n \in DOMAIN rows : rows'[n] = rows[n]
    BY <2>1, <2>2, Inserted
  <2>5. \A n \in DOMAIN rows' : n \in 0 .. MaxRows /\ IsRow(rows'[n])
    BY <1>1, <2>1, <2>3, <2>4 DEF TypeOK
  <2>6. TypeOK'
    BY <1>1, <1>2, <2>1, <2>2, <2>5, SameKind DEF TypeOK
  <2>7. \A n \in DOMAIN rows' : rows'[n] # Started => Small(rows'[n].delta)
    BY <1>1, <2>1, <2>3, <2>4 DEF Bounded
  <2>8. Bounded'
    BY <1>1, <1>2, <2>1, <2>2, <2>4, <2>7, SameKind DEF Bounded, Steps
  <2>9. Numbered'
    <3>1. 0 \in DOMAIN rows' => rows'[0] = Started
      BY <1>1, <2>1, <2>4 DEF Numbered
    <3>2. DOMAIN rows' = 0 .. sequence' - 1
      BY <2>1, <2>2, <2>4
    <3>3. ~ lost => want <= sequence + 1
      BY <1>1, <2>1 DEF Numbered, TypeOK
    <3>4. QED BY <1>1, <2>1, <2>2, <3>1, <3>2, <3>3 DEF Numbered
  <2>10. QED BY <2>6, <2>8, <2>9 DEF Layer1
<1>6. CASE Die
  <2>1. /\ up' = FALSE /\ pending' = NoDelta /\ state' = Default
        /\ rows' = IF store = "file" THEN rows ELSE NoRows
        /\ lost' = (lost \/ store # "file")
        /\ UNCHANGED <<kind, store, sequence, zeroQuoted, replica, want, broken>>
        /\ up
    BY <1>6 DEF Die, subVars
  <2>2. sequence \in 0 .. MaxRows + 1
    BY <1>1 DEF TypeOK
  <2>3. Sized(Default, sequence) /\ IsState(Default)
    BY <2>2, DefaultSized DEF Sized
  <2>4. /\ DOMAIN NoRows = {} /\ NoRows = [n \in DOMAIN NoRows |-> NoRows[n]]
    BY DEF NoRows
  <2>5. lost' \in BOOLEAN
    BY <1>1, <2>1, Zenon DEF TypeOK
  <2>6. \A n \in DOMAIN rows' : n \in 0 .. MaxRows /\ IsRow(rows'[n])
    BY <1>1, <2>1, <2>4 DEF TypeOK
  <2>7. TypeOK'
    BY <1>1, <1>2, <2>1, <2>3, <2>5, <2>6, SameKind DEF TypeOK
  <2>8. Bounded'
    BY <1>1, <1>2, <2>1, <2>3, <2>4, SameKind DEF Bounded, Steps
  <2>9. Numbered'
    <3>1. CASE store = "file"
      BY <1>1, <2>1, <3>1 DEF Numbered
    <3>2. CASE store # "file"
      BY <1>1, <2>1, <2>4, <3>2 DEF Numbered
    <3>3. QED BY <3>1, <3>2
  <2>10. QED BY <2>7, <2>8, <2>9 DEF Layer1
<1>7. CASE Receive
  <2>1. /\ want \in DOMAIN rows /\ want' = want + 1
        /\ \/ UNCHANGED <<replica, broken>>
           \/ \E d \in GetDelta(rows[want]) :
                IF Misfits(replica, d) THEN broken' = TRUE /\ UNCHANGED replica
                ELSE replica' = Apply(replica, d) /\ UNCHANGED broken
        /\ UNCHANGED <<kind, store, rows, lost, up, sequence, state, pending, zeroQuoted>>
    BY <1>7 DEF Receive, StreamFrom, Restrict, storeVars, pubVars
  <2>2. want \in 0 .. MaxRows /\ IsRow(rows[want]) /\ Sized(replica, want)
    BY <1>1, <2>1 DEF TypeOK, Bounded
  <2>3. ASSUME NEW d \in GetDelta(rows[want]) PROVE d \in Delta /\ Small(d)
    <3>1. rows[want].payload = "Delta" /\ d = rows[want].delta
      BY DEF GetDelta
    <3>2. rows[want] # Started
      BY <3>1 DEF Started
    <3>3. QED BY <1>1, <2>1, <2>2, <3>1, <3>2 DEF Bounded, IsRow
  <2>4. Sized(replica', want + 1) /\ broken' \in BOOLEAN
    <3>1. CASE UNCHANGED <<replica, broken>>
      BY <1>1, <2>2, <3>1, SizedGrows DEF TypeOK
    <3>2. ASSUME NEW d \in GetDelta(rows[want]), Misfits(replica, d),
                 broken' = TRUE, UNCHANGED replica
          PROVE  Sized(replica', want + 1) /\ broken' \in BOOLEAN
      BY <2>2, <3>2, SizedGrows
    <3>3. ASSUME NEW d \in GetDelta(rows[want]), ~ Misfits(replica, d),
                 replica' = Apply(replica, d), UNCHANGED broken
          PROVE  Sized(replica', want + 1) /\ broken' \in BOOLEAN
      BY <1>1, <2>2, <2>3, <3>3, Applied DEF TypeOK
    <3>4. QED BY <2>1, <3>1, <3>2, <3>3
  <2>5. IsState(replica')
    BY <2>4 DEF Sized
  <2>6. want' \in 0 .. MaxRows + 1
    BY <1>1, <2>1, <2>2
  <2>7. TypeOK'
    BY <1>1, <1>2, <2>1, <2>4, <2>5, <2>6, SameKind DEF TypeOK
  <2>8. Bounded'
    BY <1>1, <1>2, <2>1, <2>4, SameKind DEF Bounded, Steps
  <2>9. Numbered'
    <3>1. ~ lost => want + 1 <= sequence
      BY <1>1, <2>1 DEF Numbered, TypeOK
    <3>2. QED BY <1>1, <2>1, <3>1 DEF Numbered
  <2>10. QED BY <2>7, <2>8, <2>9 DEF Layer1
<1>8. CASE Restart
  <2>1. /\ want' = 0 /\ replica' = Default /\ broken' = FALSE
        /\ UNCHANGED <<kind, store, rows, lost, up, sequence, state, pending, zeroQuoted>>
    BY <1>8 DEF Restart, storeVars, pubVars
  <2>2. 0 \in 0 .. MaxRows + 1 /\ Sized(Default, 0) /\ IsState(Default)
    BY <1>1, DefaultSized DEF Sized
  <2>3. TypeOK'
    BY <1>1, <1>2, <2>1, <2>2, SameKind DEF TypeOK
  <2>4. Bounded'
    BY <1>1, <1>2, <2>1, <2>2, SameKind DEF Bounded, Steps
  <2>5. Numbered'
    BY <1>1, <2>1 DEF Numbered, TypeOK
  <2>6. QED BY <2>3, <2>4, <2>5 DEF Layer1
<1>9. CASE UNCHANGED vars
  <2>1. UNCHANGED <<kind, store, rows, lost, up, sequence, state, pending, zeroQuoted,
                    replica, want, broken>>
    BY <1>9 DEF vars, storeVars, pubVars, subVars
  <2>2. TypeOK'
    BY <1>1, <1>2, <2>1, SameKind DEF TypeOK
  <2>3. Bounded'
    BY <1>1, <1>2, <2>1, SameKind DEF Bounded, Steps
  <2>4. Numbered'
    BY <1>1, <2>1 DEF Numbered
  <2>5. QED BY <2>2, <2>3, <2>4 DEF Layer1
<1>10. QED BY <1>3, <1>4, <1>5, <1>6, <1>7, <1>8, <1>9 DEF Next

-----------------------------------------------------------------------------
(* The two sides of the book.                                              *)

\* As long as no sell was quoted at price 0, there is room below every sell and
\* above every buy, and every buy is below every sell.
Apart ==
    kind = "book" /\ ~ zeroQuoted =>
        /\ 0 \notin DOMAIN state["Sell"]
        /\ DOMAIN state["Buy"] \subseteq 0 .. U32 - 2
        /\ \A x \in DOMAIN state["Buy"] : \A y \in DOMAIN state["Sell"] : x < y

\* A book without levels is apart.
LEMMA DefaultApart ==
  ASSUME kind' = kind, state' = Default
  PROVE  Apart'
BY DEF Apart, Default, EmptyBook, NoLevels

\* The limit keeps the sides apart: an order is priced within the room there is
\* on its side of the book, and a removal adds no level (order_book.rs:61-171).
LEMMA ApartPreserved == Layer1 /\ Apart /\ [Next]_vars => Apart'
<1> SUFFICES ASSUME Layer1, Apart, [Next]_vars PROVE Apart'
  OBVIOUS
<1>1. kind' = kind
  BY DEF Next, vars, storeVars, pubVars, subVars, Run, ApplyDelta, Publish, Die, Receive, Restart
<1>2. CASE Run \/ Die
  BY <1>1, <1>2, DefaultApart DEF Run, Die
<1>3. CASE Publish \/ Receive \/ Restart \/ UNCHANGED vars
  BY <1>1, <1>3 DEF Publish, Receive, Restart, vars, pubVars, Apart
<1>4. CASE ApplyDelta
  <2>1. SUFFICES ASSUME kind = "book", ~ zeroQuoted' PROVE Apart'
    BY <1>1 DEF Apart
  <2>2. sequence \in 0 .. MaxRows /\ Sized(state, sequence) /\ IsBook(state)
    BY <1>4, <2>1 DEF ApplyDelta, Layer1, TypeOK, Bounded, Steps, IsState
  <2>3. PICK d \in RandomDeltas(state) :
          /\ state' = ApplyQuote(state, d)
          /\ zeroQuoted' = (zeroQuoted \/ (d.side = "Sell" /\ d.price = 0))
    BY <1>4, <2>1 DEF ApplyDelta, Deltas, Apply
  <2>4. /\ d \in QuoteDelta /\ ~ Underflows(state, d)
        /\ d.action = "Insert" =>
              /\ d.quantity < MAX_QUANTITY
              /\ \E p \in MID_PRICES : d.price = OrderPrice(state, d.side, p)
    BY <2>2, <2>3, RandomlyMade
  <2>5. After(state, d) < U32
    BY <2>1, <2>2, <2>4, Room DEF Delta, Small
  <2>6. \A side \in {"Buy", "Sell"} :
          DOMAIN state'[side] \subseteq DOMAIN state[side]
             \union IF side = d.side /\ d.action = "Insert" THEN {d.price} ELSE {}
    BY <2>2, <2>3, <2>4, <2>5, QuoteApplied
  <2>7. ~ zeroQuoted /\ ~ (d.side = "Sell" /\ d.price = 0)
    BY <2>1, <2>3
  <2>8. /\ 0 \notin DOMAIN state["Sell"]
        /\ DOMAIN state["Buy"] \subseteq 0 .. U32 - 2
        /\ \A x \in DOMAIN state["Buy"] : \A y \in DOMAIN state["Sell"] : x < y
    BY <2>1, <2>7 DEF Apart
  <2>9. CASE d.action # "Insert"
    <3>1. /\ DOMAIN state'["Buy"] \subseteq DOMAIN state["Buy"]
          /\ DOMAIN state'["Sell"] \subseteq DOMAIN state["Sell"]
      BY <2>6, <2>9
    <3>2. QED BY <2>8, <3>1 DEF Apart
  <2>10. ASSUME d.action = "Insert", d.side = "Buy" PROVE Apart'
    <3>1. /\ DOMAIN state'["Buy"] \subseteq DOMAIN state["Buy"] \union {d.price}
          /\ DOMAIN state'["Sell"] \subseteq DOMAIN state["Sell"]
      BY <2>6, <2>10
    <3>2. d.price \in 0 .. U32 - 2 /\ \A y \in DOMAIN state["Sell"] : d.price < y
      BY <2>2, <2>4, <2>8, <2>10, OrderPriced
    <3>3. QED BY <2>8, <3>1, <3>2 DEF Apart
  <2>11. ASSUME d.action = "Insert", d.side = "Sell" PROVE Apart'
    <3>1. /\ DOMAIN state'["Buy"] \subseteq DOMAIN state["Buy"]
          /\ DOMAIN state'["Sell"] \subseteq DOMAIN state["Sell"] \union {d.price}
      BY <2>6, <2>11
    <3>2. d.price # 0 /\ \A x \in DOMAIN state["Buy"] : x < d.price
      BY <2>2, <2>4, <2>7, <2>8, <2>11, OrderPriced
    <3>3. QED BY <2>8, <3>1, <3>2 DEF Apart
  <2>12. d.side \in {"Buy", "Sell"}
    BY <2>4 DEF QuoteDelta
  <2>13. QED BY <2>9, <2>10, <2>11, <2>12
<1>5. QED BY <1>2, <1>3, <1>4 DEF Next

-----------------------------------------------------------------------------
(* What the replica holds.                                                 *)

\* What row n of the log makes of the publisher's state: a run starts anew, a
\* delta fits the state it was made for and is applied to it
Leads(s, row, t) ==
    IF row = Started THEN t = Default
    ELSE ~ Misfits(s, row.delta) /\ t = Apply(s, row.delta)

\* h[n] is the state the publisher had before it stamped number n
History(h) ==
    /\ h[0] = Default
    /\ \A n \in 0 .. sequence : IsState(h[n])
    /\ \A n \in DOMAIN rows : Leads(h[n], rows[n], h[n + 1])

\* A delta that is not yet written has been applied already
Leading(h) ==
    up => IF pending = NoDelta THEN state = h[sequence]
          ELSE ~ Misfits(h[sequence], pending) /\ state = Apply(h[sequence], pending)

OneRun == \A m, n \in Runs : m = n

\* The replica covers what the publisher was at the number it wants, and is
\* just that if the store has seen one run
Following(h) ==
    /\ ~ broken
    /\ Covers(replica, h[want])
    /\ OneRun => replica = h[want]

Followed == ~ lost => \E h : History(h) /\ Leading(h) /\ Following(h)

\* Every state covers the one a run begins with.
LEMMA CoversDefault == ASSUME kind \in {"book", "tree"}, NEW s PROVE Covers(s, Default)
BY DEF Covers, Default, EmptyBook, NoLevels, EmptyTree

\* One more row makes the history one state longer.
LEMMA HistoryGrows ==
  ASSUME sequence \in 0 .. MaxRows, DOMAIN rows = 0 .. sequence - 1, kind' = kind,
         NEW h, History(h), NEW row, NEW t, IsState(t), Leads(h[sequence], row, t),
         rows' = Insert(rows, sequence, row), sequence' = sequence + 1
  PROVE  \E g : /\ History(g)'
                /\ g[sequence + 1] = t
                /\ \A n \in 0 .. sequence : g[n] = h[n]
<1>1. MaxRows \in Nat /\ sequence \in Nat
  BY RowsAssumption
<1>2. PICK g : g = [n \in 0 .. sequence + 1 |-> IF n = sequence + 1 THEN t ELSE h[n]]
  OBVIOUS
<1>3. g[sequence + 1] = t /\ \A n \in 0 .. sequence : g[n] = h[n]
  BY <1>1, <1>2
<1>4. /\ DOMAIN rows' = 0 .. sequence
      /\ rows'[sequence] = row
      /\ \A n \in 0 .. sequence - 1 : rows'[n] = rows[n]
  BY <1>1, Inserted
<1>5. \A a, b, c : Leads(a, b, c)' <=> Leads(a, b, c)
  BY SameKind DEF Leads
<1>6. ASSUME NEW n \in 0 .. sequence PROVE Leads(g[n], rows'[n], g[n + 1])
  <2>1. CASE n = sequence
    BY <1>3, <1>4, <2>1
  <2>2. CASE n # sequence
    <3>1. n \in 0 .. sequence - 1 /\ n + 1 \in 0 .. sequence
      BY <1>1, <2>2
    <3>2. g[n] = h[n] /\ g[n + 1] = h[n + 1] /\ rows'[n] = rows[n]
      BY <1>3, <1>4, <3>1
    <3>3. QED BY <3>1, <3>2 DEF History
  <2>3. QED BY <2>1, <2>2
<1>7. (\A n \in DOMAIN rows : Leads(g[n], rows[n], g[n + 1]))'
  BY <1>4, <1>5, <1>6
<1>8. \A n \in 0 .. sequence' : IsState(g[n])
  <2>1. ASSUME NEW n \in 0 .. sequence + 1 PROVE IsState(g[n])
    BY <1>1, <1>3, <2>1 DEF History
  <2>2. QED BY <2>1
<1>9. g[0] = Default
  BY <1>1, <1>3 DEF History
<1>10. History(g)'
  BY <1>7, <1>8, <1>9, SameKind DEF History
<1>11. QED BY <1>3, <1>10

\* A new row adds no run before it, so a replica that follows still does.
LEMMA StillFollowing ==
  ASSUME Layer1, kind' = kind, NEW h, Following(h),
         DOMAIN rows = 0 .. sequence - 1, sequence \in Nat,
         \E row : rows' = Insert(rows, sequence, row),
         UNCHANGED <<replica, want, broken>>,
         NEW g, g[want] = h[want]
  PROVE  Following(g)'
<1>1. PICK row : rows' = Insert(rows, sequence, row)
  OBVIOUS
<1>2. /\ DOMAIN rows' = 0 .. sequence
      /\ \A n \in DOMAIN rows : rows'[n] = rows[n]
  BY <1>1, Inserted
<1>3. Runs \subseteq Runs'
  BY <1>2 DEF Runs
<1>4. OneRun' => OneRun
  BY <1>3 DEF OneRun
<1>5. Covers(replica, g[want])' <=> Covers(replica, h[want])
  BY SameKind
<1>6. QED BY <1>4, <1>5 DEF Following

\* Nothing happened to the history.
LEMMA SameHistory ==
  ASSUME kind' = kind, UNCHANGED <<rows, sequence>>, NEW h, History(h)
  PROVE  History(h)'
<1>1. \A a, b, c : Leads(a, b, c)' <=> Leads(a, b, c)
  BY SameKind DEF Leads
<1>2. QED BY <1>1, SameKind DEF History

\* Nor to the replica.
LEMMA SameReplica ==
  ASSUME kind' = kind, UNCHANGED <<rows, replica, want, broken>>, NEW h, Following(h)
  PROVE  Following(h)'
<1>1. Runs' = Runs
  BY DEF Runs
<1>2. OneRun' <=> OneRun
  BY <1>1 DEF OneRun
<1>3. Covers(replica, h[want])' <=> Covers(replica, h[want])
  BY SameKind
<1>4. QED BY <1>2, <1>3 DEF Following

\* An empty log has the history of nothing yet.
LEMMA InitFollowed == Init => Followed
<1> SUFFICES ASSUME Init PROVE Followed
  OBVIOUS
<1>1. 0 \in 0 .. MaxRows + 1
  BY RowsAssumption
<1>2. IsState(Default) /\ Covers(Default, Default)
  BY <1>1, DefaultSized DEF Sized
<1>3. PICK h : h = [n \in {0} |-> Default]
  OBVIOUS
<1>4. h[0] = Default /\ DOMAIN rows = {} /\ sequence = 0 /\ 0 .. sequence = {0}
  BY <1>3 DEF Init, NoRows
<1>5. History(h)
  BY <1>2, <1>4 DEF History
<1>6. Leading(h) /\ Following(h)
  BY <1>2, <1>4 DEF Init, Leading, Following
<1>7. QED BY <1>5, <1>6 DEF Followed

\* The replica is fed in order, so what comes next was made of a state it covers
\* (aggregator.rs:42-80): it stays with the history, restarts included.
LEMMA FollowedPreserved == Layer1 /\ Followed /\ [Next]_vars => Followed'
<1> SUFFICES ASSUME Layer1, Followed, [Next]_vars, ~ lost' PROVE Followed'
  BY DEF Followed
<1>0. Die => ~ lost /\ store = "file"
  <2>1. Die => lost' = (lost \/ store # "file")
    BY DEF Die
  <2>2. QED BY <2>1, Zenon
<1>1. /\ kind' = kind /\ kind \in {"book", "tree"} /\ ~ lost
      /\ sequence \in Nat /\ MaxRows \in Nat /\ want \in 0 .. sequence
      /\ DOMAIN rows = 0 .. sequence - 1
  <2>1. kind' = kind /\ ~ lost
    BY <1>0 DEF Next, vars, storeVars, pubVars, subVars, Run, ApplyDelta, Publish, Die, Receive,
                Restart
  <2>2. kind \in {"book", "tree"} /\ sequence \in 0 .. MaxRows + 1 /\ MaxRows \in Nat
    BY RowsAssumption DEF Layer1, TypeOK
  <2>3. want \in 0 .. MaxRows + 1 /\ want <= sequence /\ DOMAIN rows = 0 .. sequence - 1
    BY <2>1 DEF Layer1, TypeOK, Numbered
  <2>4. QED BY <2>1, <2>2, <2>3
<1>2. PICK h : History(h) /\ Leading(h) /\ Following(h)
  BY <1>1 DEF Followed
<1>3. SUFFICES \E g : History(g)' /\ Leading(g)' /\ Following(g)'
  BY DEF Followed
<1>4. ASSUME NEW row, NEW t, IsState(t), Leads(h[sequence], row, t),
             rows' = Insert(rows, sequence, row), sequence' = sequence + 1,
             sequence \in 0 .. MaxRows, pending' = NoDelta, state' = t,
             UNCHANGED <<replica, want, broken>>
      PROVE  \E g : History(g)' /\ Leading(g)' /\ Following(g)'
  <2>1. PICK g : /\ History(g)'
                 /\ g[sequence + 1] = t
                 /\ \A n \in 0 .. sequence : g[n] = h[n]
    BY <1>1, <1>2, <1>4, HistoryGrows
  <2>2. Leading(g)'
    BY <1>4, <2>1 DEF Leading
  <2>3. Following(g)'
    BY <1>1, <1>2, <1>4, <2>1, StillFollowing
  <2>4. QED BY <2>1, <2>2, <2>3
<1>5. CASE Run
  <2>1. NextSequence = sequence /\ sequence \in 0 .. MaxRows
    BY <1>1, <1>5, RunNumber
  <2>2. /\ rows' = Insert(rows, sequence, Started) /\ sequence' = sequence + 1
        /\ state' = Default /\ UNCHANGED <<replica, want, broken>>
    BY <1>5, <2>1 DEF Run, subVars
  <2>3. pending' = NoDelta
    <3>1. ~ up /\ pending' = pending
      BY <1>5 DEF Run
    <3>2. pending # NoDelta => up
      BY DEF Layer1, Bounded
    <3>3. QED BY <3>1, <3>2, Zenon
  <2>4. IsState(Default)
    BY <1>1, <2>1, DefaultSized DEF Sized
  <2>5. Leads(h[sequence], Started, Default)
    BY DEF Leads
  <2>6. QED BY <1>4, <2>1, <2>2, <2>3, <2>4, <2>5
<1>6. CASE ApplyDelta
  <2>1. /\ up /\ pending = NoDelta
        /\ UNCHANGED <<rows, up, sequence, replica, want, broken>>
    BY <1>6 DEF ApplyDelta, storeVars, subVars
  <2>2. PICK d \in Deltas(state) : state' = Apply(state, d) /\ pending' = d
    BY <1>6 DEF ApplyDelta
  <2>3. d # NoDelta /\ ~ Misfits(state, d)
    BY <1>1, <2>2, DeltasFit DEF Layer1, TypeOK
  <2>4. state = h[sequence]
    BY <1>2, <2>1 DEF Leading
  <2>5. ~ Misfits(h[sequence], d) /\ state' = Apply(h[sequence], d)
    BY <2>2, <2>3, <2>4
  <2>6. Leading(h)'
    BY <1>1, <2>1, <2>2, <2>3, <2>5, SameKind DEF Leading
  <2>7. QED BY <1>1, <1>2, <2>1, <2>6, SameHistory, SameReplica
<1>7. CASE Publish
  <2> DEFINE row == [payload |-> "Delta", delta |-> pending]
  <2>1. /\ up /\ pending # NoDelta
        /\ rows' = Insert(rows, sequence, row) /\ sequence' = sequence + 1
        /\ pending' = NoDelta /\ state' = state /\ UNCHANGED <<replica, want, broken>>
    BY <1>7 DEF Publish, subVars
  <2>2. row # Started /\ row.delta = pending
    BY DEF Started
  <2> HIDE DEF row
  <2>3. sequence \in 0 .. MaxRows /\ IsState(state)
    BY <1>1, <2>1 DEF Layer1, Bounded, TypeOK
  <2>4. Leads(h[sequence], row, state)
    BY <1>2, <2>1, <2>2 DEF Leading, Leads
  <2>5. QED BY <1>4, <2>1, <2>3, <2>4
<1>8. CASE Die
  <2>1. /\ up' = FALSE /\ store = "file"
        /\ UNCHANGED <<rows, sequence, replica, want, broken>>
    BY <1>0, <1>8 DEF Die, subVars
  <2>2. Leading(h)'
    BY <2>1 DEF Leading
  <2>3. QED BY <1>1, <1>2, <2>1, <2>2, SameHistory, SameReplica
<1>9. CASE Receive
  <2>1. /\ want \in DOMAIN rows /\ want' = want + 1
        /\ \/ GetDelta(rows[want]) = {} /\ UNCHANGED <<replica, broken>>
           \/ \E d \in GetDelta(rows[want]) :
                IF Misfits(replica, d) THEN broken' = TRUE /\ UNCHANGED replica
                ELSE replica' = Apply(replica, d) /\ UNCHANGED broken
        /\ UNCHANGED <<rows, up, sequence, state, pending>>
    BY <1>9 DEF Receive, StreamFrom, Restrict, storeVars, pubVars
  <2>2. /\ want \in 0 .. MaxRows /\ IsRow(rows[want]) /\ Sized(replica, want)
        /\ rows[want] # Started => Small(rows[want].delta)
    BY <2>1 DEF Layer1, TypeOK, Bounded
  <2>3. /\ Leads(h[want], rows[want], h[want + 1]) /\ IsState(h[want])
        /\ Covers(replica, h[want]) /\ ~ broken /\ (OneRun => replica = h[want])
    BY <1>1, <1>2, <2>1 DEF History, Following
  <2>4. Leading(h)'
    BY <1>1, <1>2, <2>1, SameKind DEF Leading
  <2>5. /\ ~ broken' /\ Covers(replica', h[want + 1])
        /\ OneRun => replica' = h[want + 1]
    <3>1. CASE rows[want] = Started
      <4>1. GetDelta(rows[want]) = {} /\ h[want + 1] = Default
        BY <2>3, <3>1 DEF GetDelta, Started, Leads
      <4>2. replica' = replica /\ broken' = broken
        BY <2>1, <4>1
      <4>3. OneRun => replica = Default
        <5>1. SUFFICES ASSUME OneRun PROVE replica = Default
          OBVIOUS
        <5>2. 0 \in DOMAIN rows /\ rows[0] = Started
          BY <1>1, <2>1 DEF Layer1, Numbered
        <5>3. want = 0
          BY <2>1, <3>1, <5>1, <5>2 DEF OneRun, Runs
        <5>4. QED BY <1>2, <2>3, <5>1, <5>3 DEF History
      <4>4. QED BY <1>1, <2>3, <4>1, <4>2, <4>3, CoversDefault
    <3>2. CASE rows[want] # Started
      <4> DEFINE d == rows[want].delta
      <4>1. rows[want].payload = "Delta" /\ d \in Delta /\ GetDelta(rows[want]) = {d}
        BY <2>2, <3>2 DEF IsRow, GetDelta
      <4>2. Small(d) /\ ~ Misfits(h[want], d) /\ h[want + 1] = Apply(h[want], d)
        BY <2>2, <2>3, <3>2 DEF Leads
      <4> HIDE DEF d
      <4>3. ~ Misfits(replica, d) /\ Covers(Apply(replica, d), Apply(h[want], d))
        BY <1>1, <2>2, <2>3, <4>1, <4>2, Covered
      <4>4. replica' = Apply(replica, d) /\ broken' = broken
        BY <2>1, <4>1, <4>3
      <4>5. QED BY <2>3, <4>2, <4>3, <4>4
    <3>3. QED BY <3>1, <3>2
  <2>6. OneRun' <=> OneRun
    BY <2>1 DEF OneRun, Runs
  <2>7. Covers(replica, h[want])' <=> Covers(replica', h[want + 1])
    BY <1>1, <2>1, SameKind
  <2>8. Following(h)'
    BY <2>1, <2>5, <2>6, <2>7 DEF Following
  <2>9. QED BY <1>1, <1>2, <2>1, <2>4, <2>8, SameHistory
<1>10. CASE Restart
  <2>1. /\ want' = 0 /\ replica' = Default /\ broken' = FALSE
        /\ UNCHANGED <<rows, up, sequence, state, pending>>
    BY <1>10 DEF Restart, storeVars, pubVars
  <2>2. Leading(h)'
    BY <1>1, <1>2, <2>1, SameKind DEF Leading
  <2>3. h[0] = Default /\ Covers(Default, h[0])
    BY <1>1, <1>2, CoversDefault DEF History
  <2>4. Covers(replica, h[want])' <=> Covers(Default, h[0])
    BY <1>1, <2>1, SameKind
  <2>5. Following(h)'
    BY <2>1, <2>3, <2>4 DEF Following
  <2>6. QED BY <1>1, <1>2, <2>1, <2>2, <2>5, SameHistory
<1>11. CASE UNCHANGED vars
  <2>1. UNCHANGED <<rows, up, sequence, state, pending, replica, want, broken>>
    BY <1>11 DEF vars, storeVars, pubVars, subVars
  <2>2. Leading(h)'
    BY <1>1, <1>2, <2>1, SameKind DEF Leading
  <2>3. QED BY <1>1, <1>2, <2>1, <2>2, SameHistory, SameReplica
<1>12. QED BY <1>5, <1>6, <1>7, <1>8, <1>9, <1>10, <1>11 DEF Next

-----------------------------------------------------------------------------
IInv == Layer1 /\ Apart /\ Followed

\* The three together are inductive.
LEMMA AlwaysIInv == Spec => []IInv
<1>1. Init => IInv
  <2>1. Init => Apart
    BY DEF Init, Apart, Default, EmptyBook, NoLevels
  <2>2. QED BY <2>1, InitLayer1, InitFollowed DEF IInv
<1>2. IInv /\ [Next]_vars => IInv'
  BY Layer1Preserved, ApartPreserved, FollowedPreserved DEF IInv
<1>3. QED BY <1>1, <1>2, PTL DEF Spec

\* Types, quantities and numbers of both processes stay what they should be,
\* whichever store, state and order of restarts (order_book_publisher.rs,
\* order_book_subscriber.rs): no side of a book keeps an empty level.
THEOREM ApplicationTypeCorrect == Spec => []TypeOK
<1>1. IInv => TypeOK
  BY DEF IInv, Layer1
<1>2. QED BY <1>1, AlwaysIInv, PTL

\* For every set of prices and every order book, no sequence of random orders
\* crosses the book unless a sell was quoted at price 0 (order_book.rs:61-100).
THEOREM BookNeverCrosses == Spec => []NeverCrossed
<1>1. IInv => NeverCrossed
  <2>1. SUFFICES ASSUME Layer1, Apart, kind = "book", ~ zeroQuoted, Crossed(state)
                 PROVE  FALSE
    BY DEF IInv, NeverCrossed
  <2>2. IsBook(state) /\ U32 - 1 \in Nat
    BY <2>1, BookAssumption DEF Layer1, TypeOK, IsState
  <2>3. /\ DOMAIN state["Buy"] # {} /\ DOMAIN state["Sell"] # {}
        /\ Max(DOMAIN state["Buy"]) >= Min(DOMAIN state["Sell"])
    BY <2>1, <2>2, NoPrices DEF Crossed, BestBuy, BestSell
  <2>4. /\ DOMAIN state["Buy"] \in SUBSET (0 .. U32 - 1)
        /\ DOMAIN state["Sell"] \in SUBSET (0 .. U32 - 1)
    BY <2>2 DEF IsBook
  <2> DEFINE best == Max(DOMAIN state["Buy"])
             limit == Min(DOMAIN state["Sell"])
  <2>5. best \in DOMAIN state["Buy"]
    BY <2>2, <2>3, <2>4, MaxIsGreatest
  <2>6. limit \in DOMAIN state["Sell"]
    <3>1. DOMAIN state["Sell"] \in SUBSET Nat
      BY <2>2, <2>4
    <3>2. QED BY <2>3, <3>1, MinIsLeast
  <2>7. best >= limit
    BY <2>3
  <2> HIDE DEF best, limit
  <2>8. best < limit
    BY <2>1, <2>5, <2>6 DEF Apart
  <2>9. best \in Int /\ limit \in Int
    BY <2>4, <2>5, <2>6
  <2>10. QED BY <2>7, <2>8, <2>9
<1>2. QED BY <1>1, AlwaysIInv, PTL

\* Every delta fits the replica it is applied to, for a subscriber that began
\* at 0, across restarts of either side, as long as no rows are lost with a
\* process (order_book.rs:144, proto.rs:44-51, aggregator.rs:72-76).
THEOREM DeltasAlwaysFit == Spec => []NeverMisfits
<1>1. IInv => NeverMisfits
  BY DEF IInv, Followed, Following, NeverMisfits
<1>2. QED BY <1>1, AlwaysIInv, PTL

\* A replica that has taken all there is has at least the publisher's state,
\* and exactly that if the store has seen one run (aggregator.rs:42,
\* publisher/state_wrapper.rs:33-41).
THEOREM ReplicaCoversState == Spec => []ReplicaCovers
<1>1. IInv => ReplicaCovers
  <2>1. SUFFICES ASSUME Layer1, Followed, up, pending = NoDelta, want = sequence, ~ lost
                 PROVE  /\ Covers(replica, state)
                        /\ Cardinality(Runs) = 1 => replica = state
    BY DEF IInv, ReplicaCovers
  <2>2. PICK h : Leading(h) /\ Following(h)
    BY <2>1 DEF Followed
  <2>3. state = h[want]
    BY <2>1, <2>2 DEF Leading
  <2>4. Cardinality(Runs) = 1 => OneRun
    <3>1. IsFiniteSet(0 .. MaxRows)
      BY FS_Interval, RowsAssumption
    <3>2. Runs \in SUBSET (0 .. MaxRows)
      BY <2>1 DEF Layer1, TypeOK, Runs
    <3>3. IsFiniteSet(Runs)
      BY <3>1, <3>2, FS_Subset
    <3>4. Cardinality(Runs) = 1 => \E x : Runs = {x}
      BY <3>3, FS_Singleton
    <3>5. QED BY <3>4 DEF OneRun
  <2>5. QED BY <2>2, <2>3, <2>4 DEF Following
<1>2. QED BY <1>1, AlwaysIInv, PTL
=============================================================================
