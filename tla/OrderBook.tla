------------------------------ MODULE OrderBook ------------------------------
(***************************************************************************)
(* The Level1OrderBook of the examples (examples/src/order_book.rs) as     *)
(* operators: a side is a function from the prices that have an aggregate  *)
(* to its quantity; timestamps are left out.  Arithmetic is that of u32 in *)
(* a release build, with U32 for 2^32.                                     *)
(***************************************************************************)
EXTENDS Integers, FiniteSets, FiniteSetsExt, Functions

CONSTANTS MID_PRICES,               \* the prices new_random_delta may sample
          MIN_ORDERS, MAX_ORDERS, MAX_QUANTITY, U32

\* A sampled price is far below the largest u32
ASSUME BookAssumption ==
    /\ U32 \in Nat \ {0} /\ MAX_QUANTITY \in 0 .. U32
    /\ MID_PRICES \subseteq 0 .. U32 - 2

QuoteDelta == [action : {"Insert", "Remove"}, side : {"Buy", "Sell"},
               price : 0 .. U32 - 1, quantity : 1 .. U32 - 1]

NoLevels == [p \in {} |-> 0]

EmptyBook == [Buy |-> NoLevels, Sell |-> NoLevels]

IsBook(book) ==
    /\ DOMAIN book = {"Buy", "Sell"}
    /\ \A side \in DOMAIN book :
            /\ DOMAIN book[side] \subseteq 0 .. U32 - 1
            /\ book[side] \in [DOMAIN book[side] -> 1 .. U32 - 1]

-----------------------------------------------------------------------------
(* apply_delta.                                                            *)

Aggregate(levels, price) == IF price \in DOMAIN levels THEN levels[price] ELSE 0

With(levels, price, quantity) ==
    [p \in DOMAIN levels \union {price} |-> IF p = price THEN quantity ELSE levels[p]]

\* Mutation of ApplyQuote: a level that was emptied is kept
ApplyQuoteKeeps(book, d) ==
    LET old == Aggregate(book[d.side], d.price)
        new == IF d.action = "Insert" THEN old + d.quantity ELSE old - d.quantity
    IN  [book EXCEPT ![d.side] = With(@, d.price, new % U32)]

\* Mutation of ApplyQuote: a level that is there is not added to
ApplyQuoteIgnoresHeld(book, d) ==
    LET old == Aggregate(book[d.side], d.price)
        new == IF d.action = "Insert" THEN IF old = 0 THEN d.quantity ELSE old
               ELSE (old - d.quantity) % U32
    IN  [book EXCEPT ![d.side] =
            IF d.action = "Remove" /\ new = 0 THEN Restrict(@, DOMAIN @ \ {d.price})
            ELSE With(@, d.price, new)]

\* The level is created if it is not there and removed when it is emptied
ApplyQuote(book, d) ==
    LET old == Aggregate(book[d.side], d.price)
        new == (IF d.action = "Insert" THEN old + d.quantity ELSE old - d.quantity) % U32
    IN  [book EXCEPT ![d.side] =
            IF d.action = "Remove" /\ new = 0 THEN Restrict(@, DOMAIN @ \ {d.price})
            ELSE With(@, d.price, new)]

\* Removing more than there is: a panic in a debug build
Underflows(book, d) ==
    d.action = "Remove" /\ d.quantity > Aggregate(book[d.side], d.price)

-----------------------------------------------------------------------------
(* new_random_delta.                                                       *)

BestBuy(book) == Max(DOMAIN book.Buy)
BestSell(book) == Min(DOMAIN book.Sell)

\* Mutation of OrderPrice: the limit is the opposite price itself
OrderPriceAtLimit(book, side, sampled) ==
    IF side = "Buy"
    THEN IF book.Sell = NoLevels THEN sampled ELSE Min({sampled, BestSell(book)})
    ELSE IF book.Buy = NoLevels THEN sampled ELSE Max({sampled, BestBuy(book)})

\* Don't cross the limit price: one below the best sell, above the best buy.
\* Below a sell at price 0 lies the largest u32.
OrderPrice(book, side, sampled) ==
    IF side = "Buy"
    THEN IF book.Sell = NoLevels THEN sampled
         ELSE Min({sampled, (BestSell(book) - 1) % U32})
    ELSE IF book.Buy = NoLevels THEN sampled
         ELSE Max({sampled, (BestBuy(book) + 1) % U32})

\* Orders are only reduced once there are MIN_ORDERS levels, and only reduced
\* once there are MAX_ORDERS
RandomDeltas(book) ==
    UNION {
        LET orders == Cardinality(DOMAIN book[side])
            inserts == IF orders >= MAX_ORDERS THEN {} ELSE
                [action : {"Insert"}, side : {side}, quantity : 1 .. MAX_QUANTITY - 1,
                 price : {OrderPrice(book, side, p) : p \in MID_PRICES}]
            removes == IF orders < MIN_ORDERS THEN {} ELSE UNION {
                [action : {"Remove"}, side : {side}, quantity : 1 .. book[side][p],
                 price : {p}] : p \in DOMAIN book[side]}
        IN  inserts \union removes : side \in {"Buy", "Sell"}}

Crossed(book) ==
    /\ book.Buy # NoLevels /\ book.Sell # NoLevels
    /\ BestBuy(book) >= BestSell(book)
==============================================================================
