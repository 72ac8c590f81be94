----------------------------- MODULE Persistence -----------------------------
(***************************************************************************)
(* The stores behind PublisherPersistence, as operators on the rows they   *)
(* hold, a function from numbers: an SQLite database in a file or in       *)
(* memory (the example publisher's default), and the mock's BTreeMap,      *)
(* which agree but for the first number after a non-empty log.             *)
(***************************************************************************)
EXTENDS Integers, FiniteSetsExt, Functions

NoRows == [n \in {} |-> 0]

\* Mutation of SqliteNext: the last number
SqliteNextIsLast(rows) == IF rows = NoRows THEN 0 ELSE Max(DOMAIN rows)

\* SELECT id ... ORDER BY id DESC LIMIT 1, plus one
SqliteNext(rows) == IF rows = NoRows THEN 0 ELSE Max(DOMAIN rows) + 1

\* The greatest key, or 0: the LAST number of a log that is not empty
MockNext(rows) == IF rows = NoRows THEN 0 ELSE Max(DOMAIN rows)

\* The mock's contains_key, the table's primary key
Refuses(rows, n) == n \in DOMAIN rows

Insert(rows, n, row) ==
    [k \in DOMAIN rows \union {n} |-> IF k = n THEN row ELSE rows[k]]

\* What a stream from n on holds; range(n..) copied under the lock
StreamFrom(rows, n) == Restrict(rows, {k \in DOMAIN rows : k >= n})
==============================================================================
