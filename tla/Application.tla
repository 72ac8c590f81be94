------------------------------ MODULE Application ------------------------------
(***************************************************************************)
(* An application on both sides: a publisher whose process dies and is run *)
(* again over its store, like order_book_publisher, and a replica fed in   *)
(* order from number 0, like an Aggregator behind a MessageSequencer.  The *)
(* state is one of the two StateSync implementations of the repository.    *)
(*                                                                         *)
(* What lies between is its contract, OrderedStream: the replica takes the *)
(* next row of the log, whenever.  Heartbeats carry nothing and are left   *)
(* out.                                                                    *)
(***************************************************************************)
EXTENDS OrderBook, TreeState, Persistence

CONSTANTS
    Stores,             \* the stores the publisher may be given
    MaxRows             \* bound: numbers stamped

ASSUME StoresAssumption == Stores \subseteq {"file", "memory", "mock"}

\* So few that no quantity overflows its u32, however they add up (43 million
\* for the example's numbers)
ASSUME RowsAssumption ==
    MaxRows \in Nat /\ (MaxRows + 1) * MAX_QUANTITY <= U32

VARIABLES
    kind,               \* the StateSync implementation: "book" or "tree"
    store,              \* "file", "memory" (both SQLite) or "mock"
    rows,               \* the log
    up,                 \* the publisher's process lives
    sequence, state,    \* its PublisherStateWrapper
    pending,            \* the delta applied and not yet written, if any
    replica, want,      \* the subscriber's copy, and the next number for it
    broken,             \* the replica met a delta that does not fit
    lost,               \* history: rows have died with a process
    zeroQuoted          \* history: a sell at price 0 has been quoted

storeVars == <<kind, store, rows, lost>>
pubVars == <<up, sequence, state, pending, zeroQuoted>>
subVars == <<replica, want, broken>>
vars == <<storeVars, pubVars, subVars>>

-----------------------------------------------------------------------------
(* StateSync, for either implementation.                                   *)

Default == IF kind = "book" THEN EmptyBook ELSE EmptyTree

Apply(s, d) == IF kind = "book" THEN ApplyQuote(s, d) ELSE ApplyLeaf(s, d)

Misfits(s, d) == IF kind = "book" THEN Underflows(s, d) ELSE EditsNothing(s, d)

\* What the application may do next.  A user of TreeState edits leaves it has.
Deltas(s) == IF kind = "book" THEN RandomDeltas(s)
             ELSE {d \in LeafDelta : ~ EditsNothing(s, d)}

IsState(s) == IF kind = "book" THEN IsBook(s) ELSE IsTree(s)

Delta == IF kind = "book" THEN QuoteDelta ELSE LeafDelta

NoDelta == [delta |-> "None"]

Started == [payload |-> "Started"]

IsRow(row) == row = Started \/ (row.payload = "Delta" /\ row.delta \in Delta)

TypeOK ==
    /\ kind \in {"book", "tree"}
    /\ store \in {"file", "memory", "mock"}
    /\ \A n \in DOMAIN rows : n \in 0 .. MaxRows /\ IsRow(rows[n])
    /\ up \in BOOLEAN
    /\ sequence \in 0 .. MaxRows + 1
    /\ IsState(state)
    /\ pending = NoDelta \/ pending \in Delta
    /\ IsState(replica)
    /\ want \in 0 .. MaxRows + 1
    /\ broken \in BOOLEAN /\ lost \in BOOLEAN /\ zeroQuoted \in BOOLEAN

Init ==
    /\ kind \in {"book", "tree"}
    /\ store \in Stores
    /\ rows = NoRows /\ lost = FALSE
    /\ up = FALSE /\ sequence = 0 /\ state = Default /\ pending = NoDelta
    /\ zeroQuoted = FALSE
    /\ replica = Default /\ want = 0 /\ broken = FALSE

-----------------------------------------------------------------------------
(* The publisher.                                                          *)

NextSequence == IF store = "mock" THEN MockNext(rows) ELSE SqliteNext(rows)

\* Publisher::run over what the store holds.  A number the store refuses
\* makes it fail, and the application unwraps.
Run ==
    /\ ~ up
    /\ NextSequence <= MaxRows
    /\ ~ Refuses(rows, NextSequence)
    /\ up' = TRUE
    /\ rows' = Insert(rows, NextSequence, Started)
    /\ sequence' = NextSequence + 1
    /\ state' = Default
    /\ zeroQuoted' = FALSE
    /\ UNCHANGED <<kind, store, lost, pending, subVars>>

\* The next turn of the application's loop, up to the write
ApplyDelta ==
    /\ up /\ pending = NoDelta
    /\ sequence <= MaxRows
    /\ \E d \in Deltas(state) :
         /\ state' = Apply(state, d)
         /\ pending' = d
         /\ zeroQuoted' = (zeroQuoted \/
                (kind = "book" /\ d.side = "Sell" /\ d.price = 0))
    /\ UNCHANGED <<storeVars, up, sequence, subVars>>

Publish ==
    /\ up /\ pending # NoDelta
    /\ rows' = Insert(rows, sequence, [payload |-> "Delta", delta |-> pending])
    /\ sequence' = sequence + 1
    /\ pending' = NoDelta
    /\ UNCHANGED <<kind, store, lost, up, state, zeroQuoted, subVars>>

\* The process dies: by itself, or in an unwrap after a write or a send that
\* failed.  A store in memory dies with it; a file keeps its rows.  (Its WAL is
\* not synchronised: that the machine survives is assumed.)
Die ==
    /\ up
    /\ up' = FALSE
    /\ pending' = NoDelta
    /\ state' = Default
    /\ rows' = IF store = "file" THEN rows ELSE NoRows
    /\ lost' = (lost \/ store # "file")
    /\ UNCHANGED <<kind, store, sequence, zeroQuoted, subVars>>

-----------------------------------------------------------------------------
(* The subscriber.                                                         *)

\* Only a delta reaches the replica: a Started is passed over, and nothing
\* calls reset()
GetDelta(row) == IF row.payload = "Delta" THEN {row.delta} ELSE {}

\* The replica takes the next row.  A delta that does not fit stops the task
\* that applies deltas.
Receive ==
    /\ ~ broken
    /\ want \in DOMAIN StreamFrom(rows, want)
    /\ want' = want + 1
    /\ \/ /\ GetDelta(rows[want]) = {}
          /\ UNCHANGED <<replica, broken>>
       \/ \E d \in GetDelta(rows[want]) :
            IF Misfits(replica, d) THEN broken' = TRUE /\ UNCHANGED replica
            ELSE replica' = Apply(replica, d) /\ UNCHANGED broken
    /\ UNCHANGED <<storeVars, pubVars>>

\* Mutation of Restart: it goes on where the log ends
RestartAtEnd ==
    /\ want > 0
    /\ want' = NextSequence
    /\ replica' = Default
    /\ broken' = FALSE
    /\ UNCHANGED <<storeVars, pubVars>>

\* The subscriber is run again: a new Aggregator, and a sequencer from 0
Restart ==
    /\ want > 0
    /\ want' = 0
    /\ replica' = Default
    /\ broken' = FALSE
    /\ UNCHANGED <<storeVars, pubVars>>

Next == Run \/ ApplyDelta \/ Publish \/ Die \/ Receive \/ Restart

Spec == Init /\ [][Next]_vars

-----------------------------------------------------------------------------
(* Properties *)

\* The publisher's book never crosses, whatever was sampled, inserted and
\* removed, unless a sell was quoted at price 0, below which `x - 1` has no
\* u32 (order_book.rs:61-100).
NeverCrossed == kind = "book" /\ ~ zeroQuoted => ~ Crossed(state)

\* t as a part of s: every level with at least its quantity, every leaf as it is
Covers(s, t) ==
    IF kind = "book"
    THEN \A side \in {"Buy", "Sell"} : \A p \in DOMAIN t[side] :
            t[side][p] <= Aggregate(s[side], p)
    ELSE DOMAIN t \subseteq DOMAIN s /\ \A id \in DOMAIN t : t[id] = s[id]

Runs == {n \in DOMAIN rows : rows[n] = Started}

\* A replica that has taken all there is has the publisher's state, if it is
\* the store's first run; after a restart it still has at least that, with
\* what dead runs left in it, because nothing resets it (aggregator.rs:42,
\* state_sync.rs:13, publisher/state_wrapper.rs:33-41).  So for as long as no
\* rows are lost with a process.
ReplicaCovers ==
    up /\ pending = NoDelta /\ want = sequence /\ ~ lost =>
        /\ Covers(replica, state)
        /\ Cardinality(Runs) = 1 => replica = state

\* No delta the publisher made of its own state fails to fit the replica's,
\* although they may differ: no quantity underflows and no leaf is missing,
\* for a subscriber that began at 0, across restarts of either side
\* (order_book.rs:144, proto.rs:44-51, aggregator.rs:72-76).
NeverMisfits == ~ lost => ~ broken
==============================================================================
