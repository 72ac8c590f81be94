# Grapevine in TLA+

Specifications, model-checking instances and machine-checked proofs for
Grapevine (`src/grapevine`): a publisher that sends numbered messages over UDP
multicast and keeps them in a log, and subscribers that turn datagrams and
recovery calls back into one ordered stream.

Read `MasterLog` and `OrderedStream` first: they are one page each and say what
the two sides promise. `Publisher` and `Sequencer` are the code.

## 1. The system

| Component (source) | State | Operations | Talks to |
|---|---|---|---|
| `Publisher::run` (`publisher/mod.rs`) | socket, log; nothing of its own after it returns | `run`: read the next number from the log, spawn the recovery server, stamp and publish `Started`, spawn the heartbeat task, hand out a context | log, group |
| `PublisherContext` (`publisher/context.rs`) | shared lock on `PublisherStateWrapper` (`state`, `sequence`), one destructor per task | `apply_delta`: stamp and apply under the lock, then publish; `Drop` | wrapper, log, group; signals the tasks |
| Heartbeat task (`publisher/heartbeat.rs`) | the same wrapper | loop: look at the destructor, stamp under the lock, publish, sleep | wrapper, log, group |
| Recovery server (`publisher/recovery.rs`) | none | `get_message`, `stream_from`; bind, serve until the destructor fires | log, subscribers |
| Publisher persistence (`persistence/`) | table `master_log`, keyed by number | `next_sequence`, `write_message`, `read_sequence`, `stream_from_sequence` | outlives the process |
| `MessageSequencer` (`subscriber/sequencer.rs`) | `want_sequence`, `heap`, `recovery_stream`, `last_deadline`, `connected` | `next()` | group, recovery server |
| `MinMaxHeap` (`subscriber/min_max_heap.rs`) | heap, cached maximum, counter per number | `push`, `pop`, `peek`, `clear`, `has_gaps` | inside the sequencer |
| `Aggregator` (`subscriber/aggregator.rs`) | two tasks, a bounded channel, a watch channel, the shared state | reader task, snapshot task, `subscribe` | sequencer, watchers |
| Codec (`codec/`) | decoder: `ReadHeader` or `ReadBody` | `encode`, `decode` | `UdpFramed`, the log stores encoded bytes |
| `StateSync` and its implementations (`state_sync.rs`, `proto.rs`, `examples/src/order_book.rs`) | a tree of leaves; an order book | `apply_delta`, `reset`, `Default` | publisher's wrapper, aggregator |
| Example publisher and subscriber (`examples/`) | an order book over an SQLite store, by default in memory | a loop of random deltas; a stream from number 0 | all of the above |
| Transport, generated RPC code, subscriber persistence | — | — | pure I/O, generated, or unused by the crate |

What is hard here:

* **Two stampers, one log.** The context and the heartbeat task take numbers
  under one lock and publish after releasing it. Numbers are handed out in
  order and reach the log in any order.
* **Tasks that outlive their context.** `Drop` signals and does not wait, so a
  heartbeat of the last run may race the first messages of the next, which
  takes its first number from the log.
* **A number is spent before anything can fail** — the delta, its encoding, the
  insert, the send, the process.
* **UDP** loses, repeats and reorders; recovery answers are snapshots of a log
  that is being written.
* **A sequencer that decides from caches**: maximum and counters of the heap, a
  deadline computed from an earlier clock reading, a `connected` flag.
* **A replica that is never reset.** A restarted publisher begins with an empty
  state over a log that goes on; a subscriber applies the deltas of both runs to
  one state.

What makes each part correct: the log is append-only, a number names one
message, and nothing is sent that is not recorded (publisher); the stream is the
log in order, without omission or repetition (sequencer); gaps that were noticed
are closed (sequencer with publisher); cached values are exact (heap); watchers
see every delta, in order, once the stream pauses (aggregator); a datagram
decodes to the message that was encoded (codec); the deadline passes only when
the publisher was silent (sequencer with a clock); every delta fits the replica
it is applied to (state synchronisation).

## 2. Modules

```
   MasterLog  (contract: the log and the group)
    ^      ^
    |      |  EXTENDS / INSTANCE
    |     OrderedStream  (contract: the stream)  <- - feeds - -  Aggregator,
    |      ^ implements                                          Application
 Publisher |                                                      |
    |     Sequencer ---- MinMaxHeap         Codec                OrderBook
    |      |      ^                         (fault "udp" of      TreeState
    |      |     TimedSequencer              Sequencer, fault    Persistence
    +-- Grapevine                            "encode" of Publisher)
```

| Module | Models | Correspondence |
|---|---|---|
| `MasterLog` | the promise between publisher and subscribers | `master_log` is the table; `NextSequence`, `ReadSequence`, `StreamFromSequence` are the SQL queries, `Record` the insert with its primary key, `Multicast` the `socket.send` that `publish` reaches only after the insert |
| `Publisher` | `mod.rs`, `context.rs`, `heartbeat.rs`, `state_wrapper.rs`, `util.rs`, the life of `recovery.rs` | one value of `Run` per call of `Publisher::run`; an action lasts from one await to the next, so `publish` is two actions (`WriteMessage`/`WriteFails`, `Send`/`SendFails`) that any number of tasks have under way at once |
| `MinMaxHeap` | `min_max_heap.rs` | one variable per field, one action per mutating method; `BinaryHeap` and `HashMap` are bags |
| `OrderedStream` | the promise of the sequencer | `Deliver` hands out the next row of the log |
| `Sequencer` | `sequencer.rs`, `message.rs` | one variable per field; one action per branch of `next()`, from one point where the environment matters to the next |
| `TimedSequencer` | the clock of `sequencer.rs`: `now`, `last_deadline` | `EXTENDS Sequencer`; each of its actions is one of `Sequencer`'s with what the code does to the two fields, so that the bit `expired` is computed |
| `Aggregator` | `aggregator.rs` | one variable per task, channel and lock; an action lasts from one await to the next |
| `Codec` | `encoder.rs`, `decoder.rs` and the framed socket around them | `Encoded` and `Decode` are the two functions; `Poll` and `Receive` are tokio's `UdpFramed`, which is external |
| `Grapevine` | everything from the application's delta to the subscriber's | the actions of `Publisher` and `Sequencer` over one log; recovery calls need a server that was bound |
| `OrderBook`, `TreeState` | `examples/src/order_book.rs`, `proto.rs` | operators: the two `apply_delta`s, what makes them panic, and the deltas an application may make of its own state |
| `Persistence` | `persistence/sqlite/publisher.rs`, `persistence/mock/publisher.rs` | operators: the queries of the two stores, which differ in `next_sequence` |
| `Application` | `order_book_publisher.rs`, `order_book_subscriber.rs`, `StateSync` on both sides | one variable per field of the two processes; `Run`, `Die` and `Restart` are their lives, `Receive` the contract of `OrderedStream` |
| `*_proofs` | — | theorems, section 5 |
| `MC*` | — | finite instances for TLC |

Abstractions, the same everywhere:

* A **message** is its number, its kind and the run that made it (timestamp and
  body differ exactly when these do). A delta is known by its stamp; the state
  is the set of deltas applied.
* **Faults** are a constant set, so that each run says what may fail.
* **Time** is one bit in `Sequencer`, `expired`: the deadline may pass at any
  moment. `TimedSequencer` has the clock, the reading `now` that `next()` takes
  before a wait of unknown length, and the deadlines computed from it;
  `ExpiredIsDeadline` shows the bit to be the code's comparison.
* **Deltas have content** only in `Application`, where it matters whether one
  fits a state. Quantities there are a `u32` of a width `U32` small enough to
  overflow, and the fields of a leaf an `i32` that wraps at `I32`.
* **UDP**: `sent` only grows and any element may arrive at any time, any number
  of times or never. That is loss, repetition and reordering at once.
* Operators named after a definition with a suffix (`WriteReplaces`,
  `PopKeepsKey`, ...) and marked *Mutation of* are plausible bugs in that
  definition. No specification uses them; each shows that a property would
  notice.

## 3. Runs

| Run | Asks | Bounds, and why they suffice |
|---|---|---|
| `publisher_faults` | Do the log's contract, the accounting of state and the order of runs survive every fault and crash, and can a number that was spent in vain still turn up? | three runs, numbers 0–3: one run may overlap the leftovers of two; three numbers hold a `Started`, a delta and a heartbeat that collide, and let a leftover heartbeat stamp the number the next run has lost |
| `publisher_replay` | *violated:* can a heartbeat whose publish failed be replayed? | |
| `publisher_serves` | *violated:* does every running publisher have a recovery server? | |
| `heap` | Are the caches exact? | numbers 0–4, three copies each, number 1 in two versions |
| `sequencer_faults` | Is the stream the log in order, against any publisher that keeps the contract, and does a gap close without further datagrams? | numbers 0–3, two copies, calls, datagrams and payloads fail: a gap of two behind a buffered message, so that both recovery calls are made |
| `deadline` | Is the bit `expired` the code's deadline, and how much silence makes it pass? | numbers 0–2, a timeout of two ticks, six ticks (`Horizon`): three timeouts, so that a stale deadline may lie in the past |
| `grapevine_replica` | End to end, is the stream the log in order, and is what was delivered the publisher's state? | two runs, numbers 0–3, writes and recovery calls fail |
| `grapevine_gaps` | End to end with only the socket failing: is every number recorded, are recovery errors transient, does every noticed gap close, and do dropped contexts get rid of their tasks? | two runs, numbers 0–2: the second run starts on a number the heartbeat of the first may take |
| `grapevine_stops` | *violated:* does a consumer that stops at the first error see every number? | |
| `aggregator` | Do the two tasks lose nothing, sleep only after notifying, and reach every watcher? | four deltas through a channel of two, two watchers: the channel fills while the lock is held, and a watcher subscribes late |
| `codec` | Does the decoder undo the encoder, also after datagrams the encoder did not make? | every foreign datagram of up to four bytes 0–2; messages up to and beyond the largest |
| `application` | With a book and with a tree: can the book cross, does every delta fit the replica across restarts of either side, and what has the replica in common with the publisher? | five rows (`MaxRows` = 4): a replica first differs from the state of the publisher with the fourth row (`Started`, delta, `Started`, delta), and a removal or edit meets that difference with the fifth; sampled prices 0 and 1, at most two levels a side (`MAX_ORDERS`), two leaves whose fields wrap; stores `file` and `mock`, of which `memory` is the one until the process dies and loses its rows like the other |

`CHECK_DEADLOCK FALSE` is set where the bound on numbers, deltas or ticks lets
the system really stop: a publisher that has used its last number, with every
task ended. The bounds are `MaxSequence`, `Last`, `MaxCopies`, `MaxForeign`,
`MaxRows`, `Horizon` and the sizes of `Run` and `Watcher`; each is declared
where it is used. Symmetry of runs is used only in runs without liveness.
Liveness under a bound on numbers speaks of the numbers there are: a gap is
closed, a dropped task ends, before or after the last number was used.

What the properties found:

* **A failed heartbeat cannot always be replayed** (`publisher_replay`). The
  comment in `heartbeat.rs:87-89` holds when the send failed, not when the
  insert did: the number is a hole no replay fills, and a subscriber that meets
  it is stuck behind it.
* **A running publisher may have no recovery server** (`publisher_serves`). The
  server of the run before holds the port until its destructor has been seen;
  the new server's bind error is only logged.
* **A consumer may stop without any failure** (`grapevine_stops`). A heartbeat
  stamped after a delta is written before it; the subscriber asks for the
  delta's number too early; `get_message` answers with an error and
  `Aggregator` leaves its loop.

What they made precise:

* **What becomes of a lost number.** It is spent before the delta is applied,
  encoded and written, and nothing gives it back. Once the log is past it and
  nobody has yet to stamp it, it stays a hole (`HolesStay`): neither the next run,
  which goes on from the largest row, nor a late write fills it, and no amount of
  asking brings a subscriber past it. The second condition is needed: a heartbeat
  task that passed its check before its context was dropped may stamp a number
  that the next run has just lost.

* **How long a silence is.** The deadline after a datagram counts from the turn
  of the loop that waited for it, that is, from the message before
  (`sequencer.rs:186`, `259`). So a timeout of T guarantees T of silence since
  the last message *but one*, and only a timeout of twice the publisher's
  heartbeat interval (3 s, `publisher/mod.rs:173`) keeps a subscriber from
  reporting a healthy publisher. The example subscriber uses 5 s. And the
  deadline is looked at before the socket: a consumer that comes back late acts
  on it although datagrams wait (`OverdueNeedsSilence` says what it may rely on).
* **What a replica is after a restart.** `reset` is called by nobody: levels and
  leaves of the dead run stay in the replica (`ReplicaCovers`). What is applied
  still always fits (`NeverMisfits`), because the replica has at least what the
  publisher has. Both hold for a store in a file as long as the machine survives:
  the example opens it with a write-ahead log that is not synchronised
  (`order_book_publisher.rs:33-34`), so its rows outlive the process but the last
  of them perhaps not the operating system, whose crash `Die` does not model. The
  example publisher's default store is in memory: after a restart it numbers from 0 again, and subscribers
  that are further on drop what it sends; the history variable `lost` marks
  those behaviours, and no property is claimed of them.
* **When the book does not cross.** As long as no sell was quoted at price 0
  (`NeverCrossed`). A negative sample is cast to 0, and a sell may be quoted there
  as long as there is no buy; below it the limit for a buy, the best sell less one
  in `u32`, wraps (`order_book.rs:65`), the next buy meets none and crosses the
  book, against the comment at `order_book.rs:96`. With the example's prices that
  is five standard deviations off; a debug build panics instead. No run shows it:
  `zeroQuoted` marks these behaviours, and no property is claimed of them.
* **The two stores differ.** The mock's `next_sequence` is the last number, not
  the next. `Publisher::new` takes a store by value, so no code of the crate runs
  twice over the rows of one mock, and in `Application` they die with the process:
  `NextSequence` is only asked of an empty mock there, where the two agree. A run
  over a mock that holds rows would have its `Started` refused.

## 4. Fairness

Only what the runtime owes. In `Sequencer`: the consumer polls and time passes (`WF`); a recovery
call that is tried again and again succeeds in the end (`SF`, because each
failure takes it out of the state where it can be made). No datagram is ever
sure to arrive. In `Grapevine`: the publisher's tasks are polled too, so an
insert or send under way returns, a sleeping heartbeat wakes, a server binds, a
signalled one ends; nothing obliges the application to apply a delta or drop its
context; and a recovery call only need succeed if a server is there again and
again (`[]<>Served`, a hypothesis of the properties of gaps). In
`Aggregator`: both tasks are polled and a watcher lets go of its read guard.

## 5. Proofs

All of it is checked by TLAPS for every value of the constants, from the named
assumptions only (`MaxSequence`, `MaxCopies`, `Start`, `Timeout`, `Horizon`
naturals; numbers of messages naturals; `None` outside the integers; a channel
of at least one; that no message begins with a byte 0, which protobuf's wire
format gives; for `Application`, room in a `u32`, see there).

**Publisher** (`Publisher_proofs`). Type correctness, `ImplementsMasterLog`,
`ConflictsOnlyWithHeartbeat`, `LaterRunsAreLater`, `StartedFirst`,
`StateAccounted` and, when no fault but `send` is allowed, `NoNumberLost`, for
any number of runs. None is inductive alone. The strengthening is built in
layers:

* `Typing` adds to the types that a heartbeat task past its check has room for
  the number it will stamp;
* `Tasks` says which task owns each message under way: a sender waits for its
  publish, a run has one message of each sender in flight, one run is active;
* `Stamps` says that everything sent is recorded, that a run's stamps lie below
  its counter and differ, and that the log has one row per number;
* `Later`, `StartedBefore`, `Accounted` and `Dense` add one property each: of
  runs, of `Started`, of the state, and of numbers without holes; `Settled` adds
  that what failed is not in the log and never will be, whence `StateIsLogged`:
  a state but for what failed or is being written is the log's deltas of its run.

`HolesStay`, an action property, needs no further layer: `HolePreserved` shows
step by step that whatever may still stamp is beyond a hole (`MayStamp`), and
`NextSequenceIsFresh` that a new run begins beyond it.

`ImplementsMasterLog` then maps every step to `Record`, `Multicast` or a stutter.

**MinMaxHeap** (`MinMaxHeap_proofs`). Type correctness, `CounterMirrorsHeap`,
`MaxIdExact`, `GapsExact`. The first three are inductive together; the last is
pigeonhole: an interval as large as the set of numbers in it is full. That a
nonempty set of numbers has a least element (`NatMin`) is well-foundedness of
`<`; greatest elements of bounded sets are found counting down.

**Sequencer** (`Sequencer_proofs`). Type correctness, `ImplementsOrderedStream`,
`SingleMissingIsExact`, `NeverEmptyStream`, `BufferedMeansConnected`,
`SyncCoversHeap`. Every step
is a step of the heap or leaves it alone (`UsesHeap`), so the heap's theorems are
reused through an instance. Around them: `Flow` (the heap holds only what was
sent, a recovery stream only what was recorded, and `want_sequence` counts what
was delivered), `Ahead` (while listening, everything buffered is from beyond the
wanted number) and `Covers` (a number names one row; what is left of a snapshot
is not behind, and holds all that is wanted in the heap, because UDP is not read
while it lasts). `HandedOut` adds that what was handed out is in the log as it is
now, row by row from `Start` on.

**TimedSequencer** (`TimedSequencer_proofs`). A timed step is a step of
`Sequencer`, so all of the above holds of it (`TimedRunsSequencer`);
`ExpiredIsDeadline` and `OverdueNeedsSilence`, for every timeout. The invariant
`TimedInv` bounds the readings by the clock (`Clocks`), and says that a wait
began after the last message was taken (`Fresh`), so that the deadline computed
from its reading leaves a timeout to the message that will be the last but one
(`Window`).

**Aggregator** (`Aggregator_proofs`). Type correctness, `NothingLost` and
`WaitingMeansCurrent`, for any stream, channel and watchers. `Chain` says by
positions that the state, the delta held, the channel and the delta about to be
sent are consecutive; `Versions` that a version never announces more than was
applied, and that a waiting watcher has read what the last version it saw
announced. `NothingLost`, an equation of concatenations, follows from
`Chain` by extensionality.

**Codec** (`Codec_proofs`). Type correctness, `OwnTrafficDecodes` and
`NeverLostSilently`, for any messages, largest payload and foreign datagrams.
The lemmas `HeaderUndone` and `NoHeaderIsBody` say what one call of the decoder
makes of an encoded message, waiting for a header or for a body; `Undone` and
`Answered` say where a datagram is between the polls.

**Grapevine** (`Grapevine_proofs`). The two halves meet: a subscriber leaves the
publisher alone, so the system runs `Publisher` (`SystemRunsPublisher`) and all
of its theorems hold; the publisher implements `MasterLog`, so the system also
runs `Sequencer` (`SystemRunsSequencer`); hence `StreamsInOrder`, for any number
of runs and whatever fails. `ReplicaFollowsState`, unless a payload does not
parse, is `StateIsLogged` of the one half and `HandedOut` of the other: both
sides are the log's deltas of the run below the wanted number.
`ErrorsAreTransient`, an action property, needs both halves too
(`MissingIsBeingWritten`). It is proved where no fault but `send` is allowed to
the publisher and no recovery call breaks, for otherwise it is false: a number
can be lost, or an error need not come from the log. An overdue sequencer that ends its wait
with an error has asked the log for its number in vain (`ErrorMeansMissing`). It
asked because something from beyond that number is in its heap (`Ahead`), hence
was recorded (`Flow`), hence lies below the counter of the run that stamped it
(`Stamps`). So the wanted number was stamped, and by `NoNumberLost` what was
stamped and is not in the log is being written. The module's
lemmas `Same...` only say that two instances of one module with the same
substitution agree.

**Application** (`Application_proofs`). Type correctness, `NeverCrossed`,
`NeverMisfits` and `ReplicaCovers`, for every set of prices, leaves and values,
every bound on orders and all three stores. The inductive invariant `IInv` has
three layers:

* `Layer1` adds to the types that a state after n numbers has at most n times
  the largest quantity at one price (`Bounded`), so that no `u32` wraps; and that
  the log has just the numbers below the counter, the first of them a `Started`,
  as long as no rows were lost (`Numbered`). What a process does that runs over
  the store follows in `RunNumber`, for SQLite and the mock;
* `Apart` says that, with no sell quoted at price 0, every buy is below every
  sell *and* there is room for a price below the sells and above the buys. The
  second half is what `NeverCrossed` lacks: without it the limit
  `best sell - 1` could wrap. It rests on a sampled price never being the largest
  `u32` (`BookAssumption`);
* `Followed` is the inductive form of `ReplicaCovers`, at every number and not
  only the last: there is a history, the state the publisher had before each
  number of the log, such that every row leads from one state of it to the next
  and the replica covers the one at the number it wants, and equals it if the
  store has seen one run. Covering is enough for the next delta to fit, and is
  kept by it (`Covered`, from `QuoteCovered` and `LeafCovered`).
  The history is an existential in the invariant, since a recursive definition of
  it could not be reasoned about; that it grows by one state per row is
  `HistoryGrows`.

The assumptions of these theorems are named in the modules. `RowsAssumption`
bounds the rows so that no level can overflow: with a `u32` and the example's
quantities below 100 that is 43 million rows. Beyond it a replica that still has the
levels of dead runs could overflow where the publisher does not, and nothing is
claimed. `BookAssumption` keeps sampled prices below the largest `u32`,
`TreeAssumption` makes the values of leaves `i32`s, whose sums may wrap, and
`StoresAssumption` names the stores.

Only model-checked: all liveness (`HeartbeatStops`, `RecoveryStops`, `CatchesUp`,
`GapsClose`, `EveryDeltaSeen`) and the three runs that find a violation.
Liveness under fairness and `ENABLED` are outside the prover's reach. So are
induction over data and `RECURSIVE` operators, which no module here needs: least
and greatest elements come from well-foundedness, histories from an existential.
Every other property of every run is a theorem.

## 6. Not modelled, and why

* **Bytes**, outside `Codec`. Protobuf and timestamps: a message that is too
  large or does not parse is a fault. `Codec` takes the strings of bytes that
  parse as a constant.
* **A decoder that is stuck.** `Codec` reaches the state in which a foreign
  datagram left bytes nobody consumes and every poll is an error. `Sequencer`
  has it as the fault `udp`, which may occur for ever; recovery still works.
* **Connections.** gRPC's transport, the SQLite pool and its migrations, socket
  options: external, seen as calls that succeed or fail.
* **`Ok(None)` from the framed socket**: `UdpFramed` never ends.
* **Recovery stream that stalls**: `sequencer.rs:145` awaits without timeout;
  gRPC is assumed to answer or fail.
* **Subscriber persistence**: no code of the crate writes it.
* **What tonic generates** for the two calls: routing, without a decision of
  this program's. The generated message types are the sets `Message`,
  `LeafDelta` and `QuoteDelta`.
* **Multicast socket set-up**: system calls in sequence; the group is `sent`.
* **What the example subscriber does** with a message: print it. The replica of
  `Application` is an `Aggregator`'s.

## 7. What could come next

1. `Application` over `Publisher` instead of over its contract: a delta that
   failed between the state and the log is a fault `Application` ends the
   process for, as the example's `unwrap` does.
2. Two subscribers, or two publishers in one multicast group, which no document
   of the repository describes.
