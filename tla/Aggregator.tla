------------------------------ MODULE Aggregator ------------------------------
(***************************************************************************)
(* Aggregator (subscriber/aggregator.rs): keeps a replica of the state up  *)
(* to date from a sequencer's stream.  A reader task moves the stream's    *)
(* deltas into a bounded channel; a snapshot task applies them to a state  *)
(* behind a lock and, whenever it finds the channel empty, wakes the       *)
(* watchers.  A watcher does not get a copy: it reads the shared state     *)
(* under the lock, whatever has been applied since it was woken.           *)
(*                                                                         *)
(* Deltas are numbered 1, 2, ... in the order the stream yields them, so   *)
(* that taken stands for the deltas 1 .. taken.  What is not a delta       *)
(* (heartbeats, Started, Disconnected) the reader passes over.             *)
(***************************************************************************)
EXTENDS Integers, Sequences

CONSTANTS
    Watcher,    \* the receivers the application may subscribe
    Last,       \* bound: the deltas the stream yields
    Capacity,   \* sequencer_buf_size
    Faults      \* what fails, or is given up, beyond the code itself

ASSUME AggregatorAssumption ==
    /\ Last \in Nat
    /\ Capacity \in Nat \ {0}
    /\ Faults \subseteq {"stream",  \* the sequencer returns an error
                         "apply",   \* StateSync::apply_delta refuses a delta
                         "drop"}    \* the application drops its receivers

VARIABLES
    taken,      \* deltas the stream has yielded
    reader,     \* "next": awaits the stream; "send": awaits room for delta
                \* number taken; "ended": its sender is dropped
    queue,      \* the mpsc channel
    producer,   \* the snapshot task: "recv", "try", "lock" (awaits the write
                \* lock, holding delta), "ended": its receiver is dropped
    delta,      \* the delta held in "lock"
    state,      \* the shared state: the deltas applied, in order
    notified,   \* the watch channel's version: the deltas that were applied
                \* when it last changed; no two versions share this number
    owner,      \* the Aggregator, and the receiver in it, still exist
    watcher,    \* watcher[w]: "none", "waiting" in changed(), "locking",
                \* "reading" (holds a read guard), "gone"
    seen,       \* the version each receiver saw last
    view        \* what each watcher read last

vars == <<taken, reader, queue, producer, delta, state, notified, owner,
          watcher, seen, view>>

Listening == {w \in Watcher : watcher[w] \in {"waiting", "locking", "reading"}}

\* Some receiver of the watch channel exists
Received == owner \/ Listening # {}

-----------------------------------------------------------------------------
TypeOK ==
    /\ taken \in 0 .. Last
    /\ reader \in {"next", "send", "ended"}
    /\ queue \in Seq(1 .. Last) /\ Len(queue) <= Capacity
    /\ producer \in {"recv", "try", "lock", "ended"}
    /\ delta \in 0 .. Last
    /\ state \in Seq(1 .. Last)
    /\ notified \in 0 .. Last
    /\ owner \in BOOLEAN
    /\ watcher \in [Watcher -> {"none", "waiting", "locking", "reading", "gone"}]
    /\ seen \in [Watcher -> 0 .. Last]
    /\ view \in [Watcher -> Seq(1 .. Last)]

Init ==
    /\ taken = 0
    /\ reader = "next"
    /\ queue = << >>
    /\ producer = "recv"
    /\ delta = 0
    /\ state = << >>
    /\ notified = 0
    /\ owner = TRUE
    /\ watcher = [w \in Watcher |-> "none"]
    /\ seen = [w \in Watcher |-> 0]
    /\ view = [w \in Watcher |-> << >>]

producerVars == <<producer, delta, state, notified>>
watcherVars == <<owner, watcher, seen, view>>

-----------------------------------------------------------------------------
(* The reader task.                                                        *)

NextDelta ==
    /\ reader = "next" /\ taken < Last
    /\ taken' = taken + 1
    /\ reader' = "send"
    /\ UNCHANGED <<queue, producerVars, watcherVars>>

\* The first error, whatever it is, ends the loop and drops the sender
StreamFails ==
    /\ "stream" \in Faults
    /\ reader = "next"
    /\ reader' = "ended"
    /\ UNCHANGED <<taken, queue, producerVars, watcherVars>>

\* Mutation of SendDelta: a full channel drops the delta
SendDropsDelta ==
    /\ reader = "send"
    /\ \/ /\ producer = "ended"
          /\ reader' = "ended"
          /\ UNCHANGED queue
       \/ /\ producer # "ended"
          /\ reader' = "next"
          /\ queue' = IF Len(queue) < Capacity THEN Append(queue, taken) ELSE queue
    /\ UNCHANGED <<taken, producerVars, watcherVars>>

\* Mutation of SendDelta: an unbounded channel
SendUnbounded ==
    /\ reader = "send"
    /\ \/ /\ producer = "ended"
          /\ reader' = "ended"
          /\ UNCHANGED queue
       \/ /\ producer # "ended"
          /\ reader' = "next"
          /\ queue' = Append(queue, taken)
    /\ UNCHANGED <<taken, producerVars, watcherVars>>

\* sequencer_tx.send waits for room, or finds the receiver dropped
SendDelta ==
    /\ reader = "send"
    /\ \/ /\ producer = "ended"
          /\ reader' = "ended"
          /\ UNCHANGED queue
       \/ /\ producer # "ended" /\ Len(queue) < Capacity
          /\ reader' = "next"
          /\ queue' = Append(queue, taken)
    /\ UNCHANGED <<taken, producerVars, watcherVars>>

-----------------------------------------------------------------------------
(* The snapshot task.                                                      *)

\* The task ends and drops both its channel ends: what is queued is lost
EndProducer ==
    /\ producer' = "ended"
    /\ queue' = << >>
    /\ UNCHANGED <<delta, state, notified>>

\* recv().await, or try_recv() while draining, yields the oldest delta
ReceiveDelta ==
    /\ producer \in {"recv", "try"} /\ queue # << >>
    /\ delta' = Head(queue)
    /\ queue' = Tail(queue)
    /\ producer' = "lock"
    /\ UNCHANGED <<taken, reader, state, notified, watcherVars>>

\* Disconnected: the sender is gone and nothing is left.  The loop is left at
\* once, also when deltas were applied that no version announces yet.
ReceiveNone ==
    /\ producer \in {"recv", "try"} /\ queue = << >> /\ reader = "ended"
    /\ EndProducer
    /\ UNCHANGED <<taken, reader, watcherVars>>

\* The write lock is granted when no watcher holds a guard.  A refused delta
\* ends the task; what it did to the state is the application's affair.
ApplyDelta ==
    /\ producer = "lock"
    /\ \A w \in Watcher : watcher[w] # "reading"
    /\ \/ /\ state' = Append(state, delta)
          /\ producer' = "try"
          /\ UNCHANGED <<queue, delta, notified>>
       \/ /\ "apply" \in Faults
          /\ EndProducer
    /\ UNCHANGED <<taken, reader, watcherVars>>

\* Mutation of Notify: the watchers are not woken
NotifySkipped ==
    /\ producer = "try" /\ queue = << >> /\ reader # "ended"
    /\ producer' = "recv"
    /\ UNCHANGED <<taken, reader, queue, delta, state, notified, watcherVars>>

\* Empty: announce what was applied, then wait; or end, with nobody to tell
Notify ==
    /\ producer = "try" /\ queue = << >> /\ reader # "ended"
    /\ \/ /\ Received
          /\ notified' = Len(state)
          /\ producer' = "recv"
          /\ UNCHANGED <<queue, delta, state>>
       \/ ~ Received /\ EndProducer
    /\ UNCHANGED <<taken, reader, watcherVars>>

-----------------------------------------------------------------------------
(* The application.                                                        *)

\* Mutation of Subscribe: a new receiver starts from the current version
SubscribeAtCurrent(w) ==
    /\ owner /\ watcher[w] = "none"
    /\ watcher' = [watcher EXCEPT ![w] = "waiting"]
    /\ seen' = [seen EXCEPT ![w] = notified]
    /\ UNCHANGED <<taken, reader, queue, producerVars, owner, view>>

\* subscribe() clones the Aggregator's own receiver, which never looks: the
\* clone has seen nothing but the initial version
Subscribe(w) ==
    /\ owner /\ watcher[w] = "none"
    /\ watcher' = [watcher EXCEPT ![w] = "waiting"]
    /\ UNCHANGED <<taken, reader, queue, producerVars, owner, seen, view>>

\* changed().await: a version not seen yet, or an error for a sender dropped
Changed(w) ==
    /\ watcher[w] = "waiting"
    /\ \/ /\ seen[w] # notified
          /\ seen' = [seen EXCEPT ![w] = notified]
          /\ watcher' = [watcher EXCEPT ![w] = "locking"]
       \/ /\ seen[w] = notified /\ producer = "ended"
          /\ watcher' = [watcher EXCEPT ![w] = "gone"]
          /\ UNCHANGED seen
    /\ UNCHANGED <<taken, reader, queue, producerVars, owner, view>>

\* read().await: the snapshot task holds the lock only within ApplyDelta
Read(w) ==
    /\ watcher[w] = "locking"
    /\ watcher' = [watcher EXCEPT ![w] = "reading"]
    /\ view' = [view EXCEPT ![w] = state]
    /\ UNCHANGED <<taken, reader, queue, producerVars, owner, seen>>

Release(w) ==
    /\ watcher[w] = "reading"
    /\ watcher' = [watcher EXCEPT ![w] = "waiting"]
    /\ UNCHANGED <<taken, reader, queue, producerVars, owner, seen, view>>

DropReceiver ==
    /\ "drop" \in Faults
    /\ \/ owner /\ owner' = FALSE /\ UNCHANGED watcher
       \/ \E w \in Listening : watcher' = [watcher EXCEPT ![w] = "gone"] /\ UNCHANGED owner
    /\ UNCHANGED <<taken, reader, queue, producerVars, seen, view>>

-----------------------------------------------------------------------------
Next ==
    \/ NextDelta \/ StreamFails \/ SendDelta
    \/ ReceiveDelta \/ ReceiveNone \/ ApplyDelta \/ Notify
    \/ \E w \in Watcher : Subscribe(w) \/ Changed(w) \/ Read(w) \/ Release(w)
    \/ DropReceiver

Spec == Init /\ [][Next]_vars

\* Both tasks and the watchers are polled, and a watcher lets go of its guard.
\* Nothing obliges the stream to yield, nor the application to subscribe.
Fairness ==
    /\ WF_vars(SendDelta)
    /\ WF_vars(ReceiveDelta \/ ReceiveNone \/ ApplyDelta \/ Notify)
    /\ \A w \in Watcher : WF_vars(Changed(w) \/ Read(w) \/ Release(w))

FairSpec == Spec /\ Fairness

-----------------------------------------------------------------------------
(* Properties *)

If(condition, s) == IF condition THEN s ELSE << >>

\* No delta is lost, repeated or overtaken between the stream and the shared
\* state, however full the channel is: what was applied, what the snapshot
\* task holds, what is queued and what the reader holds are together what the
\* stream has yielded.  Only a task that gave up leaves a shorter, but gapless,
\* state behind (aggregator.rs:36-91).
NothingLost ==
    /\ state = [i \in 1 .. Len(state) |-> i]
    /\ producer # "ended" =>
         state \o If(producer = "lock", <<delta>>) \o queue \o If(reader = "send", <<taken>>)
            = [i \in 1 .. taken |-> i]

\* While the snapshot task sleeps, a watcher that waits for the next change
\* has read every delta applied so far, when it was woken for an earlier one
\* while more were coming in, or subscribed late, as well
\* (aggregator.rs:60-83, 98-100).
WaitingMeansCurrent ==
    producer = "recv" =>
        \A w \in Watcher :
            watcher[w] = "waiting" /\ seen[w] = notified => view[w] = state

\* Once the stream pauses, whoever listens gets to see every delta it has
\* yielded, unless a task gave up: a full channel, the write lock and the read
\* guards never block one another for good (aggregator.rs:42, 71, 78).
EveryDeltaSeen ==
    \A w \in Watcher : \A n \in 1 .. Last :
        watcher[w] = "waiting" /\ taken = n
            ~> Len(view[w]) >= n \/ producer = "ended" \/ watcher[w] = "gone"
==============================================================================
