--------------------------- MODULE Grapevine_proofs ---------------------------
(***************************************************************************)
(* The two halves put together, for every number of runs, every bound and  *)
(* every set of faults.  The publisher's runs keep the contract MasterLog  *)
(* whoever listens, so the system is a sequencer against a publisher that  *)
(* keeps it, and what is proved of each half holds of the whole.           *)
(***************************************************************************)
EXTENDS Grapevine, Publisher_proofs, SequenceTheorems

SubProofs == INSTANCE Sequencer_proofs WITH Faults <- SubFaults

\* A subscriber leaves the publisher alone.
LEMMA SubscriberLeavesPublisher == Subscriber => UNCHANGED vars
BY DEF Subscriber, Recover, pubVars, vars, Sub!logVars, Sub!GetMessage, Sub!StreamFrom,
   Sub!SyncNext, Sub!SyncBroken, Sub!SyncFails, Sub!SyncDone, Sub!HeapNext, Sub!DropStale,
   Sub!Listen, Sub!Receive, Sub!DecodeError, Sub!Elapse, Sub!Disconnect, Sub!RecoveryFails

\* Whatever the subscriber does, the publisher is the one of Publisher: all
\* that is proved of Spec holds of the system (publisher/mod.rs,
\* subscriber/sequencer.rs).
THEOREM SystemRunsPublisher == SystemSpec => Spec
<1>1. SystemInit => Init
  BY DEF SystemInit
<1>2. [SystemNext]_systemVars => [Next]_vars
  BY SubscriberLeavesPublisher DEF SystemNext, systemVars
<1>3. QED BY <1>1, <1>2, PTL DEF SystemSpec, Spec

\* What the assumptions of the sequencer ask for.
LEMMA SubAssumed == SubProofs!SequencerAssumption /\ SubProofs!MessageAssumption
<1>1. \A m \in Message : m.sequence \in Nat
  BY MaxSequenceAssumption DEF Message
<1>2. QED BY <1>1, GrapevineAssumption
          DEF SubProofs!SequencerAssumption, SubProofs!MessageAssumption

-----------------------------------------------------------------------------
(* The publisher is a log that keeps its promise, seen from the sequencer. *)

(* Sub and SubProofs are two instances of Sequencer with one substitution: *)
(* each definition says the same in both, helpers first.                   *)

\* The queries of the log and the ends of next().
LEMMA SameHelpers ==
  /\ \A S : Sub!First(S) = SubProofs!First(S)
  /\ \A n : Sub!ReadSequence(n) = SubProofs!ReadSequence(n)
  /\ \A n : Sub!StreamFromSequence(n) = SubProofs!StreamFromSequence(n)
  /\ \A r : Sub!Fail(r) <=> SubProofs!Fail(r)
  /\ \A r : Sub!Return(r) <=> SubProofs!Return(r)
  /\ \A m, o : Sub!Take(m, o) <=> SubProofs!Take(m, o)
<1>1. \A S : Sub!First(S) = SubProofs!First(S)
  BY Zenon DEF Sub!First, SubProofs!First
<1>2. \A n : Sub!ReadSequence(n) = SubProofs!ReadSequence(n)
  BY Zenon DEF Sub!ReadSequence, SubProofs!ReadSequence
<1>3. \A n : Sub!StreamFromSequence(n) = SubProofs!StreamFromSequence(n)
  BY Zenon DEF Sub!StreamFromSequence, SubProofs!StreamFromSequence
<1>4. \A r : Sub!Fail(r) <=> SubProofs!Fail(r)
  BY Zenon DEF Sub!Fail, SubProofs!Fail, Sub!Return, SubProofs!Return
<1>5. \A r : Sub!Return(r) <=> SubProofs!Return(r)
  BY Zenon DEF Sub!Return, SubProofs!Return
<1>6. \A m, o : Sub!Take(m, o) <=> SubProofs!Take(m, o)
  BY Zenon DEF Sub!Take, SubProofs!Take, Sub!Return, SubProofs!Return
<1>7. QED BY <1>1, <1>2, <1>3, <1>4, <1>5, <1>6

\* The buffer.
LEMMA SameHeap ==
  /\ Sub!Heap!Init <=> SubProofs!Heap!Init
  /\ Sub!Heap!Buffered = SubProofs!Heap!Buffered
  /\ Sub!Heap!Least = SubProofs!Heap!Least
  /\ \A m : Sub!Heap!Push(m) <=> SubProofs!Heap!Push(m)
  /\ \A m : Sub!Heap!Pop(m) <=> SubProofs!Heap!Pop(m)
  /\ Sub!Heap!HasGaps <=> SubProofs!Heap!HasGaps
<1>1. Sub!Heap!Buffered = SubProofs!Heap!Buffered
  BY DEF Sub!Heap!Buffered, SubProofs!Heap!Buffered
<1>2. Sub!Heap!Least = SubProofs!Heap!Least
  BY <1>1 DEF Sub!Heap!Least, SubProofs!Heap!Least
<1>3. \A m : Sub!Heap!Push(m) <=> SubProofs!Heap!Push(m)
  BY Zenon DEF Sub!Heap!Push, SubProofs!Heap!Push, Sub!Heap!Bag!BagAdd, SubProofs!Heap!Bag!BagAdd
<1>4. \A m : Sub!Heap!Pop(m) <=> SubProofs!Heap!Pop(m)
  BY <1>2, Zenon DEF Sub!Heap!Pop, SubProofs!Heap!Pop, Sub!Heap!Bag!BagRemove, SubProofs!Heap!Bag!BagRemove
<1>5. Sub!Heap!HasGaps <=> SubProofs!Heap!HasGaps
  <2> DEFINE top1 == CHOOSE m \in Sub!Heap!Least : TRUE
             top2 == CHOOSE m \in SubProofs!Heap!Least : TRUE
             n1 == Sub!Heap!Cardinality(DOMAIN counter)
             n2 == SubProofs!Heap!Cardinality(DOMAIN counter)
  <2>1. n1 = n2
    BY Zenon DEF Sub!Heap!Cardinality, SubProofs!Heap!Cardinality
  <2>2. top1 = top2
    BY <1>2, Zenon
  <2>3. Sub!Heap!HasGaps <=> (IF max_id = None THEN 0 ELSE max_id - top1.sequence + 1 - n1) > 0
    BY DEF Sub!Heap!HasGaps, Sub!Heap!CountMissing
  <2>4. SubProofs!Heap!HasGaps <=> (IF max_id = None THEN 0 ELSE max_id - top2.sequence + 1 - n2) > 0
    BY DEF SubProofs!Heap!HasGaps, SubProofs!Heap!CountMissing
  <2> HIDE DEF top1, top2, n1, n2
  <2>5. QED BY <2>1, <2>2, <2>3, <2>4
<1>6. Sub!Heap!Init <=> SubProofs!Heap!Init
  BY Zenon DEF Sub!Heap!Init, SubProofs!Heap!Init, Sub!Heap!Empty, SubProofs!Heap!Empty
<1>7. QED BY <1>1, <1>2, <1>3, <1>4, <1>5, <1>6

\* A step of the subscriber in the system is a step of Sequencer, the calls of
\* a recovery server that answers included.
LEMMA SubscriberSteps == Subscriber => SubProofs!SubNext
<1> USE SameHelpers, SameHeap
    DEF Sub!logVars, SubProofs!logVars, Sub!heapFields, SubProofs!heapFields
<1>1. Sub!SyncNext \/ Sub!SyncBroken \/ Sub!SyncFails \/ Sub!SyncDone => SubProofs!SubNext
  BY DEF Sub!Syncing, SubProofs!Syncing, Sub!SyncNext, SubProofs!SyncNext, Sub!SyncBroken,
     SubProofs!SyncBroken, Sub!SyncFails, SubProofs!SyncFails, Sub!SyncDone, SubProofs!SyncDone,
     SubProofs!SubNext
<1>2. Sub!HeapNext \/ Sub!DropStale \/ Sub!Listen => SubProofs!SubNext
  BY DEF Sub!Draining, SubProofs!Draining, Sub!HeapNext, SubProofs!HeapNext, Sub!DropStale,
     SubProofs!DropStale, Sub!Listen, SubProofs!Listen, SubProofs!SubNext
<1>3. ASSUME NEW m \in sent, Sub!Receive(m) PROVE SubProofs!SubNext
  BY <1>3 DEF Sub!Waiting, SubProofs!Waiting, Sub!Receive, SubProofs!Receive, SubProofs!SubNext
<1>4. Sub!DecodeError \/ Sub!Elapse \/ Sub!Disconnect \/ Sub!RecoveryFails => SubProofs!SubNext
  BY DEF Sub!Overdue, SubProofs!Overdue, Sub!Waiting, SubProofs!Waiting, Sub!DecodeError,
     SubProofs!DecodeError, Sub!Elapse, SubProofs!Elapse, Sub!Disconnect,
     SubProofs!Disconnect, Sub!RecoveryFails, SubProofs!RecoveryFails, SubProofs!SubNext
<1>5. Sub!GetMessage => SubProofs!SubNext
  BY DEF Sub!Overdue, SubProofs!Overdue, Sub!SingleMissing, SubProofs!SingleMissing,
     Sub!GetMessage, SubProofs!GetMessage, SubProofs!SubNext
<1>6. Sub!StreamFrom => SubProofs!SubNext
  BY DEF Sub!Overdue, SubProofs!Overdue, Sub!SingleMissing, SubProofs!SingleMissing,
     Sub!StreamFrom, SubProofs!StreamFrom, SubProofs!SubNext
<1>7. QED BY <1>1, <1>2, <1>3, <1>4, <1>5, <1>6 DEF Subscriber, Recover

\* The system is a sequencer of Sequencer whose log is kept by MasterLog.
LEMMA SystemRunsSequencer == SystemSpec => SubProofs!Spec
<1>1. SystemInit => SubProofs!Init
  BY SameHeap DEF SystemInit, Sub!Init, SubProofs!Init, Sub!LogInit, SubProofs!LogInit
<1>2. Log!LogNext => SubProofs!LogNext
  BY DEF Log!LogNext, Log!Record, Log!Multicast, Log!Ids, Log!SequencesOf,
     SubProofs!LogNext, SubProofs!Record, SubProofs!Multicast, SubProofs!Ids, SubProofs!SequencesOf
<1>3. [SystemNext]_systemVars /\ [Log!LogNext]_(Log!logVars) => [SubProofs!Next]_(SubProofs!vars)
  <2>1. CASE Subscriber
    BY <2>1, SubscriberSteps DEF SubProofs!Next
  <2>2. ASSUME UNCHANGED subVars, [Log!LogNext]_(Log!logVars)
        PROVE  [SubProofs!Next]_(SubProofs!vars)
    BY <1>2, <2>2 DEF SubProofs!Next, SubProofs!vars, SubProofs!subVars, SubProofs!logVars,
       subVars, Log!logVars
  <2>3. QED BY <2>1, <2>2 DEF SystemNext, systemVars
<1>4. SystemSpec => Spec /\ ImplementsMasterLog
  BY SystemRunsPublisher, PublisherImplementsMasterLog, PTL
<1>5. QED
  BY <1>1, <1>3, <1>4, PTL DEF SystemSpec, SubProofs!Spec, ImplementsMasterLog, Log!LogSpec

\* End to end, for any number of runs and whatever fails, the stream a
\* subscriber is given is the publisher's log in order.
THEOREM SystemStreamsInOrder == SystemSpec => StreamsInOrder
<1>1. SubProofs!Spec => SubProofs!ImplementsOrderedStream
  BY SubAssumed, SubProofs!SequencerImplementsOrderedStream
<1>2. Sub!Messages = SubProofs!Messages /\ Sub!Messages' = SubProofs!Messages'
  BY DEF Sub!Messages, SubProofs!Messages
<1>3. SubProofs!Ordered!StreamInit => Sub!Ordered!StreamInit
  BY <1>2 DEF SubProofs!Ordered!StreamInit, Sub!Ordered!StreamInit,
     SubProofs!Ordered!LogInit, Sub!Ordered!LogInit
<1>4. [SubProofs!Ordered!StreamNext]_(SubProofs!Ordered!streamVars)
        => [Sub!Ordered!StreamNext]_(Sub!Ordered!streamVars)
  BY <1>2
  DEF SubProofs!Ordered!StreamNext, Sub!Ordered!StreamNext,
      SubProofs!Ordered!Deliver, Sub!Ordered!Deliver, SubProofs!Ordered!streamVars,
      Sub!Ordered!streamVars, SubProofs!Ordered!logVars, Sub!Ordered!logVars,
      SubProofs!Ordered!LogNext, Sub!Ordered!LogNext, SubProofs!Ordered!Record,
      Sub!Ordered!Record, SubProofs!Ordered!Multicast, Sub!Ordered!Multicast,
      SubProofs!Ordered!Ids, Sub!Ordered!Ids, SubProofs!Ordered!SequencesOf,
      Sub!Ordered!SequencesOf
<1>5. QED
  BY <1>1, <1>3, <1>4, SystemRunsSequencer, PTL
  DEF StreamsInOrder, Sub!ImplementsOrderedStream, SubProofs!ImplementsOrderedStream,
      Sub!Ordered!StreamSpec, SubProofs!Ordered!StreamSpec

-----------------------------------------------------------------------------
(* The subscriber's replica.                                               *)

\* Where no payload fails to parse, the deltas a subscriber has handed out
\* are those the log has below the number it wants.
LEMMA ReplicaIsLog ==
  ASSUME Safe, SubProofs!Flow, SubProofs!AsLogged, "parse" \notin SubFaults, NEW r \in Run
  PROVE  Replica(r) = {d \in OwnDeltas(r) : d.sequence \in Start .. want_sequence - 1}
<1> DEFINE N == Len(delivered)
           R == [msg : Message, origin : {"Udp", "Missing", "Sync"}, ok : BOOLEAN]
<1>1. delivered \in Seq(R) /\ want_sequence = Start + N
  BY DEF SubProofs!Flow
<1> HIDE DEF R
<1>2. N \in Nat /\ DOMAIN delivered = 1 .. N /\ Start \in Nat
  BY <1>1, LenProperties, GrapevineAssumption
<1>3. \A i \in 1 .. N : /\ delivered[i].msg \in master_log
                        /\ delivered[i].msg.sequence = Start + i - 1
                        /\ delivered[i].ok = TRUE
  BY DEF SubProofs!AsLogged
<1> HIDE DEF N
<1>4. ASSUME NEW d \in Replica(r)
      PROVE  d \in OwnDeltas(r) /\ d.sequence \in Start .. want_sequence - 1
  <2>1. PICK i \in 1 .. N : /\ d = delivered[i].msg
                            /\ delivered[i].msg.payload = "Delta" /\ delivered[i].msg.run = r
    BY <1>2, <1>4 DEF Replica
  <2>2. QED BY <1>1, <1>2, <1>3, <2>1 DEF OwnDeltas
<1>5. ASSUME NEW d \in OwnDeltas(r), d.sequence \in Start .. want_sequence - 1
      PROVE  d \in Replica(r)
  <2> DEFINE i == d.sequence - Start + 1
  <2>1. i \in 1 .. N /\ Start + i - 1 = d.sequence
    BY <1>1, <1>2, <1>5
  <2> HIDE DEF i
  <2>2. delivered[i].msg = d
    BY <1>3, <1>5, <2>1 DEF Safe, Stamps, LogUnique, OwnDeltas
  <2>3. delivered[i].ok /\ d.payload = "Delta" /\ d.run = r
    BY <1>3, <1>5, <2>1 DEF OwnDeltas
  <2>4. QED BY <1>2, <2>1, <2>2, <2>3 DEF Replica
<1>6. QED BY <1>4, <1>5

\* The state a subscriber rebuilds is, delta for delta, the live context's up
\* to the number it wants, whatever was lost, raced or batched on the way: what
\* is applied first and published later (context.rs:65-89) is what next()
\* hands out (sequencer.rs:139-273), unless a payload does not parse.
THEOREM ReplicaIsState ==
  ASSUME "parse" \notin SubFaults
  PROVE  SystemSpec => []ReplicaFollowsState
<1>1. SystemSpec => [](SubProofs!Flow /\ SubProofs!AsLogged)
  BY SubAssumed, SubProofs!HandedOut, SystemRunsSequencer, PTL
<1>2. SystemSpec => []Safe
  BY SystemRunsPublisher, SafeInvariant, PTL
<1>3. SystemSpec => [](\A r \in Run : state[r] \ (errored \union writing) = OwnDeltas(r))
  BY SystemRunsPublisher, StateIsLogged, PTL
<1>4. ASSUME Safe, SubProofs!Flow, SubProofs!AsLogged,
             \A r \in Run : state[r] \ (errored \union writing) = OwnDeltas(r)
      PROVE  ReplicaFollowsState
  <2>1. SUFFICES ASSUME NEW r \in Run
                 PROVE  Replica(r) = {d \in state[r] : d.sequence \in Start .. want_sequence - 1}
                                     \ (errored \union writing)
    BY DEF ReplicaFollowsState
  <2>2. Replica(r) = {d \in OwnDeltas(r) : d.sequence \in Start .. want_sequence - 1}
    BY <1>4, ReplicaIsLog
  <2>3. state[r] \ (errored \union writing) = OwnDeltas(r)
    BY <1>4
  <2>4. QED BY <2>2, <2>3
<1>5. Safe /\ SubProofs!Flow /\ SubProofs!AsLogged
        /\ (\A r \in Run : state[r] \ (errored \union writing) = OwnDeltas(r))
        => ReplicaFollowsState
  BY <1>4
<1>6. QED BY <1>1, <1>2, <1>3, <1>5, PTL

-----------------------------------------------------------------------------
(* The errors of recovery.                                                 *)

\* An overdue sequencer that ends its wait with an error has asked the log for
\* the number it wants and has not found it (sequencer.rs:196-233).
LEMMA ErrorMeansMissing ==
  ASSUME SubProofs!Flow, "rpc" \notin SubFaults, Subscriber,
         pc = "listen", pc' # "listen", result' \in {"Status", "InvalidSequence"}
  PROVE  Sub!Heap!Buffered # {} /\ want_sequence \notin Log!Ids
<1>1. \A m, o : Sub!Take(m, o) => result' \in {"Message", "Malformed"}
  BY DEF Sub!Take, Sub!Return
<1>2. Sub!GetMessage \/ Sub!StreamFrom
  <2>1. ~ (Sub!SyncNext \/ Sub!SyncBroken \/ Sub!SyncFails \/ Sub!SyncDone
           \/ Sub!HeapNext \/ Sub!DropStale \/ Sub!Listen)
    BY DEF Sub!SyncNext, Sub!SyncBroken, Sub!SyncFails, Sub!SyncDone, Sub!Syncing,
           Sub!HeapNext, Sub!DropStale, Sub!Listen, Sub!Draining
  <2>2. ~ \E m \in sent : Sub!Receive(m)
    BY <1>1 DEF Sub!Receive
  <2>3. ~ (Sub!DecodeError \/ Sub!Elapse \/ Sub!Disconnect \/ Sub!RecoveryFails)
    BY DEF Sub!DecodeError, Sub!Elapse, Sub!Disconnect, Sub!RecoveryFails, Sub!Fail, Sub!Return
  <2>4. QED BY <2>1, <2>2, <2>3 DEF Subscriber, Recover
<1>3. CASE Sub!GetMessage
  <2>1. Sub!Heap!Buffered # {} /\ Sub!ReadSequence(want_sequence) = {}
    BY <1>1, <1>3 DEF Sub!GetMessage
  <2>2. QED BY <2>1 DEF Sub!ReadSequence, Log!Ids, Log!SequencesOf
<1>4. CASE Sub!StreamFrom
  <2> DEFINE rows == Sub!StreamFromSequence(want_sequence)
  <2>1. /\ Sub!Heap!Buffered # {}
        /\ rows = {} \/ Sub!First(rows).sequence # want_sequence
    BY <1>1, <1>4 DEF Sub!StreamFrom
  <2>2. rows = {m \in master_log : m.sequence >= want_sequence}
    BY DEF Sub!StreamFromSequence
  <2> HIDE DEF rows
  <2>3. /\ rows \in SUBSET Message
        /\ want_sequence \in Nat /\ \A m \in master_log : m.sequence \in Nat
    BY <2>2, SubAssumed DEF SubProofs!Flow, SubProofs!LogTypeOK, SubProofs!MessageAssumption
  <2>4. ASSUME NEW m \in master_log, m.sequence = want_sequence PROVE FALSE
    <3>1. m \in rows /\ rows # {}
      BY <2>2, <2>3, <2>4
    <3>2. /\ Sub!First(rows) \in rows
          /\ \A o \in rows : Sub!First(rows).sequence <= o.sequence
      BY <2>3, <3>1, SubAssumed, SubProofs!FirstExists, SameHelpers
    <3>3. Sub!First(rows).sequence <= want_sequence /\ Sub!First(rows).sequence >= want_sequence
      BY <2>2, <2>4, <3>1, <3>2
    <3>4. Sub!First(rows).sequence \in Nat
      BY <2>2, <2>3, <3>2
    <3>5. QED BY <2>1, <2>3, <3>1, <3>3, <3>4
  <2>5. QED BY <2>1, <2>4 DEF Log!Ids, Log!SequencesOf
<1>5. QED BY <1>2, <1>3, <1>4

\* When no number is lost, what recovery does not find for a waiting sequencer
\* is on its way to the log: the error is over when the publisher's insert is,
\* however the heartbeat task, the context and a second run race for the log
\* (heartbeat.rs:73-98, context.rs:66-87, sequencer.rs:196-233).
THEOREM MissingIsBeingWritten ==
  ASSUME Faults \subseteq {"send"}, "rpc" \notin SubFaults
  PROVE  SystemSpec => ErrorsAreTransient
<1> DEFINE Inv == Safe /\ NoNumberLost /\ SubProofs!Flow /\ SubProofs!Ahead
<1>1. SystemSpec => []Safe
  BY SystemRunsPublisher, SafeInvariant, PTL
<1>2. SystemSpec => []NoNumberLost
  BY SystemRunsPublisher, NoNumberIsLost, PTL
<1>3. SystemSpec => [](SubProofs!Flow /\ SubProofs!Ahead)
  BY SubAssumed, SubProofs!AlwaysAhead, SystemRunsSequencer, PTL
<1>4. ASSUME Inv, Subscriber, pc = "listen", pc' # "listen",
             result' \in {"Status", "InvalidSequence"}
      PROVE  want_sequence \in Sub!SequencesOf(writing)
  <2>1. Sub!Heap!Buffered # {} /\ want_sequence \notin Log!Ids
    BY <1>4, ErrorMeansMissing
  <2>2. PICK m \in master_log : m.sequence > want_sequence
    BY <1>4, <2>1, SameHeap DEF SubProofs!Flow, SubProofs!Ahead
  <2>3. /\ m.run \in Run /\ m.sequence < sequence[m.run]
        /\ sequence[m.run] \in Nat /\ m.sequence \in Nat
    BY <1>4, MaxSequenceAssumption
       DEF Safe, Stamps, BelowCounter, Seen, Typing, TypeOK, Message
  <2>4. want_sequence \in 0 .. sequence[m.run] - 1
    BY <1>4, <2>2, <2>3, SubAssumed DEF SubProofs!Flow, SubProofs!SequencerAssumption
  <2>5. want_sequence \in Log!Ids \union Log!SequencesOf(writing)
    BY <1>4, <2>3, <2>4 DEF NoNumberLost
  <2>6. QED BY <2>1, <2>5 DEF Log!SequencesOf, Sub!SequencesOf
<1>5. Inv /\ [SystemNext]_systemVars
        => [pc = "listen" /\ pc' # "listen" /\ result' \in {"Status", "InvalidSequence"}
              => want_sequence \in Sub!SequencesOf(writing)]_systemVars
  BY <1>4 DEF SystemNext, systemVars, subVars
<1>6. QED BY <1>1, <1>2, <1>3, <1>5, PTL DEF SystemSpec, ErrorsAreTransient
==============================================================================
