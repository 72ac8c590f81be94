-------------------------- MODULE Aggregator_proofs --------------------------
(***************************************************************************)
(* Proofs about Aggregator, for every set of watchers, every channel size, *)
(* every number of deltas and every set of faults.  NothingLost speaks of  *)
(* one long sequence; Chain says the same with a number for each place a   *)
(* delta can be in, which is what the steps move.  WaitingMeansCurrent     *)
(* rests on Versions: who saw version n has read at least n deltas.        *)
(***************************************************************************)
EXTENDS Aggregator, SequenceTheorems, TLAPS

\* The deltas 1, 2, ... in order
Counts(s) == \A i \in 1 .. Len(s) : s[i] = i

InHand == IF producer = "lock" THEN 1 ELSE 0
OnTheWay == IF reader = "send" THEN 1 ELSE 0

Chain ==
    /\ Counts(state)
    /\ Len(state) <= taken
    /\ reader = "send" => taken > 0
    /\ producer = "lock" => delta = Len(state) + 1
    /\ producer # "ended" =>
         /\ \A i \in 1 .. Len(queue) : queue[i] = Len(state) + InHand + i
         /\ Len(state) + InHand + Len(queue) + OnTheWay = taken

Versions ==
    /\ notified <= Len(state)
    /\ producer = "recv" => notified = Len(state)
    /\ \A w \in Watcher :
         /\ Counts(view[w])
         /\ Len(view[w]) <= Len(state)
         /\ seen[w] <= notified
         /\ watcher[w] \in {"none", "waiting", "reading"} => seen[w] <= Len(view[w])

IInv == TypeOK /\ Chain /\ Versions

-----------------------------------------------------------------------------
\* It holds before either task has run.
LEMMA InitHolds == Init => IInv
<1> SUFFICES ASSUME Init PROVE IInv
  OBVIOUS
<1>1. /\ << >> \in Seq(1 .. Last)
      /\ Len(<< >>) = 0
  BY EmptySeq
<1>2. TypeOK
  BY <1>1, AggregatorAssumption DEF Init, TypeOK
<1>3. Chain
  BY <1>1, AggregatorAssumption DEF Init, Chain, Counts, InHand, OnTheWay
<1>4. Versions
  BY <1>1 DEF Init, Versions, Counts
<1>5. QED BY <1>2, <1>3, <1>4 DEF IInv

\* What Append and Tail do to a sequence of deltas.
LEMMA Appended ==
  ASSUME NEW s \in Seq(1 .. Last), NEW n \in 1 .. Last
  PROVE  /\ Append(s, n) \in Seq(1 .. Last)
         /\ Len(Append(s, n)) = Len(s) + 1
         /\ \A i \in 1 .. Len(s) : Append(s, n)[i] = s[i]
         /\ Append(s, n)[Len(s) + 1] = n
BY AppendProperties

\* A sequence of deltas without its first one: recv takes it from the channel.
LEMMA Advanced ==
  ASSUME NEW s \in Seq(1 .. Last), s # << >>
  PROVE  /\ Head(s) \in 1 .. Last /\ Head(s) = s[1]
         /\ Tail(s) \in Seq(1 .. Last)
         /\ Len(s) > 0
         /\ Len(Tail(s)) = Len(s) - 1
         /\ \A i \in 1 .. Len(Tail(s)) : Tail(s)[i] = s[i + 1]
<1>1. Len(s) \in Nat \ {0}
  BY EmptySeq
<1>2. /\ Head(s) \in 1 .. Last
      /\ Tail(s) \in Seq(1 .. Last)
      /\ Len(Tail(s)) = Len(s) - 1
      /\ \A i \in 1 .. Len(Tail(s)) : Tail(s)[i] = s[i + 1]
  BY HeadTailProperties
<1>3. Head(s) = s[1]
  OBVIOUS
<1>4. QED BY <1>1, <1>2, <1>3

-----------------------------------------------------------------------------
\* Every step of the two tasks and the watchers keeps the types.
LEMMA TypePreserved == IInv /\ [Next]_vars => TypeOK'
<1> SUFFICES ASSUME IInv, [Next]_vars PROVE TypeOK'
  OBVIOUS
<1> USE AggregatorAssumption DEF IInv, producerVars, watcherVars
<1>1. CASE UNCHANGED vars
  BY <1>1 DEF vars, TypeOK
<1>2. CASE NextDelta
  BY <1>2 DEF NextDelta, TypeOK
<1>3. CASE StreamFails
  BY <1>3 DEF StreamFails, TypeOK
<1>4. CASE SendDelta
  <2>1. taken \in 1 .. Last /\ queue \in Seq(1 .. Last)
    BY <1>4 DEF SendDelta, Chain, TypeOK
  <2>2. CASE queue' = Append(queue, taken) /\ Len(queue) < Capacity /\ reader' = "next"
    <3>1. queue' \in Seq(1 .. Last) /\ Len(queue') = Len(queue) + 1
      BY <2>1, <2>2, Appended
    <3>2. Len(queue) \in Nat
      BY <2>1, LenProperties
    <3>3. Len(queue') <= Capacity
      BY <3>1, <3>2, <2>2
    <3>4. QED BY <3>1, <3>3, <2>2, <1>4 DEF SendDelta, TypeOK
  <2>3. CASE UNCHANGED queue /\ reader' = "ended"
    BY <2>3, <1>4 DEF SendDelta, TypeOK
  <2>4. QED BY <2>2, <2>3, <1>4 DEF SendDelta
<1>5. CASE ReceiveDelta
  <2>1. queue \in Seq(1 .. Last) /\ queue # << >>
    BY <1>5 DEF ReceiveDelta, TypeOK
  <2>2. delta' \in 0 .. Last /\ queue' \in Seq(1 .. Last) /\ Len(queue') = Len(queue) - 1
    BY <2>1, <1>5, Advanced DEF ReceiveDelta
  <2>3. Len(queue') <= Capacity
    <3>1. Len(queue) \in Nat
      BY <2>1, LenProperties
    <3>2. QED BY <3>1, <2>2 DEF TypeOK
  <2>4. QED BY <2>2, <2>3, <1>5 DEF ReceiveDelta, TypeOK
<1>6. CASE EndProducer /\ UNCHANGED <<taken, reader, watcherVars>>
  <2>1. << >> \in Seq(1 .. Last) /\ Len(<< >>) = 0
    BY EmptySeq
  <2>2. QED BY <2>1, <1>6 DEF EndProducer, TypeOK
<1>7. ASSUME state' = Append(state, delta), producer = "lock", producer' = "try",
             UNCHANGED <<queue, delta, notified, taken, reader, watcherVars>>
      PROVE  TypeOK'
  <2>1. Len(state) \in Nat
    BY LenProperties DEF TypeOK
  <2>2. delta \in 1 .. Last /\ state \in Seq(1 .. Last)
    BY <1>7, <2>1 DEF Chain, TypeOK
  <2>3. state' \in Seq(1 .. Last)
    BY <2>2, <1>7, Appended
  <2>4. QED BY <2>3, <1>7 DEF TypeOK
<1>8. ASSUME notified' = Len(state), producer' = "recv",
             UNCHANGED <<queue, delta, state, taken, reader, watcherVars>>
      PROVE  TypeOK'
  <2>1. Len(state) \in Nat
    BY LenProperties DEF TypeOK
  <2>2. Len(state) \in 0 .. Last
    BY <2>1 DEF Chain, TypeOK
  <2>3. notified' \in 0 .. Last
    BY <2>2, <1>8
  <2>4. /\ producer' \in {"recv", "try", "lock", "ended"}
        /\ taken' = taken /\ reader' = reader /\ queue' = queue /\ delta' = delta
        /\ state' = state /\ owner' = owner /\ watcher' = watcher
        /\ seen' = seen /\ view' = view
    BY <1>8
  <2> HIDE DEF watcherVars
  <2>5. QED BY <2>3, <2>4 DEF TypeOK
<1>9. ASSUME NEW w \in Watcher, Subscribe(w) \/ Changed(w) \/ Read(w) \/ Release(w)
      PROVE  TypeOK'
  <2>1. CASE Subscribe(w)
    BY <2>1 DEF Subscribe, TypeOK
  <2>2. CASE Changed(w)
    <3>1. /\ UNCHANGED <<taken, reader, queue, producer, delta, state, notified, owner, view>>
          /\ watcher' \in [Watcher -> {"none", "waiting", "locking", "reading", "gone"}]
          /\ seen' \in [Watcher -> 0 .. Last]
      BY <2>2 DEF Changed, TypeOK
    <3>2. QED BY <3>1 DEF TypeOK
  <2>3. CASE Read(w)
    BY <2>3 DEF Read, TypeOK
  <2>4. CASE Release(w)
    BY <2>4 DEF Release, TypeOK
  <2>5. QED BY <1>9, <2>1, <2>2, <2>3, <2>4
<1>10. CASE DropReceiver
  BY <1>10 DEF DropReceiver, TypeOK
<1>11. CASE ReceiveNone \/ ApplyDelta \/ Notify
  BY <1>11, <1>6, <1>7, <1>8 DEF ReceiveNone, ApplyDelta, Notify
<1>12. QED BY <1>1, <1>2, <1>3, <1>4, <1>5, <1>9, <1>10, <1>11 DEF Next

-----------------------------------------------------------------------------
\* A delta moves to the next place, or its place is given up.
LEMMA ChainPreserved == IInv /\ [Next]_vars => Chain'
<1> SUFFICES ASSUME IInv, [Next]_vars PROVE Chain'
  OBVIOUS
<1> USE AggregatorAssumption DEF IInv, producerVars, watcherVars
<1>0. /\ state \in Seq(1 .. Last) /\ Len(state) \in Nat
      /\ queue \in Seq(1 .. Last) /\ Len(queue) \in Nat
      /\ taken \in 0 .. Last
  BY LenProperties DEF TypeOK
<1>1. CASE UNCHANGED vars
  BY <1>1 DEF vars, Chain, Counts, InHand, OnTheWay
<1>2. CASE NextDelta
  <2>1. /\ reader = "next" /\ reader' = "send" /\ taken' = taken + 1
        /\ UNCHANGED <<queue, producer, delta, state>>
    BY <1>2 DEF NextDelta
  <2>2. OnTheWay = 0 /\ OnTheWay' = 1 /\ InHand' = InHand /\ InHand \in 0 .. 1
    BY <2>1 DEF OnTheWay, InHand
  <2>3. producer # "ended" => Len(state) + InHand + Len(queue) + 1 = taken + 1
    BY <2>2, <1>0 DEF Chain
  <2>4. Len(state) <= taken + 1 /\ taken + 1 > 0
    BY <1>0 DEF Chain
  <2>5. QED BY <2>1, <2>2, <2>3, <2>4 DEF Chain, Counts
<1>3. CASE StreamFails
  BY <1>3 DEF StreamFails, Chain, Counts, InHand, OnTheWay
<1>4. CASE SendDelta
  <2>1. taken \in 1 .. Last
    BY <1>0, <1>4 DEF SendDelta, Chain
  <2>2. CASE queue' = Append(queue, taken) /\ producer # "ended" /\ reader' = "next"
    <3>1. /\ Len(queue') = Len(queue) + 1
          /\ \A i \in 1 .. Len(queue) : queue'[i] = queue[i]
          /\ queue'[Len(queue) + 1] = taken
      BY <1>0, <2>1, <2>2, Appended
    <3>2. Len(state) + InHand + Len(queue) + 1 = taken
      BY <1>4, <2>2 DEF SendDelta, Chain, OnTheWay
    <3>3. \A i \in 1 .. Len(queue) : queue[i] = Len(state) + InHand + i
      BY <2>2 DEF Chain
    <3>4. InHand \in 0 .. 1 /\ InHand' = InHand
      BY <1>4 DEF SendDelta, InHand
    <3>5. ASSUME NEW i \in 1 .. Len(queue')
          PROVE  queue'[i] = Len(state) + InHand + i
      <4>1. CASE i = Len(queue) + 1
        BY <4>1, <3>1, <3>2, <3>4, <1>0
      <4>2. CASE i \in 1 .. Len(queue)
        BY <4>2, <3>1, <3>3
      <4>3. QED BY <4>1, <4>2, <3>1, <1>0
    <3>6. /\ \A i \in 1 .. Len(queue') : queue'[i] = Len(state)' + InHand' + i
          /\ Len(state)' + InHand' + Len(queue') + OnTheWay' = taken'
      BY <3>1, <3>2, <3>4, <3>5, <2>2, <1>0, <1>4 DEF SendDelta, OnTheWay
    <3>7. QED BY <3>6, <2>1, <1>4 DEF SendDelta, Chain, Counts
  <2>3. CASE UNCHANGED queue /\ reader' = "ended" /\ producer = "ended"
    BY <2>3, <1>4 DEF SendDelta, Chain, Counts
  <2>4. QED BY <2>2, <2>3, <1>4 DEF SendDelta
<1>5. CASE ReceiveDelta
  <2>1. queue # << >>
    BY <1>5 DEF ReceiveDelta
  <2>2. /\ delta' = queue[1]
        /\ Len(queue) > 0
        /\ Len(queue') = Len(queue) - 1
        /\ \A i \in 1 .. Len(queue') : queue'[i] = queue[i + 1]
    BY <2>1, <1>0, <1>5, Advanced DEF ReceiveDelta
  <2>3. delta' = Len(state) + 1
    BY <2>2, <1>0, <1>5 DEF ReceiveDelta, Chain, InHand
  <2>4. \A i \in 1 .. Len(queue') : queue'[i] = Len(state) + 1 + i
    BY <2>2, <1>0, <1>5 DEF ReceiveDelta, Chain, InHand
  <2>5. InHand = 0 /\ InHand' = 1 /\ OnTheWay' = OnTheWay
    BY <1>5 DEF ReceiveDelta, InHand, OnTheWay
  <2>6. Len(state) + Len(queue) + OnTheWay = taken
    BY <2>5, <1>0, <1>5 DEF ReceiveDelta, Chain
  <2>7. OnTheWay \in 0 .. 1
    BY DEF OnTheWay
  <2>8. Len(state) + 1 + Len(queue') + OnTheWay = taken
    <3>1. Len(queue') = Len(queue) - 1
      BY <2>2
    <3>2. Len(state) \in Int /\ Len(queue) \in Int
      BY <1>0
    <3> DEFINE s == Len(state)
               q == Len(queue)
               r == Len(queue')
    <3>3. s \in Int /\ q \in Int /\ r = q - 1 /\ s + q + OnTheWay = taken
      BY <3>1, <3>2, <2>6
    <3> HIDE DEF s, q, r
    <3>4. s + 1 + r + OnTheWay = taken
      BY <3>3, <2>7
    <3>5. QED BY <3>4 DEF s, r
  <2>9. QED BY <2>3, <2>4, <2>5, <2>8, <1>5 DEF ReceiveDelta, Chain, Counts
<1>6. CASE EndProducer /\ UNCHANGED <<taken, reader, watcherVars>>
  BY <1>6 DEF EndProducer, Chain, Counts
<1>7. ASSUME state' = Append(state, delta), producer = "lock", producer' = "try",
             UNCHANGED <<queue, delta, notified, taken, reader, watcherVars>>
      PROVE  Chain'
  <2>1. delta = Len(state) + 1 /\ Len(state) + 1 <= taken
    BY <1>7, <1>0 DEF Chain, InHand, OnTheWay
  <2>2. /\ Len(state') = Len(state) + 1
        /\ \A i \in 1 .. Len(state) : state'[i] = state[i]
        /\ state'[Len(state) + 1] = delta
    BY <2>1, <1>0, <1>7, Appended
  <2>3. Counts(state')
    BY <2>1, <2>2, <1>0 DEF Chain, Counts
  <2>4. QED BY <2>1, <2>2, <2>3, <1>0, <1>7 DEF Chain, Counts, InHand, OnTheWay
<1>8. CASE Notify /\ producer' = "recv"
  BY <1>8 DEF Notify, EndProducer, Chain, Counts, InHand, OnTheWay
<1>9. ASSUME NEW w \in Watcher, Subscribe(w) \/ Changed(w) \/ Read(w) \/ Release(w)
      PROVE  Chain'
  BY <1>9 DEF Subscribe, Changed, Read, Release, Chain, Counts, InHand, OnTheWay
<1>10. CASE DropReceiver
  BY <1>10 DEF DropReceiver, Chain, Counts, InHand, OnTheWay
<1>11. CASE ReceiveNone \/ ApplyDelta \/ Notify
  BY <1>11, <1>6, <1>7, <1>8 DEF ReceiveNone, ApplyDelta, Notify
<1>12. QED BY <1>1, <1>2, <1>3, <1>4, <1>5, <1>9, <1>10, <1>11 DEF Next

-----------------------------------------------------------------------------
\* A watcher sees a version no sooner than the deltas it announces.
LEMMA VersionsPreserved == IInv /\ [Next]_vars => Versions'
<1> SUFFICES ASSUME IInv, [Next]_vars PROVE Versions'
  OBVIOUS
<1> USE DEF IInv, producerVars, watcherVars
<1>0. /\ Len(state) \in Nat /\ notified \in Nat
      /\ \A w \in Watcher : Len(view[w]) \in Nat /\ seen[w] \in Nat
  BY LenProperties, AggregatorAssumption DEF TypeOK
<1>1. CASE UNCHANGED vars \/ NextDelta \/ StreamFails \/ SendDelta
  BY <1>1 DEF vars, NextDelta, StreamFails, SendDelta, Versions, Counts
<1>2. CASE ReceiveDelta
  BY <1>2 DEF ReceiveDelta, Versions, Counts
<1>3. CASE EndProducer /\ UNCHANGED <<taken, reader, watcherVars>>
  BY <1>3 DEF EndProducer, Versions, Counts
<1>4. ASSUME state' = Append(state, delta), producer = "lock", producer' = "try",
             UNCHANGED <<queue, delta, notified, taken, reader, watcherVars>>
      PROVE  Versions'
  <2>1. state \in Seq(1 .. Last) /\ delta \in 1 .. Last
    BY <1>4, <1>0, AggregatorAssumption DEF TypeOK, Chain
  <2>2. Len(state') = Len(state) + 1
    BY <2>1, <1>4, Appended
  <2>3. QED BY <2>2, <1>0, <1>4 DEF Versions, Counts
<1>5. CASE Notify /\ producer' = "recv"
  BY <1>5, <1>0 DEF Notify, EndProducer, Versions, Counts
<1>6. ASSUME NEW w \in Watcher, Subscribe(w) \/ Changed(w) \/ Release(w)
      PROVE  Versions'
  BY <1>6, <1>0 DEF Subscribe, Changed, Release, Versions, Counts, TypeOK
<1>7. ASSUME NEW w \in Watcher, Read(w)
      PROVE  Versions'
  <2>1. view' = [view EXCEPT ![w] = state] /\ view \in [Watcher -> Seq(1 .. Last)]
    BY <1>7 DEF Read, TypeOK
  <2>2. \A x \in Watcher : view'[x] = IF x = w THEN state ELSE view[x]
    BY <2>1
  <2>3. \A x \in Watcher : Counts(view'[x]) /\ Len(view'[x]) <= Len(state)
    BY <2>2, <1>0 DEF Versions, Chain, Counts
  <2>4. \A x \in Watcher : watcher'[x] \in {"none", "waiting", "reading"}
                              => seen[x] <= Len(view'[x])
    BY <2>2, <1>0, <1>7 DEF Read, Versions, TypeOK
  <2>5. QED BY <2>3, <2>4, <1>7 DEF Read, Versions, Counts
<1>8. CASE DropReceiver
  BY <1>8 DEF DropReceiver, Versions, Counts, TypeOK
<1>9. CASE ReceiveNone \/ ApplyDelta \/ Notify
  BY <1>9, <1>3, <1>4, <1>5 DEF ReceiveNone, ApplyDelta, Notify
<1>10. QED BY <1>1, <1>2, <1>6, <1>7, <1>8, <1>9 DEF Next

\* The types, the chain and the versions are inductive together.
LEMMA IInvHolds == Spec => []IInv
<1>1. IInv /\ [Next]_vars => IInv'
  BY TypePreserved, ChainPreserved, VersionsPreserved DEF IInv
<1>2. QED BY <1>1, InitHolds, PTL DEF Spec

-----------------------------------------------------------------------------
\* Every variable of the two tasks, the channel and the watchers keeps its
\* type, the bound of the channel included (aggregator.rs:33).
THEOREM TypeCorrect == Spec => []TypeOK
<1>1. IInv => TypeOK
  BY DEF IInv
<1>2. QED BY <1>1, IInvHolds, PTL

\* The places a delta can be in, in order, hold the deltas taken, in order.
LEMMA ChainIsNothingLost == IInv => NothingLost
<1> SUFFICES ASSUME IInv PROVE NothingLost
  OBVIOUS
<1> USE AggregatorAssumption DEF IInv
<1>0. /\ state \in Seq(1 .. Last) /\ Len(state) \in Nat
      /\ queue \in Seq(1 .. Last) /\ Len(queue) \in Nat
      /\ taken \in 0 .. Last
  BY LenProperties DEF TypeOK
<1>1. state = [i \in 1 .. Len(state) |-> i]
  BY <1>0, LenProperties DEF Chain, Counts
<1>2. ASSUME producer # "ended"
      PROVE  state \o If(producer = "lock", <<delta>>) \o queue
                \o If(reader = "send", <<taken>>) = [i \in 1 .. taken |-> i]
  <2> DEFINE held == If(producer = "lock", <<delta>>)
             last == If(reader = "send", <<taken>>)
  <2>1. /\ held \in Seq(1 .. Last) /\ Len(held) = InHand
        /\ \A i \in 1 .. InHand : held[i] = Len(state) + i
    <3>1. CASE producer = "lock"
      <4>1. delta \in 1 .. Last /\ delta = Len(state) + 1
        BY <3>1, <1>0 DEF Chain, TypeOK
      <4>2. QED BY <3>1, <4>1 DEF InHand, If
    <3>2. CASE producer # "lock"
      BY <3>2, EmptySeq DEF InHand, If
    <3>3. QED BY <3>1, <3>2
  <2>2. /\ last \in Seq(1 .. Last) /\ Len(last) = OnTheWay
        /\ \A i \in 1 .. OnTheWay : last[i] = taken
    <3>1. CASE reader = "send"
      <4>1. taken \in 1 .. Last
        BY <3>1, <1>0 DEF Chain
      <4>2. QED BY <3>1, <4>1 DEF OnTheWay, If
    <3>2. CASE reader # "send"
      BY <3>2, EmptySeq DEF OnTheWay, If
    <3>3. QED BY <3>1, <3>2
  <2> HIDE DEF held, last
  <2>3. InHand \in 0 .. 1 /\ OnTheWay \in 0 .. 1
    BY DEF InHand, OnTheWay
  <2> DEFINE one == state \o held
             two == one \o queue
             all == two \o last
  <2>4. /\ one \in Seq(1 .. Last) /\ Len(one) = Len(state) + InHand
        /\ \A i \in 1 .. Len(state) + InHand : one[i] = i
    <3>1. /\ one \in Seq(1 .. Last) /\ Len(one) = Len(state) + Len(held)
          /\ \A i \in 1 .. Len(state) + Len(held) :
                one[i] = IF i <= Len(state) THEN state[i] ELSE held[i - Len(state)]
      BY <1>0, <2>1, ConcatProperties
    <3> HIDE DEF one
    <3>2. ASSUME NEW i \in 1 .. Len(state) + InHand PROVE one[i] = i
      <4>1. CASE i <= Len(state)
        <5>1. state[i] = i
          BY <4>1, <1>0, <2>3 DEF Chain, Counts
        <5>2. i \in 1 .. Len(state) + Len(held)
          BY <2>1
        <5>3. QED BY <5>1, <5>2, <4>1, <3>1
      <4>2. CASE i > Len(state)
        <5>1. i - Len(state) \in 1 .. InHand
          BY <4>2, <1>0, <2>3
        <5>2. held[i - Len(state)] = i
          BY <5>1, <1>0, <2>1
        <5>3. QED BY <5>2, <4>2, <3>1, <1>0, <2>1, <2>3
      <4>3. QED BY <4>1, <4>2, <1>0
    <3>3. QED BY <3>1, <3>2, <2>1
  <2> HIDE DEF one
  <2>5. /\ two \in Seq(1 .. Last) /\ Len(two) = Len(state) + InHand + Len(queue)
        /\ \A i \in 1 .. Len(state) + InHand + Len(queue) : two[i] = i
    <3>1. /\ two \in Seq(1 .. Last) /\ Len(two) = Len(one) + Len(queue)
          /\ \A i \in 1 .. Len(one) + Len(queue) :
                two[i] = IF i <= Len(one) THEN one[i] ELSE queue[i - Len(one)]
      BY <1>0, <2>4, ConcatProperties
    <3> HIDE DEF two
    <3>2. Len(one) = Len(state) + InHand /\ Len(one) \in Nat
      BY <1>0, <2>3, <2>4
    <3>3. \A i \in 1 .. Len(queue) : queue[i] = Len(one) + i
      BY <1>2, <3>2 DEF Chain
    <3>4. ASSUME NEW i \in 1 .. Len(one) + Len(queue) PROVE two[i] = i
      <4>1. CASE i <= Len(one)
        BY <4>1, <3>1, <3>2, <2>4
      <4>2. CASE i > Len(one)
        <5>1. i - Len(one) \in 1 .. Len(queue)
          BY <4>2, <3>2, <1>0
        <5>2. queue[i - Len(one)] = i
          BY <5>1, <3>2, <3>3
        <5>3. QED BY <5>2, <4>2, <3>1, <3>2
      <4>3. QED BY <4>1, <4>2, <3>2
    <3>5. QED BY <3>1, <3>2, <3>4
  <2> HIDE DEF two
  <2>6. all \in Seq(1 .. Last) /\ Len(all) = taken /\ \A i \in 1 .. taken : all[i] = i
    <3>1. /\ all \in Seq(1 .. Last) /\ Len(all) = Len(two) + Len(last)
          /\ \A i \in 1 .. Len(two) + Len(last) :
                all[i] = IF i <= Len(two) THEN two[i] ELSE last[i - Len(two)]
      BY <2>2, <2>5, ConcatProperties
    <3> HIDE DEF all
    <3>2. Len(two) + OnTheWay = taken
      BY <2>5, <1>2 DEF Chain
    <3>3. QED BY <3>1, <3>2, <1>0, <2>2, <2>3, <2>5
  <2> HIDE DEF all
  <2>7. all = [i \in 1 .. taken |-> i]
    BY <2>6, LenProperties
  <2>8. QED BY <2>7 DEF all, two, one, held, last
<1>3. QED BY <1>1, <1>2 DEF NothingLost

\* No delta is lost, repeated or overtaken between the stream and the shared
\* state, for any channel size (aggregator.rs:36-91).
THEOREM NothingIsLost == Spec => []NothingLost
BY ChainIsNothingLost, IInvHolds, PTL

\* A watcher that waits while the snapshot task sleeps has read everything
\* applied so far (aggregator.rs:60-83).
THEOREM WaitingIsCurrent == Spec => []WaitingMeansCurrent
<1>1. IInv => WaitingMeansCurrent
  <2>1. SUFFICES ASSUME IInv, producer = "recv",
                        NEW w \in Watcher, watcher[w] = "waiting", seen[w] = notified
                 PROVE  view[w] = state
    BY DEF WaitingMeansCurrent
  <2>2. /\ state \in Seq(1 .. Last) /\ view[w] \in Seq(1 .. Last)
        /\ Len(state) \in Nat /\ Len(view[w]) \in Nat
    BY <2>1, LenProperties DEF IInv, TypeOK
  <2>3. Len(view[w]) = Len(state)
    BY <2>1, <2>2 DEF IInv, Versions
  <2>4. \A i \in 1 .. Len(state) : view[w][i] = state[i]
    BY <2>1, <2>3 DEF IInv, Versions, Chain, Counts
  <2>5. QED BY <2>2, <2>3, <2>4, SeqEqual
<1>2. QED BY <1>1, IInvHolds, PTL
==============================================================================
