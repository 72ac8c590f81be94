--------------------------- MODULE Sequencer_proofs ---------------------------
(***************************************************************************)
(* Proofs about Sequencer, for every set of messages, every start and      *)
(* every set of faults.  What flows through the sequencer comes from the   *)
(* log (Flow); every step is a step of the heap module, so the theorems    *)
(* about the heap hold of the sequencer's buffer; from the two follow the  *)
(* refinement of OrderedStream and the properties the runs check.          *)
(***************************************************************************)
EXTENDS Sequencer, SequenceTheorems, TLAPS

HeapProofs == INSTANCE MinMaxHeap_proofs

\* The messages and bounds are what the heap's theorems ask for.
LEMMA HeapAssumed == HeapProofs!HeapAssumption
BY MessageAssumption, SequencerAssumption DEF HeapProofs!HeapAssumption

-----------------------------------------------------------------------------
(* Layer 1: what flows through the sequencer.                              *)

Flow ==
    /\ LogTypeOK
    /\ sent \subseteq master_log
    /\ Heap!Buffered \subseteq sent
    /\ recovery_stream = None \/ recovery_stream \subseteq master_log
    /\ expired \in BOOLEAN
    /\ connected \in BOOLEAN
    /\ pc \in {"next", "listen", "stopped"}
    /\ result \in Results
    /\ delivered \in Seq([msg : Message, origin : {"Udp", "Missing", "Sync"}, ok : BOOLEAN])
    /\ want_sequence = Start + Len(delivered)

\* The row a snapshot yields next is a row of it, and the least one.
LEMMA FirstExists ==
  ASSUME NEW S \in SUBSET Message, S # {}
  PROVE  First(S) \in S /\ \A o \in S : First(S).sequence <= o.sequence
<1>1. SequencesOf(S) \in SUBSET Nat /\ SequencesOf(S) # {}
  BY MessageAssumption DEF SequencesOf
<1>2. PICK lo \in SequencesOf(S) : \A n \in SequencesOf(S) : lo <= n
  BY <1>1, HeapAssumed, HeapProofs!NatMin
<1>3. PICK m \in S : m.sequence = lo
  BY DEF SequencesOf
<1>4. \A o \in S : m.sequence <= o.sequence
  BY <1>2, <1>3 DEF SequencesOf
<1>5. QED BY <1>3, <1>4 DEF First

\* next() hands out m: the stream grows by one and so does want_sequence.
LEMMA TakeFlow ==
  ASSUME Flow, NEW m \in Message, NEW o \in {"Udp", "Missing", "Sync"}, Take(m, o)
  PROVE  /\ delivered' \in Seq([msg : Message, origin : {"Udp", "Missing", "Sync"}, ok : BOOLEAN])
         /\ want_sequence' = Start + Len(delivered')
         /\ Messages' = Append(Messages, m)
         /\ result' \in {"Message", "Malformed"}
         /\ pc' \in {"next", "stopped"}
         /\ expired' = FALSE
         /\ want_sequence' = want_sequence + 1
<1> DEFINE R == [msg : Message, origin : {"Udp", "Missing", "Sync"}, ok : BOOLEAN]
<1>1. PICK ok \in BOOLEAN :
        /\ delivered' = Append(delivered, [msg |-> m, origin |-> o, ok |-> ok])
        /\ Return(IF ok THEN "Message" ELSE "Malformed")
  BY DEF Take
<1> DEFINE e == [msg |-> m, origin |-> o, ok |-> ok]
<1>2. e \in R /\ e.msg = m
  OBVIOUS
<1>3. delivered \in Seq(R)
  BY DEF Flow
<1>4. delivered' = Append(delivered, e)
  BY <1>1
<1> HIDE DEF e, R
<1>5. /\ delivered' \in Seq(R)
      /\ Len(delivered') = Len(delivered) + 1
      /\ \A i \in 1 .. Len(delivered) : delivered'[i] = delivered[i]
      /\ delivered'[Len(delivered) + 1] = e
      /\ DOMAIN delivered' = 1 .. Len(delivered) + 1
      /\ DOMAIN delivered = 1 .. Len(delivered)
      /\ Len(delivered) \in Nat
  BY <1>2, <1>3, <1>4
<1>6. want_sequence' = want_sequence + 1 /\ expired' = FALSE
  BY DEF Take
<1>7. want_sequence' = Start + Len(delivered')
  BY <1>5, <1>6, SequencerAssumption DEF Flow
<1>8. Messages' = Append(Messages, m)
  <2>1. Messages = [i \in 1 .. Len(delivered) |-> delivered[i].msg]
    BY <1>5 DEF Messages
  <2>2. \A i \in 1 .. Len(delivered) : delivered[i] \in R /\ delivered[i].msg \in Message
    <3>1. \A i \in 1 .. Len(delivered) : delivered[i] \in R
      BY <1>3, ElementOfSeq
    <3>2. \A r \in R : r.msg \in Message
      BY DEF R
    <3>3. QED BY <3>1, <3>2
  <2>3. Len(Messages) = Len(delivered) /\ Messages \in Seq(Message)
    BY <2>1, <2>2, <1>5
  <2>4. Messages' = [i \in 1 .. Len(delivered) + 1 |-> delivered'[i].msg]
    BY <1>5 DEF Messages
  <2>5. \A i \in 1 .. Len(delivered) + 1 :
          delivered'[i].msg = IF i = Len(delivered) + 1 THEN m ELSE Messages[i]
    BY <1>2, <1>5, <2>1
  <2>6. Messages' \in Seq(Message) /\ Len(Messages') = Len(delivered) + 1
    <3>1. \A i \in 1 .. Len(delivered) + 1 : delivered'[i].msg \in Message
      BY <2>1, <2>2, <2>5, <1>5
    <3>2. QED BY <2>4, <3>1, <1>5
  <2>7. /\ Append(Messages, m) \in Seq(Message)
        /\ Len(Append(Messages, m)) = Len(delivered) + 1
        /\ \A i \in 1 .. Len(delivered) : Append(Messages, m)[i] = Messages[i]
        /\ Append(Messages, m)[Len(delivered) + 1] = m
    BY <2>3, AppendProperties
  <2>8. \A i \in 1 .. Len(delivered) + 1 : Messages'[i] = Append(Messages, m)[i]
    BY <2>4, <2>5, <2>7, <1>5
  <2>9. QED BY <2>6, <2>7, <2>8, SeqEqual
<1>9. result' \in {"Message", "Malformed"} /\ pc' \in {"next", "stopped"}
  BY <1>1 DEF Return
<1>10. QED BY <1>5, <1>6, <1>7, <1>8, <1>9 DEF R

\* What push and pop do to the set of buffered messages.
LEMMA PushBuffered == ASSUME NEW m, Heap!Push(m) PROVE Heap!Buffered' = Heap!Buffered \union {m}
BY DEF Heap!Push, Heap!Buffered, Heap!Bag!BagAdd

\* A pop adds no message.
LEMMA PopBuffered == ASSUME NEW m, Heap!Pop(m) PROVE Heap!Buffered' \subseteq Heap!Buffered
BY DEF Heap!Pop, Heap!Buffered, Heap!Bag!BagRemove

\* Nothing flows at first.
LEMMA InitFlow == Init => Flow
<1>1. SUFFICES ASSUME Init PROVE Flow
  OBVIOUS
<1>2. /\ LogTypeOK /\ sent \subseteq master_log
      /\ Heap!Buffered \subseteq sent
  BY <1>1 DEF Init, LogInit, LogTypeOK, Heap!Init, Heap!Empty, Heap!Buffered
<1>3. /\ delivered = << >> /\ want_sequence = Start /\ recovery_stream = None
      /\ expired \in BOOLEAN /\ connected \in BOOLEAN
      /\ pc = "next" /\ result \in Results
  BY <1>1 DEF Init, Results
<1>4. Len(<< >>) = 0 /\ \A S : << >> \in Seq(S)
  BY EmptySeq
<1>5. want_sequence = Start + Len(delivered)
  BY <1>3, <1>4, SequencerAssumption
<1>6. QED BY <1>2, <1>3, <1>4, <1>5 DEF Flow

\* What a step hands to the application: nothing, or the wanted row of the log.
Handed ==
    \/ Messages' = Messages
    \/ \E m \in master_log : m.sequence = want_sequence /\ Messages' = Append(Messages, m)

\* What was handed out is the same if the history is.
LEMMA SameMessages == UNCHANGED delivered => Messages' = Messages
BY DEF Messages

\* The four ways of taking a message.
LEMMA TakeFlows ==
  ASSUME Flow, UNCHANGED logVars, NEW m \in master_log, NEW o \in {"Udp", "Missing", "Sync"},
         m.sequence = want_sequence, Take(m, o),
         Heap!Buffered' \subseteq Heap!Buffered,
         recovery_stream' = None \/ recovery_stream' \subseteq master_log,
         connected' \in BOOLEAN
  PROVE  Flow' /\ Handed
<1>1. m \in Message
  BY DEF Flow, LogTypeOK
<1>2. /\ delivered' \in Seq([msg : Message, origin : {"Udp", "Missing", "Sync"}, ok : BOOLEAN])
      /\ want_sequence' = Start + Len(delivered')
      /\ Messages' = Append(Messages, m)
      /\ result' \in {"Message", "Malformed"}
      /\ pc' \in {"next", "stopped"}
      /\ expired' = FALSE
  BY <1>1, TakeFlow
<1>3. Flow'
  BY <1>2 DEF Flow, LogTypeOK, logVars, Results
<1>4. QED BY <1>2, <1>3 DEF Handed

\* The ways of returning or going on without one.
LEMMA IdleFlows ==
  ASSUME Flow, UNCHANGED <<logVars, want_sequence, delivered>>,
         Heap!Buffered' \subseteq sent,
         recovery_stream' = None \/ recovery_stream' \subseteq master_log,
         connected' \in BOOLEAN, expired' \in BOOLEAN,
         pc' \in {"next", "listen", "stopped"}, result' \in Results
  PROVE  Flow' /\ Handed
BY SameMessages DEF Flow, LogTypeOK, logVars, Handed

\* What is buffered is the same if the heap is.
LEMMA HeapKept == UNCHANGED heapFields => Heap!Buffered' = Heap!Buffered
BY DEF heapFields, Heap!Buffered

\* A step of the sequencer keeps the flow and hands out the wanted row, or none.
LEMMA SubFlows == Flow /\ SubNext => Flow' /\ Handed
<1>1. SUFFICES ASSUME Flow, SubNext PROVE Flow' /\ Handed
  OBVIOUS
<1> USE <1>1
<1>2. CASE SyncNext
  <2> DEFINE f == First(recovery_stream)
  <2>1. recovery_stream \subseteq master_log /\ recovery_stream \in SUBSET Message
    BY <1>2 DEF SyncNext, Syncing, Flow, LogTypeOK
  <2>2. f \in master_log
    BY <1>2, <2>1, FirstExists DEF SyncNext
  <2>3. /\ f.sequence = want_sequence /\ Take(f, "Sync")
        /\ recovery_stream' \subseteq master_log
        /\ UNCHANGED logVars /\ UNCHANGED heapFields /\ connected' \in BOOLEAN
    BY <1>2, <2>1 DEF SyncNext, Flow
  <2> HIDE DEF f
  <2>4. QED BY <2>2, <2>3, HeapKept, TakeFlows
<1>3. CASE SyncBroken
  <2>1. recovery_stream \subseteq master_log
    BY <1>3 DEF SyncBroken, Syncing, Flow
  <2>2. recovery_stream' \subseteq master_log
    BY <1>3, <2>1 DEF SyncBroken
  <2>3. QED
    BY <1>3, <2>2, HeapKept, IdleFlows DEF SyncBroken, Fail, Return, Flow, Results
<1>4. CASE SyncFails
  BY <1>4, HeapKept, IdleFlows DEF SyncFails, Fail, Return, Flow, Results
<1>5. CASE SyncDone
  BY <1>5, HeapKept, IdleFlows DEF SyncDone, Flow
<1>6. CASE HeapNext
  <2>1. PICK m \in Heap!Least : m.sequence = want_sequence /\ Heap!Pop(m) /\ Take(m, "Udp")
    BY <1>6 DEF HeapNext
  <2>2. m \in master_log
    BY DEF Heap!Least, Flow
  <2>3. /\ UNCHANGED logVars /\ connected' \in BOOLEAN
        /\ recovery_stream' = None
    BY <1>6 DEF HeapNext, Draining, Flow
  <2>4. QED BY <2>1, <2>2, <2>3, PopBuffered, TakeFlows
<1>7. CASE DropStale
  <2>1. Heap!Buffered' \subseteq sent
    BY <1>7, PopBuffered DEF DropStale, Flow
  <2>2. QED BY <1>7, <2>1, IdleFlows DEF DropStale, Flow
<1>8. CASE Listen
  <2>1. expired' \in BOOLEAN
    BY <1>8 DEF Listen, Flow
  <2>2. QED BY <1>8, <2>1, HeapKept, IdleFlows DEF Listen, Flow
<1>9. ASSUME NEW m \in sent, Receive(m) PROVE Flow' /\ Handed
  <2>1. /\ UNCHANGED logVars /\ connected' \in BOOLEAN /\ m \in master_log
        /\ recovery_stream' = recovery_stream
    BY <1>9 DEF Receive, Flow
  <2>2. CASE m.sequence = want_sequence /\ Take(m, "Udp") /\ UNCHANGED heapFields
    <3>1. recovery_stream' = None \/ recovery_stream' \subseteq master_log
      BY <2>1 DEF Flow
    <3>2. QED BY <2>1, <2>2, <3>1, HeapKept, TakeFlows
  <2>3. CASE /\ Heap!Push(m) \/ UNCHANGED heapFields
             /\ UNCHANGED <<want_sequence, expired, pc, result, delivered>>
    <3>1. Heap!Buffered' \subseteq sent
      BY <2>3, HeapKept, PushBuffered DEF Flow
    <3>2. QED BY <2>1, <2>3, <3>1, IdleFlows DEF Flow
  <2>4. QED BY <1>9, <2>2, <2>3 DEF Receive
<1>10. CASE DecodeError
  BY <1>10, HeapKept, IdleFlows DEF DecodeError, Fail, Return, Flow, Results
<1>11. CASE Elapse
  BY <1>11, HeapKept, IdleFlows DEF Elapse, Flow
<1>12. CASE Disconnect
  BY <1>12, HeapKept, IdleFlows DEF Disconnect, Return, Flow, Results
<1>13. CASE GetMessage
  <2>1. /\ UNCHANGED logVars /\ UNCHANGED heapFields
        /\ recovery_stream' = recovery_stream /\ connected' = connected
    BY <1>13 DEF GetMessage
  <2>2. ASSUME NEW m \in ReadSequence(want_sequence), Take(m, "Missing")
        PROVE  Flow' /\ Handed
    <3>1. m \in master_log /\ m.sequence = want_sequence
      BY DEF ReadSequence
    <3>2. recovery_stream' = None \/ recovery_stream' \subseteq master_log
      BY <2>1 DEF Flow
    <3>3. connected' \in BOOLEAN
      BY <2>1 DEF Flow
    <3>4. QED BY <2>1, <2>2, <3>1, <3>2, <3>3, HeapKept, TakeFlows
  <2>3. CASE Fail("Status")
    BY <2>1, <2>3, HeapKept, IdleFlows DEF Fail, Return, Flow, Results
  <2>4. QED BY <1>13, <2>2, <2>3 DEF GetMessage
<1>14. CASE StreamFrom
  <2> DEFINE rows == StreamFromSequence(want_sequence)
             f == First(rows)
  <2>1. /\ UNCHANGED logVars /\ UNCHANGED heapFields /\ connected' = connected
    BY <1>14 DEF StreamFrom
  <2>2. rows \subseteq master_log /\ rows \in SUBSET Message
    BY DEF StreamFromSequence, Flow, LogTypeOK
  <2>3. CASE /\ Fail("EmptyStream") \/ Fail("InvalidSequence")
             /\ UNCHANGED recovery_stream
    BY <2>1, <2>3, HeapKept, IdleFlows DEF Fail, Return, Flow, Results
  <2>4. CASE /\ rows # {} /\ f.sequence = want_sequence
             /\ Take(f, "Sync") /\ recovery_stream' = rows \ {f}
    <3>1. f \in master_log
      BY <2>2, <2>4, FirstExists
    <3>2. recovery_stream' \subseteq master_log
      BY <2>2, <2>4
    <3>3. connected' \in BOOLEAN
      BY <2>1 DEF Flow
    <3> HIDE DEF f, rows
    <3>4. QED BY <2>1, <2>4, <3>1, <3>2, <3>3, HeapKept, TakeFlows
  <2>5. QED BY <1>14, <2>3, <2>4 DEF StreamFrom
<1>15. CASE RecoveryFails
  BY <1>15, HeapKept, IdleFlows DEF RecoveryFails, Fail, Return, Flow, Results
<1>16. QED
  BY <1>2, <1>3, <1>4, <1>5, <1>6, <1>7, <1>8, <1>9, <1>10, <1>11, <1>12, <1>13,
     <1>14, <1>15 DEF SubNext

\* A step of the publisher keeps the flow and hands out nothing.
LEMMA LogFlows ==
  ASSUME Flow, LogNext, UNCHANGED subVars
  PROVE  Flow' /\ Messages' = Messages
<1>1. Flow'
  BY DEF Flow, LogTypeOK, LogNext, Record, Multicast, subVars, Heap!Buffered
<1>2. QED BY <1>1, SameMessages DEF subVars

\* Layer 1 is kept by every step.
LEMMA FlowInductive == Flow /\ [Next]_vars => Flow'
<1>1. CASE UNCHANGED vars
  BY <1>1 DEF Flow, LogTypeOK, vars, subVars, logVars, Heap!Buffered
<1>2. QED BY <1>1, SubFlows, LogFlows DEF Next

\* The sequencer keeps its promise whatever is lost, repeated, reordered or
\* fails: its stream is the log in order.  One step hands out at most one
\* message, which is the wanted row.
THEOREM SequencerImplementsOrderedStream == Spec => ImplementsOrderedStream
<1>1. Init => Ordered!StreamInit
  <2>1. SUFFICES ASSUME Init PROVE Ordered!StreamInit
    OBVIOUS
  <2>2. delivered = << >> /\ LogInit
    BY <2>1 DEF Init
  <2>3. Messages = << >>
    <3>1. DOMAIN delivered = {}
      BY <2>2
    <3>2. Messages = [i \in {} |-> delivered[i].msg]
      BY <3>1 DEF Messages
    <3>3. QED BY <3>2
  <2>4. QED BY <2>2, <2>3 DEF LogInit, Ordered!StreamInit, Ordered!LogInit
<1>2. Flow /\ [Next]_vars => [Ordered!StreamNext]_Ordered!streamVars
  <2>1. SUFFICES ASSUME Flow, [Next]_vars
                 PROVE  [Ordered!StreamNext]_Ordered!streamVars
    OBVIOUS
  <2>2. CASE SubNext
    <3>1. UNCHANGED logVars
      BY <2>2 DEF SubNext, SyncNext, SyncBroken, SyncFails, SyncDone, HeapNext, DropStale,
         Listen, Receive, DecodeError, Elapse, Disconnect, GetMessage, StreamFrom, RecoveryFails
    <3>2. Handed
      BY <2>1, <2>2, SubFlows
    <3>3. CASE Messages' = Messages
      BY <3>1, <3>3 DEF Ordered!streamVars, logVars
    <3>4. ASSUME NEW m \in master_log, m.sequence = want_sequence, Messages' = Append(Messages, m)
          PROVE  Ordered!StreamNext
      <4>1. Len(Messages) = Len(delivered)
        <5>1. Len(delivered) \in Nat /\ DOMAIN delivered = 1 .. Len(delivered)
          BY <2>1 DEF Flow
        <5>2. QED BY <5>1 DEF Messages
      <4>2. m.sequence = Start + Len(Messages)
        BY <2>1, <3>4, <4>1 DEF Flow
      <4>3. QED BY <3>1, <3>4, <4>2 DEF Ordered!StreamNext, Ordered!Deliver, Ordered!logVars, logVars
    <3>5. QED BY <3>2, <3>3, <3>4 DEF Handed
  <2>3. CASE LogNext /\ UNCHANGED subVars
    <3>1. Messages' = Messages
      BY <2>1, <2>3, LogFlows
    <3>2. Ordered!LogNext
      BY <2>3 DEF LogNext, Record, Multicast, Ids, SequencesOf,
         Ordered!LogNext, Ordered!Record, Ordered!Multicast, Ordered!Ids, Ordered!SequencesOf
    <3>3. QED BY <3>1, <3>2 DEF Ordered!StreamNext
  <2>4. CASE UNCHANGED vars
    BY <2>4, SameMessages DEF vars, subVars, logVars, Ordered!streamVars
  <2>5. QED BY <2>1, <2>2, <2>3, <2>4 DEF Next
<1>3. QED
  BY <1>1, <1>2, InitFlow, FlowInductive, PTL
  DEF Spec, ImplementsOrderedStream, Ordered!StreamSpec

-----------------------------------------------------------------------------
(* Layer 2: the buffer.  Every step is a step of MinMaxHeap, so what is    *)
(* proved there holds here.                                                *)

\* The sequencer calls its heap only through push and pop.
LEMMA UsesHeap == Spec => HeapProofs!Spec
<1>1. Init => HeapProofs!Init
  BY DEF Init, Heap!Init, Heap!Empty, HeapProofs!Init, HeapProofs!Empty
<1>2. ASSUME NEW m, Heap!Push(m) PROVE HeapProofs!Push(m)
  BY <1>2 DEF Heap!Push, Heap!Bag!BagAdd, HeapProofs!Push, HeapProofs!Bag!BagAdd
<1>3. ASSUME NEW m, Heap!Pop(m) PROVE HeapProofs!Pop(m)
  BY <1>3 DEF Heap!Pop, Heap!Bag!BagRemove, Heap!Least, Heap!Buffered,
     HeapProofs!Pop, HeapProofs!Bag!BagRemove, HeapProofs!Least, HeapProofs!Buffered
<1>4. Flow /\ [Next]_vars => [HeapProofs!Next]_HeapProofs!heapVars
  <2>1. SUFFICES ASSUME Flow, [Next]_vars
                 PROVE  [HeapProofs!Next]_HeapProofs!heapVars
    OBVIOUS
  <2>2. CASE UNCHANGED heapFields
    BY <2>2 DEF heapFields, HeapProofs!heapVars
  <2>3. ASSUME NEW m \in Message, Heap!Push(m) \/ Heap!Pop(m)
        PROVE  HeapProofs!Next
    BY <2>3, <1>2, <1>3 DEF HeapProofs!Next
  <2>4. CASE HeapNext \/ DropStale
    <3>1. PICK m \in Heap!Least : Heap!Pop(m)
      BY <2>4 DEF HeapNext, DropStale
    <3>2. m \in Message
      BY <2>1 DEF Heap!Least, Flow, LogTypeOK
    <3>3. QED BY <3>1, <3>2, <2>3
  <2>5. ASSUME NEW m \in sent, Receive(m)
        PROVE  UNCHANGED heapFields \/ (m \in Message /\ Heap!Push(m))
    BY <2>1, <2>5 DEF Receive, Flow, LogTypeOK
  <2>6. ASSUME \/ SyncNext \/ SyncBroken \/ SyncFails \/ SyncDone \/ Listen \/ DecodeError
               \/ Elapse \/ Disconnect \/ GetMessage \/ StreamFrom \/ RecoveryFails
               \/ UNCHANGED subVars \/ UNCHANGED vars
        PROVE  UNCHANGED heapFields
    BY <2>6 DEF SyncNext, SyncBroken, SyncFails, SyncDone, Listen, DecodeError, Elapse,
       Disconnect, GetMessage, StreamFrom, RecoveryFails, heapFields, subVars, vars
  <2>7. QED BY <2>1, <2>2, <2>3, <2>4, <2>5, <2>6 DEF Next, SubNext
<1>5. QED
  BY <1>1, <1>4, InitFlow, FlowInductive, PTL DEF Spec, HeapProofs!Spec

\* The theorems about the heap, as they hold of the sequencer.
LEMMA HeapFacts == Spec => [](Heap!TypeOK /\ Heap!MaxIdExact /\ Heap!GapsExact)
<1>1. HeapProofs!Spec => [](HeapProofs!TypeOK /\ HeapProofs!MaxIdExact /\ HeapProofs!GapsExact)
  <2>1. HeapProofs!Spec => []HeapProofs!TypeOK
    BY HeapAssumed, HeapProofs!HeapTypeCorrect
  <2>2. HeapProofs!Spec => []HeapProofs!MaxIdExact
    BY HeapAssumed, HeapProofs!HeapMaximumIsExact
  <2>3. HeapProofs!Spec => []HeapProofs!GapsExact
    BY HeapAssumed, HeapProofs!HeapGapsAreExact
  <2>4. QED BY <2>1, <2>2, <2>3, PTL
<1>2. HeapProofs!TypeOK => Heap!TypeOK
  BY DEF HeapProofs!TypeOK, HeapProofs!Buffered, Heap!TypeOK, Heap!Buffered
<1>3. HeapProofs!MaxIdExact => Heap!MaxIdExact
  BY DEF HeapProofs!MaxIdExact, HeapProofs!Buffered, HeapProofs!BufferedIds,
     Heap!MaxIdExact, Heap!Buffered, Heap!BufferedIds
<1>4. HeapProofs!GapsExact => Heap!GapsExact
  <2>1. HeapProofs!Least = Heap!Least
    BY DEF HeapProofs!Least, HeapProofs!Buffered, Heap!Least, Heap!Buffered
  <2>2. HeapProofs!CountMissing = Heap!CountMissing
    <3> DEFINE top1 == CHOOSE m \in HeapProofs!Least : TRUE
               top2 == CHOOSE m \in Heap!Least : TRUE
               n1 == HeapProofs!Cardinality(DOMAIN counter)
               n2 == Heap!Cardinality(DOMAIN counter)
    <3>1. n1 = n2
      BY Zenon DEF HeapProofs!Cardinality, Heap!Cardinality
    <3>2. top1 = top2
      BY <2>1, Zenon
    <3>3. HeapProofs!CountMissing =
            IF max_id = None THEN 0 ELSE max_id - top1.sequence + 1 - n1
      BY DEF HeapProofs!CountMissing
    <3>4. Heap!CountMissing =
            IF max_id = None THEN 0 ELSE max_id - top2.sequence + 1 - n2
      BY DEF Heap!CountMissing
    <3> HIDE DEF top1, top2, n1, n2
    <3>5. QED BY <3>1, <3>2, <3>3, <3>4
  <2>3. HeapProofs!HasGaps <=> Heap!HasGaps
    BY <2>2 DEF HeapProofs!HasGaps, Heap!HasGaps
  <2>4. HeapProofs!BufferedIds = Heap!BufferedIds
    BY DEF HeapProofs!BufferedIds, HeapProofs!Buffered, Heap!BufferedIds, Heap!Buffered
  <2>5. QED BY <2>3, <2>4 DEF HeapProofs!GapsExact, Heap!GapsExact
<1>5. QED BY <1>1, <1>2, <1>3, <1>4, UsesHeap, PTL

\* Every variable of the sequencer keeps its type, its buffer included.
THEOREM SequencerTypeCorrect == Spec => []TypeOK
<1>1. Flow /\ Heap!TypeOK => TypeOK
  <2>1. SUFFICES ASSUME Flow, Heap!TypeOK PROVE TypeOK
    OBVIOUS
  <2>2. want_sequence \in Nat
    BY <2>1, SequencerAssumption DEF Flow
  <2>3. QED BY <2>1, <2>2 DEF Flow, LogTypeOK, TypeOK
<1>2. QED BY <1>1, InitFlow, FlowInductive, HeapFacts, PTL DEF Spec

-----------------------------------------------------------------------------
(* Layer 3: what the loop knows about its buffer.                          *)

\* While the sequencer listens, everything buffered is from beyond the
\* wanted number.
Ahead == pc = "listen" => \A m \in Heap!Buffered : m.sequence > want_sequence

\* The loop is entered with nothing stale in the heap, and pushes only what is
\* from beyond the wanted number (sequencer.rs:180-266).
LEMMA AheadInductive == Flow /\ Heap!TypeOK /\ Ahead /\ [Next]_vars => Ahead'
<1>1. SUFFICES ASSUME Flow, Heap!TypeOK, Ahead, [Next]_vars PROVE Ahead'
  OBVIOUS
<1> USE <1>1
<1>2. CASE Listen
  <2>1. Heap!Buffered' = Heap!Buffered /\ want_sequence' = want_sequence
    BY <1>2, HeapKept DEF Listen
  <2>2. \A m \in Heap!Least : m.sequence > want_sequence
    BY <1>2 DEF Listen
  <2>3. ASSUME NEW m \in Heap!Buffered PROVE m.sequence > want_sequence
    <3>1. Heap!Buffered \in SUBSET Message /\ Heap!Buffered # {}
      BY <2>3 DEF Heap!TypeOK
    <3>2. First(Heap!Buffered) \in Heap!Least
      BY <3>1, FirstExists DEF Heap!Least
    <3>3. First(Heap!Buffered).sequence > want_sequence
      BY <2>2, <3>2
    <3>4. First(Heap!Buffered).sequence <= m.sequence
      BY <3>1, <2>3, FirstExists
    <3>5. /\ First(Heap!Buffered).sequence \in Nat /\ m.sequence \in Nat
          /\ want_sequence \in Nat
      <4>1. First(Heap!Buffered) \in Message /\ m \in Message
        BY <3>1, <2>3, FirstExists
      <4>2. QED BY <4>1, MessageAssumption, SequencerAssumption DEF Flow
    <3>6. QED BY <3>3, <3>4, <3>5
  <2>4. QED BY <2>1, <2>3 DEF Ahead
<1>3. ASSUME NEW m \in sent, Receive(m) PROVE Ahead'
  <2>1. CASE Take(m, "Udp")
    BY <2>1, TakeFlow DEF Flow, LogTypeOK, Ahead
  <2>2. CASE UNCHANGED <<heapFields, want_sequence, expired, pc, result, delivered>>
    BY <2>2, HeapKept DEF Ahead
  <2>3. CASE /\ m.sequence > want_sequence /\ Heap!Push(m)
             /\ UNCHANGED <<want_sequence, pc>>
    BY <2>3, PushBuffered DEF Ahead
  <2>4. QED BY <1>3, <2>1, <2>2, <2>3 DEF Receive
<1>4. CASE SyncNext \/ SyncBroken \/ SyncFails \/ SyncDone \/ HeapNext \/ DropStale
  BY <1>4 DEF SyncNext, SyncBroken, SyncFails, SyncDone, HeapNext, DropStale, Syncing, Draining,
     Take, Fail, Return, Ahead
<1>5. CASE DecodeError \/ RecoveryFails \/ Disconnect
  BY <1>5 DEF DecodeError, RecoveryFails, Disconnect, Fail, Return, Ahead
<1>6. CASE GetMessage \/ StreamFrom
  BY <1>6 DEF GetMessage, StreamFrom, Take, Fail, Return, Ahead
<1>7. CASE Elapse
  BY <1>7, HeapKept DEF Elapse, Ahead
<1>8. CASE UNCHANGED subVars
  BY <1>8, HeapKept DEF subVars, heapFields, Ahead
<1>9. QED
  BY <1>2, <1>3, <1>4, <1>5, <1>6, <1>7, <1>8 DEF Next, SubNext, vars

\* It holds always, with the heap's own facts.
LEMMA AlwaysAhead == Spec => [](Flow /\ Heap!TypeOK /\ Heap!MaxIdExact /\ Heap!GapsExact /\ Ahead)
<1>1. Init => Ahead
  BY DEF Init, Ahead
<1>2. QED BY <1>1, InitFlow, FlowInductive, HeapFacts, AheadInductive, PTL DEF Spec

\* The choice between the two recovery calls is exact: the cached maximum and
\* counter of the heap answer the question about the set of numbers missing.
THEOREM SingleMissingDecides == Spec => []SingleMissingIsExact
<1>1. Flow /\ Heap!TypeOK /\ Heap!MaxIdExact /\ Heap!GapsExact /\ Ahead => SingleMissingIsExact
  <2>1. SUFFICES ASSUME Flow, Heap!TypeOK, Heap!MaxIdExact, Heap!GapsExact, Ahead,
                        pc = "listen", Heap!Buffered # {}
                 PROVE  SingleMissing <=>
                          {n \in want_sequence .. max_id : n \notin Heap!BufferedIds} = {want_sequence}
    BY DEF SingleMissingIsExact
  <2>2. want_sequence \in Nat
    BY <2>1, SequencerAssumption DEF Flow
  <2>3. \A id \in Heap!BufferedIds : id \in Nat /\ id > want_sequence /\ id <= max_id
    <3>1. \A m \in Heap!Buffered : m.sequence \in Nat /\ m.sequence > want_sequence
      BY <2>1, MessageAssumption DEF Heap!TypeOK, Ahead
    <3>2. \A id \in Heap!BufferedIds : id <= max_id
      BY <2>1 DEF Heap!MaxIdExact
    <3>3. QED BY <3>1, <3>2 DEF Heap!BufferedIds
  <2>4. max_id \in Heap!BufferedIds
    BY <2>1 DEF Heap!MaxIdExact
  <2> DEFINE missing == {n \in want_sequence .. max_id : n \notin Heap!BufferedIds}
  <2>5. (\E m \in Heap!Least : want_sequence + 1 = m.sequence)
          <=> want_sequence + 1 \in Heap!BufferedIds
    <3>1. ASSUME NEW m \in Heap!Buffered, m.sequence = want_sequence + 1
          PROVE  m \in Heap!Least
      <4>1. ASSUME NEW o \in Heap!Buffered PROVE m.sequence <= o.sequence
        <5>1. o.sequence \in Heap!BufferedIds
          BY <4>1 DEF Heap!BufferedIds
        <5>2. QED BY <5>1, <3>1, <2>2, <2>3
      <4>2. QED BY <4>1 DEF Heap!Least
    <3>2. QED BY <3>1 DEF Heap!Least, Heap!BufferedIds
  <2>6. ASSUME SingleMissing PROVE missing = {want_sequence}
    <3>1. want_sequence + 1 \in Heap!BufferedIds
      BY <2>5, <2>6 DEF SingleMissing
    <3>2. \A lo, hi \in Heap!BufferedIds : \A n \in lo .. hi : n \in Heap!BufferedIds
      BY <2>1, <2>6 DEF SingleMissing, Heap!GapsExact
    <3>3. \A n \in want_sequence + 1 .. max_id : n \in Heap!BufferedIds
      BY <3>1, <3>2, <2>4
    <3>4. want_sequence \notin Heap!BufferedIds
      BY <2>2, <2>3
    <3>5. max_id \in Nat /\ max_id > want_sequence
      BY <2>3, <2>4
    <3>6. QED BY <2>2, <3>3, <3>4, <3>5
  <2>7. ASSUME missing = {want_sequence} PROVE SingleMissing
    <3>1. max_id \in Nat /\ max_id > want_sequence
      BY <2>3, <2>4
    <3>2. \A n \in want_sequence + 1 .. max_id : n \in Heap!BufferedIds
      <4>1. SUFFICES ASSUME NEW n \in want_sequence + 1 .. max_id, n \notin Heap!BufferedIds
                     PROVE  FALSE
        OBVIOUS
      <4>2. n \in missing /\ n # want_sequence
        BY <4>1, <2>2, <3>1
      <4>3. QED BY <4>2, <2>7
    <3>3. want_sequence + 1 \in Heap!BufferedIds
      BY <3>1, <3>2, <2>2
    <3>4. ~ Heap!HasGaps
      <4>1. SUFFICES ASSUME NEW lo \in Heap!BufferedIds, NEW hi \in Heap!BufferedIds,
                            NEW n \in lo .. hi
                     PROVE  n \in Heap!BufferedIds
        BY <2>1 DEF Heap!GapsExact
      <4>2. n \in want_sequence + 1 .. max_id
        BY <2>2, <2>3, <3>1
      <4>3. QED BY <4>2, <3>2
    <3>5. QED BY <2>5, <3>3, <3>4 DEF SingleMissing
  <2>8. QED BY <2>6, <2>7
<1>2. QED BY <1>1, AlwaysAhead, PTL

\* stream_from always has a first row: what is buffered was recorded.
THEOREM StreamIsNeverEmpty == Spec => []NeverEmptyStream
<1>1. Flow /\ Ahead /\ NeverEmptyStream /\ [Next]_vars => NeverEmptyStream'
  <2>1. SUFFICES ASSUME Flow, Ahead, NeverEmptyStream, [Next]_vars PROVE NeverEmptyStream'
    OBVIOUS
  <2>2. CASE StreamFrom
    <3>1. PICK m \in Heap!Buffered : TRUE
      BY <2>2 DEF StreamFrom
    <3>2. m.sequence > want_sequence /\ m \in master_log /\ m.sequence \in Nat
      BY <2>1, <2>2, <3>1, MessageAssumption DEF StreamFrom, Overdue, Ahead, Flow, LogTypeOK
    <3>3. want_sequence \in Nat
      BY <2>1, SequencerAssumption DEF Flow
    <3>4. StreamFromSequence(want_sequence) # {}
      BY <3>2, <3>3 DEF StreamFromSequence
    <3>5. QED BY <2>2, <3>4 DEF StreamFrom, Take, Fail, Return, NeverEmptyStream
  <2>3. CASE SyncNext \/ SyncBroken \/ SyncFails \/ SyncDone \/ HeapNext \/ DropStale \/ Listen
    BY <2>1, <2>3 DEF SyncNext, SyncBroken, SyncFails, SyncDone, HeapNext, DropStale, Listen,
       Take, Fail, Return, NeverEmptyStream
  <2>4. CASE \/ (\E m \in sent : Receive(m)) \/ DecodeError \/ Elapse \/ Disconnect
             \/ GetMessage \/ RecoveryFails
    BY <2>1, <2>4 DEF Receive, DecodeError, Elapse, Disconnect, GetMessage, RecoveryFails,
       Take, Fail, Return, NeverEmptyStream
  <2>5. CASE UNCHANGED subVars
    BY <2>1, <2>5 DEF subVars, NeverEmptyStream
  <2>6. QED BY <2>1, <2>2, <2>3, <2>4, <2>5 DEF Next, SubNext, vars
<1>2. Init => NeverEmptyStream
  BY DEF Init, NeverEmptyStream
<1>3. QED BY <1>1, <1>2, AlwaysAhead, PTL DEF Spec

\* A sequencer with messages buffered has a running deadline: only a datagram
\* fills the buffer, and Disconnected is only returned when it is empty.
THEOREM BufferedKeepsDeadline == Spec => []BufferedMeansConnected
<1>1. BufferedMeansConnected /\ [Next]_vars => BufferedMeansConnected'
  <2>1. SUFFICES ASSUME BufferedMeansConnected, [Next]_vars PROVE BufferedMeansConnected'
    OBVIOUS
  <2>2. CASE HeapNext \/ DropStale
    <3>1. Heap!Buffered' \subseteq Heap!Buffered
      BY <2>2, PopBuffered DEF HeapNext, DropStale
    <3>2. QED BY <2>1, <2>2, <3>1 DEF HeapNext, DropStale, BufferedMeansConnected
  <2>3. CASE \E m \in sent : Receive(m)
    BY <2>3 DEF Receive, BufferedMeansConnected
  <2>4. CASE Disconnect
    BY <2>4, HeapKept DEF Disconnect, BufferedMeansConnected
  <2>5. CASE \/ SyncNext \/ SyncBroken \/ SyncFails \/ SyncDone \/ Listen \/ DecodeError
             \/ Elapse \/ GetMessage \/ StreamFrom \/ RecoveryFails \/ UNCHANGED subVars
    <3>1. UNCHANGED heapFields /\ UNCHANGED connected
      BY <2>5 DEF SyncNext, SyncBroken, SyncFails, SyncDone, Listen, DecodeError, Elapse,
         GetMessage, StreamFrom, RecoveryFails, subVars, heapFields
    <3>2. QED BY <2>1, <3>1, HeapKept DEF BufferedMeansConnected
  <2>6. QED BY <2>1, <2>2, <2>3, <2>4, <2>5 DEF Next, SubNext, vars
<1>2. Init => BufferedMeansConnected
  BY DEF Init, BufferedMeansConnected, Heap!Init, Heap!Empty, Heap!Buffered
<1>3. QED BY <1>1, <1>2, PTL DEF Spec

-----------------------------------------------------------------------------
(* Layer 4: the snapshot of a batch recovery.                              *)

\* The primary key, seen from the sequencer
OneRow == \A m, o \in master_log : m.sequence = o.sequence => m = o

\* What is left of a snapshot is not behind, and after an error all of it is
\* ahead: no later row can be the wanted one.
SnapshotAhead ==
    recovery_stream # None =>
        /\ pc # "listen"
        /\ \A m \in recovery_stream : m.sequence >= want_sequence
        /\ \/ result \in {"Message", "Malformed"}
           \/ \A m \in recovery_stream : m.sequence > want_sequence

Covers == OneRow /\ SnapshotAhead /\ SyncCoversHeap

\* The first row taken from a snapshot leaves one that covers the heap.
LEMMA SnapshotTaken ==
  ASSUME Flow, OneRow, UNCHANGED logVars, NEW rows \in SUBSET master_log, rows # {},
         Take(First(rows), "Sync"), First(rows).sequence = want_sequence,
         recovery_stream' = rows \ {First(rows)},
         Heap!Buffered' = Heap!Buffered,
         \A m \in rows : m.sequence >= want_sequence,
         {m \in Heap!Buffered : m.sequence >= want_sequence} \subseteq rows
  PROVE  Covers'
<1> DEFINE f == First(rows)
<1>1. rows \in SUBSET Message
  BY DEF Flow, LogTypeOK
<1>2. f \in rows /\ f \in Message
  BY <1>1, FirstExists
<1>3. f.sequence = want_sequence
  OBVIOUS
<1>4. /\ want_sequence' = want_sequence + 1
      /\ pc' \in {"next", "stopped"} /\ result' \in {"Message", "Malformed"}
  BY <1>2, TakeFlow
<1>5. want_sequence \in Nat
  BY SequencerAssumption DEF Flow
<1>6. recovery_stream' = rows \ {f}
  OBVIOUS
<1> HIDE DEF f
<1>7. \A m \in rows \ {f} : m.sequence >= want_sequence'
  <2>1. SUFFICES ASSUME NEW m \in rows \ {f} PROVE m.sequence >= want_sequence'
    OBVIOUS
  <2>2. m.sequence # want_sequence
    BY <1>2, <1>3 DEF OneRow
  <2>3. m.sequence \in Nat
    BY <1>1, MessageAssumption
  <2>4. QED BY <1>4, <1>5, <2>2, <2>3
<1>8. {m \in Heap!Buffered' : m.sequence >= want_sequence'} \subseteq rows \ {f}
  <2>1. SUFFICES ASSUME NEW m \in Heap!Buffered, m.sequence >= want_sequence'
                 PROVE  m \in rows \ {f}
    OBVIOUS
  <2>2. m.sequence \in Nat
    BY MessageAssumption DEF Flow, LogTypeOK
  <2>3. m.sequence >= want_sequence /\ m.sequence # want_sequence
    BY <2>1, <2>2, <1>4, <1>5
  <2>4. QED BY <2>3, <1>3
<1>9. OneRow'
  BY DEF OneRow, logVars
<1>10. SnapshotAhead'
  BY <1>4, <1>6, <1>7 DEF SnapshotAhead
<1>11. SyncCoversHeap'
  BY <1>6, <1>8 DEF SyncCoversHeap
<1>12. QED BY <1>9, <1>10, <1>11 DEF Covers

\* A snapshot covers the heap from its first row to its last.
LEMMA CoversInductive == Flow /\ Covers /\ [Next]_vars => Covers'
<1>1. SUFFICES ASSUME Flow, Covers, [Next]_vars PROVE Covers'
  OBVIOUS
<1> USE <1>1
<1>2. want_sequence \in Nat /\ \A m \in master_log : m.sequence \in Nat
  BY SequencerAssumption, MessageAssumption DEF Flow, LogTypeOK
<1>3. CASE SyncNext
  <2>1. /\ recovery_stream \in SUBSET master_log /\ recovery_stream # {}
        /\ pc = "next" /\ recovery_stream # None
        /\ UNCHANGED logVars /\ UNCHANGED heapFields
        /\ First(recovery_stream).sequence = want_sequence
        /\ Take(First(recovery_stream), "Sync")
        /\ recovery_stream' = recovery_stream \ {First(recovery_stream)}
    BY <1>3 DEF SyncNext, Syncing, Flow
  <2>2. First(recovery_stream) \in recovery_stream
    BY <2>1, FirstExists DEF Flow, LogTypeOK
  <2>3. result \in {"Message", "Malformed"}
    BY <1>2, <2>1, <2>2 DEF Covers, SnapshotAhead
  <2>4. {m \in Heap!Buffered : m.sequence >= want_sequence} \subseteq recovery_stream
    BY <2>1, <2>3 DEF Covers, SyncCoversHeap
  <2>5. \A m \in recovery_stream : m.sequence >= want_sequence
    BY <2>1 DEF Covers, SnapshotAhead
  <2>6. QED BY <2>1, <2>4, <2>5, HeapKept, SnapshotTaken DEF Covers
<1>4. CASE SyncBroken
  <2>1. /\ recovery_stream \in SUBSET master_log /\ recovery_stream # None
        /\ recovery_stream' = recovery_stream \ {First(recovery_stream)}
        /\ UNCHANGED logVars /\ want_sequence' = want_sequence
        /\ result' = "InvalidSequence" /\ pc' \in {"next", "stopped"}
    BY <1>4 DEF SyncBroken, Syncing, Fail, Return, Flow
  <2>2. First(recovery_stream).sequence # want_sequence /\ recovery_stream # {}
    BY <1>4 DEF SyncBroken
  <2>3. \A m \in recovery_stream : m.sequence > want_sequence
    <3>1. /\ First(recovery_stream) \in recovery_stream
          /\ \A o \in recovery_stream : First(recovery_stream).sequence <= o.sequence
      BY <2>1, <2>2, FirstExists DEF Flow, LogTypeOK
    <3>2. First(recovery_stream).sequence >= want_sequence
      BY <2>1, <3>1 DEF Covers, SnapshotAhead
    <3>3. First(recovery_stream).sequence \in Nat
      BY <2>1, <3>1, <1>2
    <3>4. SUFFICES ASSUME NEW m \in recovery_stream PROVE m.sequence > want_sequence
      OBVIOUS
    <3>5. m.sequence \in Nat /\ First(recovery_stream).sequence <= m.sequence
      BY <2>1, <3>1, <3>4, <1>2
    <3> DEFINE n == First(recovery_stream).sequence
    <3>6. n \in Nat /\ n >= want_sequence /\ n # want_sequence /\ n <= m.sequence
      BY <2>2, <3>2, <3>3, <3>5
    <3> HIDE DEF n
    <3>7. QED BY <3>5, <3>6, <1>2
  <2>4. QED BY <2>1, <2>3, <1>2 DEF Covers, OneRow, SnapshotAhead, SyncCoversHeap, logVars
<1>5. CASE SyncFails
  BY <1>5 DEF SyncFails, Syncing, Fail, Return, Covers, OneRow, SnapshotAhead, SyncCoversHeap, logVars
<1>6. CASE SyncDone
  BY <1>6 DEF SyncDone, Covers, OneRow, SnapshotAhead, SyncCoversHeap, logVars
<1>7. CASE StreamFrom
  <2> DEFINE rows == StreamFromSequence(want_sequence)
  <2>1. CASE rows # {} /\ First(rows).sequence = want_sequence
    <3>1. /\ Take(First(rows), "Sync") /\ recovery_stream' = rows \ {First(rows)}
          /\ UNCHANGED logVars /\ UNCHANGED heapFields
      BY <1>7, <2>1 DEF StreamFrom
    <3>2. /\ rows \in SUBSET master_log
          /\ \A m \in rows : m.sequence >= want_sequence
          /\ {m \in Heap!Buffered : m.sequence >= want_sequence} \subseteq rows
      BY DEF StreamFromSequence, Flow
    <3>3. Heap!Buffered' = Heap!Buffered
      BY <3>1, HeapKept
    <3> HIDE DEF rows
    <3>4. QED BY <2>1, <3>1, <3>2, <3>3, SnapshotTaken DEF Covers
  <2>2. CASE rows = {} \/ First(rows).sequence # want_sequence
    <3>1. pc = "listen" /\ UNCHANGED <<recovery_stream, master_log>>
      BY <1>7, <2>2 DEF StreamFrom, Overdue, logVars
    <3>2. recovery_stream' = None
      BY <3>1 DEF Covers, SnapshotAhead
    <3>3. QED BY <3>1, <3>2 DEF Covers, OneRow, SnapshotAhead, SyncCoversHeap
  <2>3. QED BY <2>1, <2>2
<1>8. CASE HeapNext \/ DropStale \/ Listen
  BY <1>8 DEF HeapNext, DropStale, Listen, Draining, Covers, OneRow, SnapshotAhead,
     SyncCoversHeap, logVars
<1>9. CASE \/ (\E m \in sent : Receive(m)) \/ DecodeError \/ Disconnect \/ GetMessage
           \/ RecoveryFails
  <2>1. pc = "listen" /\ UNCHANGED <<recovery_stream, master_log>>
    BY <1>9 DEF Receive, DecodeError, Disconnect, GetMessage, RecoveryFails, Waiting, Overdue, logVars
  <2>2. recovery_stream' = None
    BY <2>1 DEF Covers, SnapshotAhead
  <2>3. QED BY <2>1, <2>2 DEF Covers, OneRow, SnapshotAhead, SyncCoversHeap
<1>10. CASE Elapse
  BY <1>10, HeapKept DEF Elapse, Covers, OneRow, SnapshotAhead, SyncCoversHeap, logVars
<1>11. CASE LogNext /\ UNCHANGED subVars
  <2>1. OneRow'
    BY <1>11 DEF LogNext, Record, Multicast, Ids, SequencesOf, Covers, OneRow
  <2>2. Heap!Buffered' = Heap!Buffered
    BY <1>11, HeapKept DEF subVars, heapFields
  <2>3. QED BY <1>11, <2>1, <2>2 DEF subVars, Covers, SnapshotAhead, SyncCoversHeap
<1>12. CASE UNCHANGED vars
  <2>1. Heap!Buffered' = Heap!Buffered
    BY <1>12, HeapKept DEF vars, subVars, heapFields
  <2>2. QED BY <1>12, <2>1 DEF vars, subVars, logVars, Covers, OneRow, SnapshotAhead, SyncCoversHeap
<1>13. QED
  BY <1>3, <1>4, <1>5, <1>6, <1>7, <1>8, <1>9, <1>10, <1>11, <1>12 DEF Next, SubNext

\* A batch recovery brings everything that waits in the buffer: when it ends,
\* only stale messages are left there.
THEOREM SnapshotCoversBuffer == Spec => []SyncCoversHeap
<1>1. Init => Covers
  BY DEF Init, LogInit, Covers, OneRow, SnapshotAhead, SyncCoversHeap
<1>2. Covers => SyncCoversHeap
  BY DEF Covers
<1>3. QED BY <1>1, <1>2, InitFlow, FlowInductive, CoversInductive, PTL DEF Spec

-----------------------------------------------------------------------------
(* Layer 5: what was handed out, against the log as it is now.             *)

\* What is handed out is a row of the log, each one number after the last; and
\* where no payload fails to parse it is handed out as such.
AsLogged ==
    /\ \A i \in 1 .. Len(delivered) : /\ delivered[i].msg \in master_log
                                      /\ delivered[i].msg.sequence = Start + i - 1
    /\ "parse" \notin Faults => \A i \in 1 .. Len(delivered) : delivered[i].ok = TRUE

\* A step hands out the wanted row.
HandsOut(e) ==
    /\ delivered' = Append(delivered, e)
    /\ e \in [msg : Message, origin : {"Udp", "Missing", "Sync"}, ok : BOOLEAN]
    /\ e.msg \in master_log /\ e.msg.sequence = want_sequence
    /\ "parse" \notin Faults => e.ok = TRUE

\* A step of the sequencer hands out the wanted row or nothing.
LEMMA OneAtATime ==
  ASSUME Flow, [Next]_vars
  PROVE  delivered' = delivered \/ \E e : HandsOut(e)
<1>1. ASSUME NEW m \in master_log, NEW o \in {"Udp", "Missing", "Sync"},
             m.sequence = want_sequence, Take(m, o)
      PROVE  \E e : HandsOut(e)
  <2>1. PICK ok \in IF "parse" \in Faults THEN BOOLEAN ELSE {TRUE} :
          delivered' = Append(delivered, [msg |-> m, origin |-> o, ok |-> ok])
    BY <1>1 DEF Take
  <2> DEFINE e == [msg |-> m, origin |-> o, ok |-> ok]
  <2>2. ok \in BOOLEAN /\ ("parse" \notin Faults => ok = TRUE)
    BY <2>1, Zenon
  <2>3. m \in Message
    BY <1>1 DEF Flow, LogTypeOK
  <2>4. e \in [msg : Message, origin : {"Udp", "Missing", "Sync"}, ok : BOOLEAN] /\ e.msg = m
    BY <2>2, <2>3
  <2>5. "parse" \notin Faults => e.ok = TRUE
    BY <2>2
  <2>6. HandsOut(e)
    BY <1>1, <2>1, <2>4, <2>5 DEF HandsOut
  <2>7. QED BY <2>6
<1>2. ASSUME SyncNext PROVE \E e : HandsOut(e)
  <2>1. First(recovery_stream) \in recovery_stream /\ recovery_stream \subseteq master_log
    BY <1>2, FirstExists DEF SyncNext, Syncing, Flow, LogTypeOK
  <2>2. QED BY <1>1, <1>2, <2>1 DEF SyncNext
<1>3. ASSUME HeapNext PROVE \E e : HandsOut(e)
  <2>1. Heap!Least \subseteq master_log
    BY DEF Heap!Least, Flow
  <2>2. QED BY <1>1, <1>3, <2>1 DEF HeapNext
<1>4. ASSUME NEW m \in sent, Receive(m)
      PROVE  delivered' = delivered \/ \E e : HandsOut(e)
  BY <1>1, <1>4 DEF Receive, Flow
<1>5. ASSUME GetMessage PROVE delivered' = delivered \/ \E e : HandsOut(e)
  BY <1>1, <1>5 DEF GetMessage, ReadSequence, Fail
<1>6. ASSUME StreamFrom PROVE delivered' = delivered \/ \E e : HandsOut(e)
  <2> DEFINE rows == StreamFromSequence(want_sequence)
  <2>1. rows \subseteq master_log /\ rows \in SUBSET Message
    BY DEF StreamFromSequence, Flow, LogTypeOK
  <2>2. rows # {} => First(rows) \in master_log
    BY <2>1, FirstExists
  <2> HIDE DEF rows
  <2>3. \/ delivered' = delivered
        \/ rows # {} /\ First(rows).sequence = want_sequence /\ Take(First(rows), "Sync")
    BY <1>6 DEF StreamFrom, Fail, rows
  <2>4. QED BY <2>2, <2>3, <1>1
<1>7. ASSUME \/ SyncBroken \/ SyncFails \/ SyncDone \/ DropStale \/ Listen \/ DecodeError
             \/ Elapse \/ Disconnect \/ RecoveryFails
      PROVE  delivered' = delivered
  BY <1>7 DEF SyncBroken, SyncFails, SyncDone, DropStale, Listen, DecodeError, Elapse,
     Disconnect, RecoveryFails, Fail
<1>8. ASSUME (LogNext /\ UNCHANGED subVars) \/ UNCHANGED vars PROVE delivered' = delivered
  BY <1>8 DEF subVars, vars
<1>9. QED
  BY <1>2, <1>3, <1>4, <1>5, <1>6, <1>7, <1>8 DEF Next, SubNext

\* The log only grows.
LEMMA LogGrows == ASSUME [Next]_vars PROVE master_log \subseteq master_log'
<1>1. LogNext \/ UNCHANGED logVars
  BY DEF Next, SubNext, vars, logVars, SyncNext, SyncBroken, SyncFails, SyncDone, HeapNext,
     DropStale, Listen, Receive, DecodeError, Elapse, Disconnect, GetMessage, StreamFrom,
     RecoveryFails
<1>2. QED BY <1>1 DEF LogNext, Record, Multicast, logVars

\* A row handed out is never removed from the log.
LEMMA AsLoggedInductive == Flow /\ AsLogged /\ [Next]_vars => AsLogged'
<1>1. SUFFICES ASSUME Flow, AsLogged, [Next]_vars PROVE AsLogged'
  OBVIOUS
<1>2. master_log \subseteq master_log'
  BY <1>1, LogGrows
<1>3. CASE delivered' = delivered
  BY <1>1, <1>2, <1>3 DEF AsLogged
<1>4. ASSUME NEW e, HandsOut(e) PROVE AsLogged'
  <2> DEFINE R == [msg : Message, origin : {"Udp", "Missing", "Sync"}, ok : BOOLEAN]
  <2>1. delivered \in Seq(R) /\ want_sequence = Start + Len(delivered) /\ e \in R
    BY <1>1, <1>4 DEF Flow, HandsOut
  <2> HIDE DEF R
  <2>2. /\ Len(delivered) \in Nat
        /\ Len(delivered') = Len(delivered) + 1
        /\ \A i \in 1 .. Len(delivered) : delivered'[i] = delivered[i]
        /\ delivered'[Len(delivered) + 1] = e
    BY <1>4, <2>1, AppendProperties, LenProperties DEF HandsOut
  <2>3. want_sequence = Start + (Len(delivered) + 1) - 1
    BY <2>1, <2>2, SequencerAssumption
  <2>4. \A i \in 1 .. Len(delivered') : i \in 1 .. Len(delivered) \/ i = Len(delivered) + 1
    BY <2>2
  <2>5. QED BY <1>1, <1>2, <1>4, <2>2, <2>3, <2>4 DEF AsLogged, HandsOut
<1>5. QED BY <1>1, <1>3, <1>4, OneAtATime

\* It holds always, with layer 1.
LEMMA HandedOut == Spec => [](Flow /\ AsLogged)
<1>1. Init => AsLogged
  <2>1. Init => Len(delivered) = 0
    BY EmptySeq DEF Init
  <2>2. QED BY <2>1 DEF AsLogged
<1>2. QED BY <1>1, InitFlow, FlowInductive, AsLoggedInductive, PTL DEF Spec
==============================================================================
