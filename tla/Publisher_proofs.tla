--------------------------- MODULE Publisher_proofs ---------------------------
(***************************************************************************)
(* Proofs about Publisher, for every set of runs, every bound and every    *)
(* set of faults.  The invariants are proved in layers, each using those   *)
(* before it: typing; the stamps of a run; who owns a message in flight;   *)
(* and then the properties the runs check.                                 *)
(***************************************************************************)
EXTENDS Publisher, WellFoundedInduction, TLAPS

\* A nonempty bounded set of naturals has a greatest element: the one farthest
\* below no other.
LEMMA NatMax ==
  ASSUME NEW S \in SUBSET Nat, S # {}, NEW b \in Nat, \A x \in S : x <= b
  PROVE  \E m \in S : \A x \in S : x <= m
<1> DEFINE T == {b - x : x \in S}
<1>0. T \in SUBSET Nat
  OBVIOUS
<1>1. T # {}
  OBVIOUS
<1> HIDE DEF T
<1>2. PICK t \in T : \A y \in T : ~ (<<y, t>> \in OpToRel(<, Nat))
  BY <1>0, <1>1, NatLessThanWellFounded, WFMin, Zenon
<1>3. PICK m \in S : t = b - m
  BY DEF T
<1>4. \A x \in S : x <= m
  <2>1. SUFFICES ASSUME NEW x \in S, m < x PROVE FALSE
    OBVIOUS
  <2>2. b - x \in T /\ b - x \in Nat /\ t \in Nat /\ b - x < t
    BY <1>0, <1>3, <2>1 DEF T
  <2>3. <<b - x, t>> \in OpToRel(<, Nat)
    BY <2>2 DEF OpToRel
  <2>4. QED BY <2>2, <2>3, <1>2
<1>5. QED BY <1>4

(***************************************************************************)
(* The log query that starts a run.                                        *)
(***************************************************************************)

\* next_sequence (sqlite/publisher.rs:23-36) returns a number just above the
\* largest row, or 0.
LEMMA NextSequenceIsFresh ==
  ASSUME TypeOK
  PROVE  /\ Log!NextSequence \in Nat
         /\ \A m \in master_log : m.sequence < Log!NextSequence
         /\ \/ Log!NextSequence = 0
            \/ \E m \in master_log : m.sequence = Log!NextSequence - 1
<1>1. Log!Ids \subseteq 0 .. MaxSequence
  BY DEF TypeOK, Message, Log!Ids, Log!SequencesOf
<1>2. CASE master_log = {}
  BY <1>2 DEF Log!NextSequence
<1>3. CASE master_log # {}
  <2>1. Log!Ids # {}
    BY <1>3 DEF Log!Ids, Log!SequencesOf
  <2>2. /\ Log!Max(Log!Ids) \in Log!Ids
        /\ \A x \in Log!Ids : x <= Log!Max(Log!Ids)
    <3>1. \A x \in Log!Ids : x <= MaxSequence
      BY <1>1, MaxSequenceAssumption
    <3>2. Log!Ids \in SUBSET Nat
      BY <1>1, MaxSequenceAssumption
    <3>3. \E m \in Log!Ids : \A x \in Log!Ids : x <= m
      BY <3>1, <3>2, <2>1, NatMax, MaxSequenceAssumption
    <3>4. QED BY <3>2, <3>3 DEF Log!Max
  <2>3. Log!NextSequence = Log!Max(Log!Ids) + 1
    BY <1>3 DEF Log!NextSequence
  <2>4. \A m \in master_log : m.sequence \in Log!Ids
    BY DEF Log!Ids, Log!SequencesOf
  <2> DEFINE mx == Log!Max(Log!Ids)
  <2>5. mx \in Log!Ids /\ \A x \in Log!Ids : x <= mx
    BY <2>2
  <2>6. Log!NextSequence = mx + 1
    BY <2>3
  <2> HIDE DEF mx
  <2>7. mx \in Nat
    BY <2>5, <1>1, MaxSequenceAssumption
  <2>8. \A m \in master_log : m.sequence \in Nat /\ m.sequence <= mx
    <3>1. SUFFICES ASSUME NEW m \in master_log
                   PROVE  m.sequence \in Nat /\ m.sequence <= mx
      OBVIOUS
    <3>2. m.sequence \in Log!Ids
      BY <2>4
    <3> HIDE DEF mx
    <3>3. m.sequence \in Nat
      BY MaxSequenceAssumption DEF TypeOK, Message
    <3>4. QED BY <3>2, <3>3, <2>5
  <2>9. PICK m \in master_log : m.sequence = mx
    BY <2>5 DEF Log!Ids, Log!SequencesOf, mx
  <2>10. m.sequence = Log!NextSequence - 1
    BY <2>6, <2>7, <2>9
  <2>11. QED BY <2>6, <2>7, <2>8, <2>10
<1>4. QED BY <1>2, <1>3

-----------------------------------------------------------------------------
(* Layer 1: typing. *)

\* A stamp is a message as long as the counter is within the bound.
LEMMA StampedType ==
  ASSUME NEW r \in Run, sequence[r] \in 0 .. MaxSequence,
         NEW p \in {"Started", "Heartbeat", "Delta"}
  PROVE  Stamped(r, p) \in Message
BY DEF Stamped, Message

\* A heartbeat task past its check has a number to stamp: only the bound of
\* the model could take it away.
Room == \A r \in Run : heartbeat[r] = "checked" => sequence[r] <= MaxSequence

Typing == TypeOK /\ Room

\* Layer 1 is kept by every step.
LEMMA TypingInductive == Typing /\ [Next]_vars => Typing'
<1>1. SUFFICES ASSUME Typing, [Next]_vars PROVE Typing'
  OBVIOUS
<1> USE <1>1, MaxSequenceAssumption
<1>2. CASE \E m \in writing : WriteMessage(m) \/ WriteFails(m)
  BY <1>2 DEF Typing, TypeOK, Room, WriteMessage, WriteFails, Returned, Log!Record, Message
<1>3. CASE \E m \in sending : Send(m) \/ SendFails(m)
  BY <1>3 DEF Typing, TypeOK, Room, Send, SendFails, Returned, Log!Multicast, Message
<1>4. ASSUME NEW r \in Run, RunPublisher(r) PROVE Typing'
  <2>1. Log!NextSequence \in Nat
    BY NextSequenceIsFresh DEF Typing
  <2>2. [sequence |-> Log!NextSequence, payload |-> "Started", run |-> r] \in Message
    BY <1>4, <2>1 DEF RunPublisher, Message
  <2>3. Log!NextSequence + 1 \in 0 .. MaxSequence
    BY <1>4, <2>1 DEF RunPublisher
  <2>4. QED BY <1>4, <2>2, <2>3 DEF Typing, TypeOK, Room, RunPublisher
<1>5. ASSUME NEW r \in Run, ApplyDelta(r) PROVE Typing'
  <2>1. Stamped(r, "Delta") \in Message
    BY <1>5, StampedType DEF ApplyDelta, Typing, TypeOK
  <2>2. QED BY <1>5, <2>1 DEF Typing, TypeOK, Room, ApplyDelta
<1>6. ASSUME NEW r \in Run, HeartbeatCheck(r) PROVE Typing'
  BY <1>6 DEF Typing, TypeOK, Room, HeartbeatCheck, ShouldDestruct
<1>7. ASSUME NEW r \in Run, Heartbeat(r) PROVE Typing'
  <2>1. Stamped(r, "Heartbeat") \in Message
    BY <1>7, StampedType DEF Heartbeat, Typing, TypeOK, Room
  <2>2. QED BY <1>7, <2>1 DEF Typing, TypeOK, Room, Heartbeat
<1>8. ASSUME NEW r \in Run, DropContext(r) \/ BindRecovery(r) \/ StopRecovery(r) PROVE Typing'
  BY <1>8 DEF Typing, TypeOK, Room, DropContext, BindRecovery, StopRecovery, ShouldDestruct
<1>9. CASE Crash
  BY <1>9 DEF Typing, TypeOK, Room, Crash
<1>10. CASE UNCHANGED vars
  BY <1>10 DEF Typing, TypeOK, Room, vars
<1>11. QED
  BY <1>2, <1>3, <1>4, <1>5, <1>6, <1>7, <1>8, <1>9, <1>10 DEF Next

\* Every variable of the publisher keeps its type in every reachable state,
\* whatever fails (the guard is the counter: stamps stay within the bound).
THEOREM TypeCorrect == Spec => []TypeOK
<1>1. Init => Typing
  BY MaxSequenceAssumption DEF Init, Typing, TypeOK, Room, Log!LogInit
<1>2. Typing => TypeOK
  BY DEF Typing
<1>3. QED BY <1>1, <1>2, TypingInductive, PTL DEF Spec

-----------------------------------------------------------------------------
(* Layer 2: tasks.  Who owns a message in flight, and what the owner is    *)
(* doing meanwhile.                                                        *)

\* The heartbeat task exists only after run() returned a context
HeartbeatSpawned ==
    \A r \in Run : heartbeat[r] # "none" => phase[r] \in {"running", "stopped"}

\* A message in flight has its sender waiting for it
SenderWaits ==
    \A m \in InFlight :
        /\ m.payload = "Started" => phase[m.run] = "starting"
        /\ m.payload = "Delta" => phase[m.run] = "running"
        /\ m.payload = "Heartbeat" => heartbeat[m.run] = "publishing"

\* A sender publishes one message at a time
OneInFlight ==
    /\ writing \intersect sending = {}
    /\ \A m, o \in InFlight : m.run = o.run /\ m.payload = o.payload => m = o

OneActive == \A r, q \in Run : Active(r) /\ Active(q) => r = q

Tasks == HeartbeatSpawned /\ SenderWaits /\ OneInFlight /\ OneActive

\* Layer 2 is kept by every step.
LEMMA TasksInductive == Typing /\ Tasks /\ [Next]_vars => Tasks'
<1>1. SUFFICES ASSUME Typing, Tasks, [Next]_vars PROVE Tasks'
  OBVIOUS
<1> USE <1>1
<1> USE DEF Tasks, HeartbeatSpawned, SenderWaits, OneInFlight, OneActive, InFlight, Active,
            Typing, TypeOK, Message
<1>2. ASSUME NEW m \in writing, WriteMessage(m) PROVE Tasks'
  BY <1>2 DEF WriteMessage
<1>3. ASSUME NEW m \in writing, WriteFails(m) PROVE Tasks'
  BY <1>3 DEF WriteFails, Returned
<1>4. ASSUME NEW m \in sending, Send(m) \/ SendFails(m) PROVE Tasks'
  BY <1>4 DEF Send, SendFails, Returned
<1>5. ASSUME NEW r \in Run, RunPublisher(r) PROVE Tasks'
  BY <1>5 DEF RunPublisher
<1>6. ASSUME NEW r \in Run, ApplyDelta(r) PROVE Tasks'
  BY <1>6 DEF ApplyDelta, ContextIdle, Stamped
<1>7. ASSUME NEW r \in Run, HeartbeatCheck(r) PROVE Tasks'
  BY <1>7 DEF HeartbeatCheck, ShouldDestruct
<1>8. ASSUME NEW r \in Run, Heartbeat(r) PROVE Tasks'
  BY <1>8 DEF Heartbeat, Stamped
<1>9. ASSUME NEW r \in Run, DropContext(r) PROVE Tasks'
  BY <1>9 DEF DropContext, ContextIdle
<1>10. ASSUME NEW r \in Run, BindRecovery(r) \/ StopRecovery(r) PROVE Tasks'
  BY <1>10 DEF BindRecovery, StopRecovery, ShouldDestruct
<1>11. CASE Crash
  BY <1>11 DEF Crash
<1>12. CASE UNCHANGED vars
  BY <1>12 DEF vars
<1>13. QED
  BY <1>2, <1>3, <1>4, <1>5, <1>6, <1>7, <1>8, <1>9, <1>10, <1>11, <1>12 DEF Next

-----------------------------------------------------------------------------
(* Layer 3: stamps.  A run stamps a number once, whichever of its tasks    *)
(* asks for it, and only messages of a run that began exist.               *)

\* The messages a run has stamped and not lost.  What is being sent is in the
\* log already (Persisted).
Seen == master_log \union writing

Persisted == sent \union sending \subseteq master_log

\* The counter is above every stamp it gave out
BelowCounter == \A m \in Seen : m.sequence < sequence[m.run]

OneStamp == \A m, o \in Seen : m.run = o.run /\ m.sequence = o.sequence => m = o

\* A message is in the log or still to be written, never both
WrittenOnce == writing \intersect master_log = {}

LogUnique == \A m, o \in master_log : m.sequence = o.sequence => m = o

Born == \A m \in Seen : phase[m.run] # "unborn"

Stamps == /\ Persisted
          /\ BelowCounter
          /\ OneStamp
          /\ WrittenOnce
          /\ LogUnique
          /\ Born

\* A new stamp of a run that began is fresh and leaves all of this in place.
LEMMA FreshStamp ==
  ASSUME Typing, Stamps, NEW r \in Run, NEW p \in {"Started", "Heartbeat", "Delta"},
         phase[r] # "unborn", sequence[r] \in 0 .. MaxSequence,
         sequence' = [sequence EXCEPT ![r] = @ + 1],
         writing' = writing \union {Stamped(r, p)} \/ writing' = writing,
         UNCHANGED <<master_log, sent, phase, sending>>
  PROVE  Stamps'
<1>1. Stamped(r, p) \in Message
  BY StampedType
<1>2. \A m \in Seen : m \in Message
  BY DEF Seen, Typing, TypeOK
<1>3. \A m \in Seen : /\ m.sequence \in Nat
                      /\ m.run \in Run
                      /\ m # Stamped(r, p)
                      /\ ~ (m.run = r /\ m.sequence = sequence[r])
  BY <1>2, MaxSequenceAssumption DEF Stamps, BelowCounter, Stamped, Message, Typing, TypeOK
<1>4. sequence' \in [Run -> Nat]
  BY MaxSequenceAssumption DEF Typing, TypeOK
<1>5. BelowCounter'
  BY <1>1, <1>3, <1>4, MaxSequenceAssumption DEF Stamps, BelowCounter, Seen, Stamped, Typing, TypeOK
<1>6. OneStamp'
  BY <1>3 DEF Stamps, OneStamp, Seen, Stamped
<1>7. WrittenOnce'
  BY <1>3 DEF Stamps, WrittenOnce, Seen
<1>8. Persisted' /\ LogUnique'
  BY DEF Stamps, Persisted, LogUnique
<1>9. Born'
  BY DEF Stamps, Born, Seen, Stamped
<1>10. QED BY <1>5, <1>6, <1>7, <1>8, <1>9 DEF Stamps

\* Layer 3 is kept by every step.
LEMMA StampsInductive == Typing /\ Tasks /\ Stamps /\ [Next]_vars => Stamps'
<1>1. SUFFICES ASSUME Typing, Tasks, Stamps, [Next]_vars PROVE Stamps'
  OBVIOUS
<1> USE <1>1, MaxSequenceAssumption
<1> USE DEF Stamps, Persisted, BelowCounter, OneStamp, WrittenOnce, LogUnique, Born, Seen
<1>2. ASSUME NEW m \in writing, WriteMessage(m) PROVE Stamps'
  BY <1>2 DEF WriteMessage, Log!Record, Log!Ids, Log!SequencesOf
<1>3. ASSUME NEW m \in writing, WriteFails(m) PROVE Stamps'
  BY <1>3 DEF WriteFails, Returned, Typing, TypeOK, Message
<1>4. ASSUME NEW m \in sending, Send(m) \/ SendFails(m) PROVE Stamps'
  BY <1>4 DEF Send, SendFails, Returned, Log!Multicast, Typing, TypeOK, Message
<1>5. ASSUME NEW r \in Run, RunPublisher(r) PROVE Stamps'
  <2> DEFINE n == Log!NextSequence
             s == [sequence |-> n, payload |-> "Started", run |-> r]
  <2>1. n \in Nat /\ \A m \in master_log : m.sequence < n
    BY NextSequenceIsFresh DEF Typing
  <2>2. \A m \in Seen : m.run \in Run /\ m.run # r /\ m.sequence \in Nat
    BY <1>5 DEF RunPublisher, Typing, TypeOK, Message
  <2>3. writing' = writing \union {s} /\ s.run = r /\ s.sequence = n
    BY <1>5 DEF RunPublisher
  <2>4. /\ sequence' = [sequence EXCEPT ![r] = n + 1]
        /\ phase' = [phase EXCEPT ![r] = "starting"]
        /\ UNCHANGED <<master_log, sent, sending>>
    BY <1>5 DEF RunPublisher
  <2> HIDE DEF n, s
  <2>5. BelowCounter'
    BY <2>1, <2>2, <2>3, <2>4 DEF Typing, TypeOK
  <2>6. OneStamp' /\ WrittenOnce'
    BY <2>2, <2>3, <2>4
  <2>7. Persisted' /\ LogUnique'
    BY <2>4
  <2>8. Born'
    BY <2>2, <2>3, <2>4 DEF Typing, TypeOK
  <2>9. QED BY <2>5, <2>6, <2>7, <2>8
<1>6. ASSUME NEW r \in Run, ApplyDelta(r) PROVE Stamps'
  <2>1. phase[r] # "unborn" /\ sequence[r] \in 0 .. MaxSequence
    BY <1>6 DEF ApplyDelta, Typing, TypeOK
  <2>2. QED BY <1>6, <2>1, FreshStamp DEF ApplyDelta
<1>7. ASSUME NEW r \in Run, HeartbeatCheck(r) PROVE Stamps'
  BY <1>7 DEF HeartbeatCheck, ShouldDestruct
<1>8. ASSUME NEW r \in Run, DropContext(r) \/ BindRecovery(r) \/ StopRecovery(r) PROVE Stamps'
  BY <1>8 DEF DropContext, BindRecovery, StopRecovery, ShouldDestruct, Typing, TypeOK, Message
<1>9. CASE Crash
  BY <1>9 DEF Crash, Typing, TypeOK, Message
<1>10. CASE UNCHANGED vars
  BY <1>10 DEF vars
<1>11. ASSUME NEW r \in Run, Heartbeat(r) PROVE Stamps'
  <2>1. sequence[r] \in 0 .. MaxSequence
    BY <1>11 DEF Heartbeat, Typing, TypeOK, Room
  <2>2. phase[r] # "unborn"
    BY <1>11 DEF Heartbeat, Tasks, HeartbeatSpawned
  <2>3. QED BY <1>11, <2>1, <2>2, FreshStamp DEF Heartbeat
<1>12. QED
  BY <1>2, <1>3, <1>4, <1>5, <1>6, <1>7, <1>8, <1>9, <1>10, <1>11 DEF Next

-----------------------------------------------------------------------------
(* Layers 1 to 3 together, and what follows from them at once. *)

Safe == Typing /\ Tasks /\ Stamps

\* The three layers hold always.
LEMMA SafeInvariant == Spec => []Safe
<1>1. Init => Safe
  BY MaxSequenceAssumption
  DEF Init, Safe, Typing, TypeOK, Room, Tasks, HeartbeatSpawned, SenderWaits, OneInFlight,
      OneActive, Active, InFlight, Stamps, Persisted, BelowCounter, OneStamp, WrittenOnce,
      LogUnique, Born, Seen, Log!LogInit
<1>2. Safe /\ [Next]_vars => Safe'
  BY TypingInductive, TasksInductive, StampsInductive DEF Safe
<1>3. QED BY <1>1, <1>2, PTL DEF Spec

\* The publisher implements the promise of MasterLog: whatever its tasks and
\* those of earlier runs do, a datagram is persisted before it is sent, and a
\* number is recorded at most once (Publisher::publish, mod.rs:96-114).
THEOREM PublisherImplementsMasterLog == Spec => ImplementsMasterLog
<1>1. Init => Log!LogInit
  BY DEF Init
<1>2. Safe /\ [Next]_vars => [Log!LogNext]_(Log!logVars)
  <2>1. SUFFICES ASSUME Safe, [Next]_vars PROVE [Log!LogNext]_(Log!logVars)
    OBVIOUS
  <2> USE <2>1 DEF Log!logVars
  <2>2. ASSUME NEW m \in writing, WriteMessage(m) PROVE Log!LogNext
    BY <2>2 DEF WriteMessage, Log!LogNext, Safe, Typing, TypeOK
  <2>3. ASSUME NEW m \in writing, WriteFails(m) PROVE UNCHANGED Log!logVars
    BY <2>3 DEF WriteFails
  <2>4. ASSUME NEW m \in sending, Send(m) PROVE Log!LogNext
    BY <2>4 DEF Send, Log!LogNext, Safe, Typing, TypeOK
  <2>5. ASSUME NEW m \in sending, SendFails(m) PROVE UNCHANGED Log!logVars
    BY <2>5 DEF SendFails
  <2>6. ASSUME NEW r \in Run,
               \/ RunPublisher(r) \/ ApplyDelta(r) \/ HeartbeatCheck(r) \/ Heartbeat(r)
               \/ DropContext(r) \/ BindRecovery(r) \/ StopRecovery(r)
        PROVE  UNCHANGED Log!logVars
    BY <2>6 DEF RunPublisher, ApplyDelta, HeartbeatCheck, ShouldDestruct, Heartbeat,
                DropContext, BindRecovery, StopRecovery
  <2>7. CASE Crash
    BY <2>7 DEF Crash
  <2>8. CASE UNCHANGED vars
    BY <2>8 DEF vars
  <2>9. QED BY <2>2, <2>3, <2>4, <2>5, <2>6, <2>7, <2>8 DEF Next
<1>3. QED BY <1>1, <1>2, SafeInvariant, PTL DEF Spec, ImplementsMasterLog, Log!LogSpec

-----------------------------------------------------------------------------
(* Runs follow one another in the log, but for late heartbeats. *)

\* Of two runs only one is active; everything of the others but heartbeats is
\* below its counter and below its messages.
Later ==
    \A r \in Run : Active(r) =>
        \A o \in master_log : o.run # r /\ o.payload # "Heartbeat" =>
            /\ o.sequence < sequence[r]
            /\ \A m \in Seen : m.run = r => o.sequence < m.sequence

\* A run takes its first number from the log, so it stays above earlier runs.
LEMMA LaterInductive == Safe /\ Later /\ [Next]_vars => Later'
<1>1. SUFFICES ASSUME Safe, Later, [Next]_vars PROVE Later'
  OBVIOUS
<1> USE <1>1, MaxSequenceAssumption DEF Safe, Later, Seen, Active
<1>2. ASSUME NEW m \in writing, WriteMessage(m) PROVE Later'
  <2>1. m.payload # "Heartbeat" => Active(m.run)
    BY DEF Tasks, SenderWaits, InFlight, Typing, TypeOK, Message
  <2>2. \A r \in Run : Active(r) /\ m.run # r => m.payload = "Heartbeat"
    BY <2>1 DEF Tasks, OneActive, Typing, TypeOK, Message
  <2>3. QED BY <1>2, <2>2 DEF WriteMessage, Log!Record
<1>3. ASSUME NEW m \in writing, WriteFails(m) PROVE Later'
  BY <1>3 DEF WriteFails, Returned, Typing, TypeOK, Tasks, SenderWaits, InFlight, Message
<1>4. ASSUME NEW m \in sending, Send(m) \/ SendFails(m) PROVE Later'
  BY <1>4 DEF Send, SendFails, Returned, Log!Multicast, Typing, TypeOK, Tasks, SenderWaits,
              InFlight, Message
<1>5. ASSUME NEW r \in Run, RunPublisher(r) PROVE Later'
  <2> DEFINE n == Log!NextSequence
             s == [sequence |-> n, payload |-> "Started", run |-> r]
  <2>1. n \in Nat /\ \A m \in master_log : m.sequence < n /\ m.sequence \in Nat
    BY NextSequenceIsFresh DEF Typing, TypeOK, Message
  <2>2. \A m \in Seen : m.run # r
    BY <1>5 DEF RunPublisher, Stamps, Born
  <2>3. writing' = writing \union {s} /\ s.run = r /\ s.sequence = n
    BY <1>5 DEF RunPublisher
  <2>4. /\ sequence' = [sequence EXCEPT ![r] = n + 1]
        /\ phase' = [phase EXCEPT ![r] = "starting"]
        /\ master_log' = master_log
        /\ \A q \in Run : ~ Active(q)
    BY <1>5 DEF RunPublisher
  <2> HIDE DEF n, s
  <2>5. \A q \in Run : Active(q)' => q = r
    BY <2>4 DEF Typing, TypeOK
  <2>6. sequence'[r] = n + 1
    BY <2>4 DEF Typing, TypeOK
  <2>7. \A m \in Seen' : m.run = r => m.sequence = n
    BY <2>2, <2>3, <2>4
  <2>8. QED BY <2>1, <2>4, <2>5, <2>6, <2>7
<1>6. ASSUME NEW r \in Run, ApplyDelta(r) PROVE Later'
  BY <1>6 DEF ApplyDelta, Stamped, Typing, TypeOK, Message
<1>7. ASSUME NEW r \in Run, Heartbeat(r) PROVE Later'
  BY <1>7 DEF Heartbeat, Stamped, Typing, TypeOK, Message
<1>8. ASSUME NEW r \in Run,
             HeartbeatCheck(r) \/ DropContext(r) \/ BindRecovery(r) \/ StopRecovery(r)
      PROVE  Later'
  BY <1>8 DEF HeartbeatCheck, ShouldDestruct, DropContext, BindRecovery, StopRecovery,
              Typing, TypeOK
<1>9. CASE Crash
  BY <1>9 DEF Crash, Typing, TypeOK
<1>10. CASE UNCHANGED vars
  BY <1>10 DEF vars
<1>11. QED
  BY <1>2, <1>3, <1>4, <1>5, <1>6, <1>7, <1>8, <1>9, <1>10 DEF Next

\* It holds always, with the layers below it.
LEMMA LaterInvariant == Spec => [](Safe /\ Later)
<1>1. Init => Later
  BY DEF Init, Later, Active
<1>2. QED BY <1>1, LaterInductive, SafeInvariant, PTL DEF Spec

\* No run ever loses a number to another run's delta or Started message, nor
\* to itself: a conflict of primary keys has a late heartbeat in it
\* (heartbeat.rs:61-69 against mod.rs:137).
THEOREM ConflictsNeedHeartbeat == Spec => []ConflictsOnlyWithHeartbeat
<1>1. Safe /\ Later => ConflictsOnlyWithHeartbeat
  <2>1. SUFFICES ASSUME Safe, Later, NEW m \in writing, NEW row \in master_log,
                        row.sequence = m.sequence
                 PROVE  row.run # m.run /\ "Heartbeat" \in {row.payload, m.payload}
    BY DEF ConflictsOnlyWithHeartbeat
  <2> USE <2>1
  <2>2. row.run # m.run
    BY DEF Safe, Stamps, OneStamp, WrittenOnce, Seen
  <2>3. ASSUME m.payload # "Heartbeat", row.payload # "Heartbeat" PROVE FALSE
    <3>1. m.run \in Run /\ m.sequence \in Nat
      BY MaxSequenceAssumption DEF Safe, Typing, TypeOK, Message
    <3>2. Active(m.run)
      BY <2>3 DEF Safe, Tasks, SenderWaits, InFlight, Active, Typing, TypeOK, Message
    <3>3. QED BY <2>2, <2>3, <3>1, <3>2 DEF Later, Seen
  <2>4. QED BY <2>2, <2>3
<1>2. QED BY <1>1, LaterInvariant, PTL

\* The deltas and the Started message of a later run are numbered above those
\* of every earlier run (next_sequence, sqlite/publisher.rs:23-36).
THEOREM LaterRunsAreNumberedLater == Spec => []LaterRunsAreLater
<1>1. Later => LaterRunsAreLater
  BY DEF Later, LaterRunsAreLater, Seen
<1>2. QED BY <1>1, LaterInvariant, PTL

-----------------------------------------------------------------------------
(* Started comes first. *)

HasStarted(r, n) ==
    \E s \in master_log : s.run = r /\ s.payload = "Started" /\ s.sequence < n

\* Whoever may stamp, or has stamped, something other than Started comes after
\* a Started message of its run that is in the log.
StartedBefore ==
    /\ \A r \in Run : phase[r] = "running" \/ heartbeat[r] # "none" =>
         HasStarted(r, sequence[r])
    /\ \A m \in Seen : m.payload # "Started" => HasStarted(m.run, m.sequence)

\* A run publishes nothing else before its Started was recorded.
LEMMA StartedBeforeInductive == Safe /\ StartedBefore /\ [Next]_vars => StartedBefore'
<1>1. SUFFICES ASSUME Safe, StartedBefore, [Next]_vars PROVE StartedBefore'
  OBVIOUS
<1> USE <1>1, MaxSequenceAssumption DEF Safe, StartedBefore, HasStarted, Seen
<1>2. ASSUME NEW m \in writing, WriteMessage(m) PROVE StartedBefore'
  BY <1>2 DEF WriteMessage, Log!Record
<1>3. ASSUME NEW m \in writing, WriteFails(m) PROVE StartedBefore'
  BY <1>3 DEF WriteFails, Returned, Typing, TypeOK, Tasks, SenderWaits, InFlight, Message
<1>4. ASSUME NEW m \in sending, Send(m) \/ SendFails(m) PROVE StartedBefore'
  <2>1. m \in master_log /\ m.sequence < sequence[m.run] /\ m.run \in Run
    BY DEF Stamps, Persisted, BelowCounter, Typing, TypeOK, Message
  <2>2. UNCHANGED <<master_log, writing, sequence>>
    BY <1>4 DEF Send, SendFails, Returned, Log!Multicast
  <2>3. \A r \in Run : phase'[r] = "running" \/ heartbeat'[r] # "none" =>
          \/ phase[r] = "running" \/ heartbeat[r] # "none"
          \/ r = m.run /\ m.payload = "Started"
    BY <1>4, <2>1 DEF Send, SendFails, Returned, Typing, TypeOK, Tasks, SenderWaits, InFlight
  <2>4. QED BY <2>1, <2>2, <2>3
<1>5. ASSUME NEW r \in Run, RunPublisher(r) PROVE StartedBefore'
  BY <1>5 DEF RunPublisher, Typing, TypeOK, Tasks, HeartbeatSpawned
<1>6. ASSUME NEW r \in Run, ApplyDelta(r) PROVE StartedBefore'
  BY <1>6 DEF ApplyDelta, Stamped, Typing, TypeOK, Message
<1>7. ASSUME NEW r \in Run, Heartbeat(r) PROVE StartedBefore'
  BY <1>7 DEF Heartbeat, Stamped, Typing, TypeOK, Message
<1>8. ASSUME NEW r \in Run,
             HeartbeatCheck(r) \/ DropContext(r) \/ BindRecovery(r) \/ StopRecovery(r)
      PROVE  StartedBefore'
  BY <1>8 DEF HeartbeatCheck, ShouldDestruct, DropContext, BindRecovery, StopRecovery,
              Typing, TypeOK
<1>9. CASE Crash
  BY <1>9 DEF Crash, Typing, TypeOK
<1>10. CASE UNCHANGED vars
  BY <1>10 DEF vars
<1>11. QED
  BY <1>2, <1>3, <1>4, <1>5, <1>6, <1>7, <1>8, <1>9, <1>10 DEF Next

\* The first row a run leaves in the log is its Started message
\* (mod.rs:146-177).
THEOREM StartedComesFirst == Spec => []StartedFirst
<1>1. Init => StartedBefore
  BY DEF Init, StartedBefore, Seen, Log!LogInit
<1>2. StartedBefore => StartedFirst
  BY DEF StartedBefore, StartedFirst, HasStarted, Seen
<1>3. QED BY <1>1, <1>2, StartedBeforeInductive, SafeInvariant, PTL DEF Spec

-----------------------------------------------------------------------------
(* The in-memory state of a run against its deltas. *)

OwnDeltas(r) == {m \in master_log : m.run = r /\ m.payload = "Delta"}

\* The property, for every run that has begun, and for the deltas on their
\* way: what is being written has been applied.
Accounted ==
    /\ \A r \in Run : /\ OwnDeltas(r) \subseteq state[r]
                      /\ state[r] \subseteq OwnDeltas(r) \union writing \union errored
    /\ \A m \in writing : m.payload = "Delta" => m \in state[m.run]
    /\ \A r \in Run : \A m \in state[r] : m.run = r /\ m.payload = "Delta"

\* A delta is applied before it is written, and written or given up after.
LEMMA AccountedInductive == Safe /\ Accounted /\ [Next]_vars => Accounted'
<1>1. SUFFICES ASSUME Safe, Accounted, [Next]_vars PROVE Accounted'
  OBVIOUS
<1> USE <1>1 DEF Safe, Accounted, OwnDeltas
<1>2. ASSUME NEW m \in writing, WriteMessage(m) PROVE Accounted'
  BY <1>2 DEF WriteMessage, Log!Record
<1>3. ASSUME NEW m \in writing, WriteFails(m) PROVE Accounted'
  BY <1>3 DEF WriteFails, Returned
<1>4. ASSUME NEW m \in sending, Send(m) \/ SendFails(m) PROVE Accounted'
  BY <1>4 DEF Send, SendFails, Returned, Log!Multicast
<1>5. ASSUME NEW r \in Run, RunPublisher(r) PROVE Accounted'
  <2>1. \A m \in Seen : m.run # r
    BY <1>5 DEF RunPublisher, Stamps, Born
  <2>2. QED BY <1>5, <2>1 DEF RunPublisher, Typing, TypeOK, Message, Seen
<1>6. ASSUME NEW r \in Run, ApplyDelta(r) PROVE Accounted'
  BY <1>6 DEF ApplyDelta, Stamped, Typing, TypeOK, Message
<1>7. ASSUME NEW r \in Run, Heartbeat(r) PROVE Accounted'
  BY <1>7 DEF Heartbeat, Stamped
<1>8. ASSUME NEW r \in Run,
             HeartbeatCheck(r) \/ DropContext(r) \/ BindRecovery(r) \/ StopRecovery(r)
      PROVE  Accounted'
  BY <1>8 DEF HeartbeatCheck, ShouldDestruct, DropContext, BindRecovery, StopRecovery
<1>9. CASE Crash
  BY <1>9 DEF Crash
<1>10. CASE UNCHANGED vars
  BY <1>10 DEF vars
<1>11. QED
  BY <1>2, <1>3, <1>4, <1>5, <1>6, <1>7, <1>8, <1>9, <1>10 DEF Next

\* It holds always, with the layers below it.
LEMMA AccountedInvariant == Spec => [](Safe /\ Accounted)
<1>1. Init => Accounted
  BY DEF Init, Accounted, OwnDeltas, Log!LogInit
<1>2. QED BY <1>1, AccountedInductive, SafeInvariant, PTL DEF Spec

\* What a run recorded it has applied, and what it applied is recorded, being
\* written, or reported to the application as an error (context.rs:65-89).
THEOREM StateIsAccounted == Spec => []StateAccounted
<1>1. Accounted => StateAccounted
  BY DEF Accounted, StateAccounted, OwnDeltas
<1>2. QED BY <1>1, AccountedInvariant, PTL

\* What failed is neither in the log nor on its way there, nor will be: its
\* stamp was given out.
Settled ==
    /\ errored \intersect Seen = {}
    /\ \A m \in errored : m.sequence < sequence[m.run] /\ phase[m.run] # "unborn"

\* A message whose publish has failed is never written later.
LEMMA SettledInductive == Safe /\ Settled /\ [Next]_vars => Settled'
<1>1. SUFFICES ASSUME Safe, Settled, [Next]_vars PROVE Settled'
  OBVIOUS
<1> USE <1>1, MaxSequenceAssumption DEF Safe, Settled, Seen
<1>0. \A m \in Seen \union errored : /\ m.run \in Run /\ m.sequence \in Nat
                                    /\ m.sequence < sequence[m.run]
                                    /\ phase[m.run] # "unborn"
  BY DEF Stamps, BelowCounter, Born, Typing, TypeOK, Message
<1>2. ASSUME NEW m \in writing, WriteMessage(m) PROVE Settled'
  BY <1>2 DEF WriteMessage, Log!Record
<1>3. ASSUME NEW m \in writing, WriteFails(m) PROVE Settled'
  BY <1>0, <1>3 DEF WriteFails, Returned, Stamps, WrittenOnce, Typing, TypeOK
<1>4. ASSUME NEW m \in sending, Send(m) \/ SendFails(m) PROVE Settled'
  BY <1>0, <1>4 DEF Send, SendFails, Returned, Log!Multicast, Typing, TypeOK
<1>5. ASSUME NEW r \in Run, RunPublisher(r) PROVE Settled'
  BY <1>0, <1>5 DEF RunPublisher, Typing, TypeOK
<1>6. ASSUME NEW r \in Run, ApplyDelta(r) PROVE Settled'
  <2>1. \A m \in Seen \union errored : m # Stamped(r, "Delta")
    BY <1>0 DEF Stamped
  <2>2. Stamped(r, "Delta").run = r /\ Stamped(r, "Delta").sequence = sequence[r]
    BY DEF Stamped
  <2>3. /\ sequence' = [sequence EXCEPT ![r] = @ + 1]
        /\ phase' = phase /\ phase[r] = "running" /\ master_log' = master_log
        /\ \/ writing' = writing \union {Stamped(r, "Delta")} /\ errored' = errored
           \/ writing' = writing /\ errored' = errored \union {Stamped(r, "Delta")}
    BY <1>6 DEF ApplyDelta
  <2> HIDE DEF Seen
  <2>4. errored' \intersect Seen' = {}
    <3>1. CASE writing' = writing \union {Stamped(r, "Delta")} /\ errored' = errored
      <4>1. Seen' = Seen \union {Stamped(r, "Delta")}
        BY <2>3, <3>1 DEF Seen
      <4>2. QED BY <2>1, <3>1, <4>1
    <3>2. CASE writing' = writing /\ errored' = errored \union {Stamped(r, "Delta")}
      <4>1. Seen' = Seen
        BY <2>3, <3>2 DEF Seen
      <4>2. QED BY <2>1, <3>2, <4>1
    <3>3. QED BY <2>3, <3>1, <3>2
  <2>5. \A m \in errored' : m.sequence < sequence'[m.run] /\ phase'[m.run] # "unborn"
    BY <1>0, <2>2, <2>3 DEF Typing, TypeOK
  <2>6. QED BY <2>4, <2>5
<1>7. ASSUME NEW r \in Run, Heartbeat(r) PROVE Settled'
  <2>1. \A m \in errored : m # Stamped(r, "Heartbeat")
    BY <1>0 DEF Stamped
  <2>2. QED BY <1>0, <1>7, <2>1 DEF Heartbeat, Typing, TypeOK
<1>8. ASSUME NEW r \in Run,
             HeartbeatCheck(r) \/ DropContext(r) \/ BindRecovery(r) \/ StopRecovery(r)
      PROVE  Settled'
  BY <1>0, <1>8 DEF HeartbeatCheck, ShouldDestruct, DropContext, BindRecovery, StopRecovery,
                    Typing, TypeOK
<1>9. CASE Crash
  BY <1>0, <1>9 DEF Crash, Stamps, WrittenOnce, Typing, TypeOK
<1>10. CASE UNCHANGED vars
  BY <1>10 DEF vars
<1>11. QED
  BY <1>2, <1>3, <1>4, <1>5, <1>6, <1>7, <1>8, <1>9, <1>10 DEF Next

\* The state of a run but for what failed or is still to be written is, to the
\* delta, what the log holds of it.
LEMMA StateIsLogged ==
  Spec => [](\A r \in Run : state[r] \ (errored \union writing) = OwnDeltas(r))
<1>1. Init => Settled
  BY DEF Init, Settled
<1>2. Safe /\ Accounted /\ Settled =>
        \A r \in Run : state[r] \ (errored \union writing) = OwnDeltas(r)
  BY DEF Safe, Stamps, WrittenOnce, Accounted, OwnDeltas, Settled, Seen
<1>3. QED BY <1>1, <1>2, AccountedInvariant, SettledInductive, PTL DEF Spec

-----------------------------------------------------------------------------
(* No number is lost while nothing but the socket fails. *)

Taken(n) == \E m \in Seen : m.sequence = n

Dense == \A r \in Run : \A n \in 0 .. sequence[r] - 1 : Taken(n)

\* A stamp that is handed to the writer takes its number.
LEMMA DenseStamp ==
  ASSUME Safe, Dense, NEW r \in Run, NEW p,
         sequence' = [sequence EXCEPT ![r] = @ + 1],
         writing' = writing \union {Stamped(r, p)},
         master_log' = master_log
  PROVE  Dense'
<1>1. /\ sequence \in [Run -> 0 .. MaxSequence + 1]
      /\ Stamped(r, p).sequence = sequence[r]
  BY DEF Safe, Typing, TypeOK, Stamped
<1>2. \A n : Taken(n) => Taken(n)'
  BY DEF Taken, Seen
<1>3. \A n : n = sequence[r] => Taken(n)'
  BY <1>1 DEF Taken, Seen
<1>4. SUFFICES ASSUME NEW q \in Run, NEW n \in 0 .. sequence'[q] - 1
               PROVE  Taken(n)'
  BY DEF Dense
<1>5. CASE n \in 0 .. sequence[q] - 1
  BY <1>2, <1>5 DEF Dense
<1>6. CASE n \notin 0 .. sequence[q] - 1
  <2>1. n = sequence[r]
    BY <1>1, <1>6, MaxSequenceAssumption
  <2>2. QED BY <2>1, <1>3
<1>7. QED BY <1>5, <1>6

\* Where no delta is refused, no insert fails and nothing dies, no step leaves a
\* number behind.
LEMMA DenseInductive ==
  ASSUME Faults \subseteq {"send"}
  PROVE  Safe /\ Dense /\ [Next]_vars => Dense'
<1>1. SUFFICES ASSUME Safe, Dense, [Next]_vars PROVE Dense'
  OBVIOUS
<1> USE <1>1, MaxSequenceAssumption DEF Safe, Dense, Taken, Seen
<1>2. ASSUME NEW m \in writing, WriteMessage(m) PROVE Dense'
  BY <1>2 DEF WriteMessage, Log!Record
<1>3. ASSUME NEW m \in writing, WriteFails(m) PROVE Dense'
  <2>1. PICK row \in master_log : row.sequence = m.sequence
    BY <1>3 DEF WriteFails, Log!Ids, Log!SequencesOf
  <2>2. QED BY <1>3, <2>1 DEF WriteFails, Returned
<1>4. ASSUME NEW m \in sending, Send(m) \/ SendFails(m) PROVE Dense'
  BY <1>4 DEF Send, SendFails, Returned, Log!Multicast
<1>5. ASSUME NEW r \in Run, RunPublisher(r) PROVE Dense'
  <2> DEFINE n == Log!NextSequence
             s == [sequence |-> n, payload |-> "Started", run |-> r]
  <2>1. /\ n \in Nat
        /\ n = 0 \/ \E m \in master_log : m.sequence = n - 1
    BY NextSequenceIsFresh DEF Typing
  <2>2. writing' = writing \union {s} /\ s.sequence = n
    BY <1>5 DEF RunPublisher
  <2>3. sequence' = [sequence EXCEPT ![r] = n + 1] /\ master_log' = master_log
    BY <1>5 DEF RunPublisher
  <2> HIDE DEF n, s
  <2>4. \A k \in 0 .. n - 1 : Taken(k)
    <3>1. CASE n = 0
      BY <3>1
    <3>2. ASSUME NEW m \in master_log, m.sequence = n - 1 PROVE \A k \in 0 .. n - 1 : Taken(k)
      <4>1. m.run \in Run /\ n - 1 < sequence[m.run] /\ sequence[m.run] \in Nat
        BY <3>2 DEF Stamps, BelowCounter, Typing, TypeOK, Message
      <4>2. QED BY <2>1, <4>1
    <3>3. QED BY <2>1, <3>1, <3>2
  <2>5. \A k \in 0 .. n : Taken(k)'
    BY <2>1, <2>2, <2>3, <2>4
  <2>6. QED BY <2>1, <2>2, <2>3, <2>5 DEF Typing, TypeOK
<1>6. ASSUME NEW r \in Run, ApplyDelta(r) PROVE Dense'
  <2>1. /\ sequence' = [sequence EXCEPT ![r] = @ + 1]
        /\ writing' = writing \union {Stamped(r, "Delta")}
        /\ master_log' = master_log
    BY <1>6 DEF ApplyDelta
  <2>2. QED BY <2>1, DenseStamp
<1>7. ASSUME NEW r \in Run, Heartbeat(r) PROVE Dense'
  BY <1>7, DenseStamp DEF Heartbeat
<1>8. ASSUME NEW r \in Run,
             HeartbeatCheck(r) \/ DropContext(r) \/ BindRecovery(r) \/ StopRecovery(r)
      PROVE  Dense'
  BY <1>8 DEF HeartbeatCheck, ShouldDestruct, DropContext, BindRecovery, StopRecovery
<1>9. CASE Crash
  BY <1>9 DEF Crash
<1>10. CASE UNCHANGED vars
  BY <1>10 DEF vars
<1>11. QED
  BY <1>2, <1>3, <1>4, <1>5, <1>6, <1>7, <1>8, <1>9, <1>10 DEF Next

\* When no delta is refused, no insert fails and the process does not die,
\* every number ever stamped is in the log or being written, also while two
\* runs overlap: a subscriber that waits for a number waits for something.
THEOREM NoNumberIsLost ==
  ASSUME Faults \subseteq {"send"}
  PROVE  Spec => []NoNumberLost
<1>1. Init => Dense
  BY DEF Init, Dense
<1>2. Dense => NoNumberLost
  BY DEF Dense, NoNumberLost, Taken, Seen, Log!Ids, Log!SequencesOf
<1>3. Safe /\ Dense /\ [Next]_vars => Dense'
  BY DenseInductive
<1>4. QED BY <1>1, <1>2, <1>3, SafeInvariant, PTL DEF Spec

-----------------------------------------------------------------------------
(* A number lost before a recorded one stays lost. *)

\* A step that adds no row a run may not have stamped, and hands out only
\* stamps that are not the hole, leaves it a hole.
LEMMA HoleKept ==
  ASSUME NEW n \in 0 .. MaxSequence, Hole(n), master_log \subseteq master_log',
         \A m \in (master_log \union writing)' :
             m \in master_log \union writing \/ m.sequence # n,
         \A r \in Run : MayStamp(r)' => n < sequence'[r]
  PROVE  Hole(n)'
BY DEF Hole, Log!SequencesOf

\* Whatever may still stamp is beyond every hole, and a new run begins beyond
\* the largest row.
LEMMA HolePreserved ==
  ASSUME Safe, [Next]_vars, NEW n \in 0 .. MaxSequence, Hole(n)
  PROVE  Hole(n)'
<1> USE MaxSequenceAssumption
<1>1. /\ \A r \in Run : MayStamp(r) => n < sequence[r]
      /\ \A m \in master_log \union writing : m.sequence # n
      /\ sequence \in [Run -> 0 .. MaxSequence + 1]
  BY DEF Hole, Log!SequencesOf, Safe, Typing, TypeOK
<1>2. ASSUME NEW m \in writing, WriteMessage(m) PROVE Hole(n)'
  BY <1>1, <1>2, HoleKept DEF WriteMessage, Log!Record, MayStamp, Active
<1>3. ASSUME NEW m \in writing, WriteFails(m) PROVE Hole(n)'
  <2>1. \A r \in Run : MayStamp(r)' => MayStamp(r)
    BY <1>3 DEF WriteFails, Returned, MayStamp, Active, Safe, Typing, TypeOK, Tasks,
                SenderWaits, InFlight, Message
  <2>2. QED BY <1>1, <1>3, <2>1, HoleKept DEF WriteFails, Returned
<1>4. ASSUME NEW m \in sending, Send(m) \/ SendFails(m) PROVE Hole(n)'
  <2>1. \A r \in Run : MayStamp(r)' => MayStamp(r)
    BY <1>4 DEF Send, SendFails, Returned, MayStamp, Active, Safe, Typing, TypeOK, Tasks,
                SenderWaits, InFlight, Message
  <2>2. QED BY <1>1, <1>4, <2>1, HoleKept DEF Send, SendFails, Returned, Log!Multicast
<1>5. ASSUME NEW r \in Run, RunPublisher(r) PROVE Hole(n)'
  <2> DEFINE k == Log!NextSequence
             s == [sequence |-> k, payload |-> "Started", run |-> r]
  <2>1. k \in Nat /\ \A m \in master_log : m.sequence < k
    BY NextSequenceIsFresh DEF Safe, Typing
  <2>2. PICK m \in master_log : n < m.sequence
    BY DEF Hole
  <2>3. m.sequence \in Nat
    BY <2>2 DEF Safe, Typing, TypeOK, Message
  <2>4. n < k
    BY <2>1, <2>2, <2>3
  <2>5. /\ writing' = writing \union {s} /\ s.sequence = k
        /\ sequence' = [sequence EXCEPT ![r] = k + 1]
        /\ phase' = [phase EXCEPT ![r] = "starting"]
        /\ UNCHANGED <<master_log, heartbeat>>
    BY <1>5 DEF RunPublisher
  <2> HIDE DEF k, s
  <2>6. ASSUME NEW q \in Run, MayStamp(q)' PROVE n < sequence'[q]
    <3>1. CASE q = r
      BY <1>1, <2>1, <2>4, <2>5, <3>1
    <3>2. CASE q # r
      BY <1>1, <2>5, <2>6, <3>2 DEF MayStamp, Active, Safe, Typing, TypeOK
    <3>3. QED BY <3>1, <3>2
  <2>7. \A o \in (master_log \union writing)' :
            o \in master_log \union writing \/ o.sequence # n
    BY <2>1, <2>4, <2>5
  <2>8. QED BY <2>5, <2>6, <2>7, HoleKept
<1>6. ASSUME NEW r \in Run, NEW p, MayStamp(r),
             sequence' = [sequence EXCEPT ![r] = @ + 1],
             writing' = writing \/ writing' = writing \union {Stamped(r, p)},
             \A q \in Run : MayStamp(q)' => MayStamp(q),
             master_log' = master_log
      PROVE  Hole(n)'
  <2>1. n < sequence[r] /\ Stamped(r, p).sequence = sequence[r]
    BY <1>1, <1>6 DEF Stamped
  <2>2. \A q \in Run : MayStamp(q)' => n < sequence'[q]
    BY <1>1, <1>6
  <2>3. QED BY <1>6, <2>1, <2>2, HoleKept
<1>7. ASSUME NEW r \in Run, ApplyDelta(r) PROVE Hole(n)'
  BY <1>6, <1>7 DEF ApplyDelta, MayStamp, Active
<1>8. ASSUME NEW r \in Run, Heartbeat(r) PROVE Hole(n)'
  BY <1>6, <1>8 DEF Heartbeat, MayStamp, Active, Safe, Typing, TypeOK
<1>9. ASSUME NEW r \in Run, HeartbeatCheck(r) PROVE Hole(n)'
  <2>1. \A q \in Run : MayStamp(q)' => MayStamp(q)
    BY <1>9 DEF HeartbeatCheck, ShouldDestruct, MayStamp, Active, Safe, Typing, TypeOK,
                Tasks, HeartbeatSpawned
  <2>2. QED BY <1>1, <1>9, <2>1, HoleKept DEF HeartbeatCheck
<1>10. ASSUME NEW r \in Run, DropContext(r) \/ BindRecovery(r) \/ StopRecovery(r)
       PROVE  Hole(n)'
  <2>1. \A q \in Run : MayStamp(q)' => MayStamp(q)
    BY <1>10 DEF DropContext, BindRecovery, StopRecovery, MayStamp, Active, Safe, Typing, TypeOK
  <2>2. QED BY <1>1, <1>10, <2>1, HoleKept DEF DropContext, BindRecovery, StopRecovery
<1>11. CASE Crash
  <2>1. \A q \in Run : ~ MayStamp(q)'
    BY <1>11 DEF Crash, MayStamp, Active
  <2>2. QED BY <1>1, <1>11, <2>1, HoleKept DEF Crash
<1>12. CASE UNCHANGED vars
  BY <1>1, <1>12, HoleKept DEF vars, MayStamp, Active
<1>13. QED
  BY <1>2, <1>3, <1>4, <1>5, <1>7, <1>8, <1>9, <1>10, <1>11, <1>12 DEF Next

\* A number spent in vain and passed by the log is never recorded afterwards,
\* by no task of any run, whatever fails (context.rs:69-80, mod.rs:137).
THEOREM LostNumbersStayLost == Spec => HolesStay
<1>1. Safe /\ [Next]_vars => [\A n \in 0 .. MaxSequence : Hole(n) => Hole(n)']_vars
  BY HolePreserved
<1>2. QED BY <1>1, SafeInvariant, PTL DEF Spec, HolesStay
==============================================================================
