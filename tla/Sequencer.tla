------------------------------ MODULE Sequencer ------------------------------
(***************************************************************************)
(* MessageSequencer (subscriber/sequencer.rs): turns the datagrams of a    *)
(* multicast group into a stream of messages in sequence order, buffering  *)
(* what comes early in a MinMaxHeap and asking the publisher's recovery    *)
(* server for what does not come.                                          *)
(*                                                                         *)
(* The environment is any publisher that keeps the promise of MasterLog.   *)
(* UDP may lose, repeat and reorder: any datagram ever sent may arrive at  *)
(* any time, or never.  Time is abstracted to one bit, whether the         *)
(* deadline has passed: it may pass at any moment, since now is read       *)
(* before a wait of unknown length.                                        *)
(*                                                                         *)
(* A step is what next() does between two points where the environment can *)
(* matter; a recovery call reads the log in one step, because the server   *)
(* answers both calls from one query.                                      *)
(***************************************************************************)
EXTENDS MasterLog, Sequences

CONSTANTS
    None,           \* Option::None
    MaxCopies,      \* bound: copies of one sequence number in the heap
    Start,          \* the want_sequence the sequencer is created with
    Faults,         \* what fails beyond what the log's contents cause
    StopOnError     \* the consumer drops the stream on the first error, as
                    \* Aggregator does, or goes on polling it

ASSUME SequencerAssumption ==
    /\ None \notin Int
    /\ \A S \in SUBSET Message : None # S
    /\ MaxCopies \in Nat
    /\ Start \in Nat
    /\ StopOnError \in BOOLEAN
    /\ Faults \subseteq {"rpc",     \* a recovery call, or its stream, breaks
                         "udp",     \* a datagram that cannot be decoded
                         "parse"}   \* a message whose delta cannot be

VARIABLES
    heap, max_id, counter,  \* the MinMaxHeap
    want_sequence,          \* the next number to deliver
    recovery_stream,        \* None, or what is left of a batch recovery
    expired,                \* now > last_deadline
    connected,              \* a datagram came since the last Disconnected
    pc,                     \* "next": top of next(); "listen": in its loop;
                            \* "stopped": dropped by the consumer
    result,                 \* what next() last returned
    delivered               \* history: the messages taken, with their origin
                            \* and whether their delta parsed

heapFields == <<heap, max_id, counter>>
subVars == <<heap, max_id, counter, want_sequence, recovery_stream, expired,
             connected, pc, result, delivered>>
vars == <<master_log, sent, subVars>>

Heap == INSTANCE MinMaxHeap

Messages == [i \in DOMAIN delivered |-> delivered[i].msg]

Ordered == INSTANCE OrderedStream WITH delivered <- Messages

Results == {"none", "Message", "Disconnected", "Malformed", "Decode", "Status",
            "InvalidSequence", "EmptyStream"}

TypeOK ==
    /\ LogTypeOK
    /\ Heap!TypeOK
    /\ want_sequence \in Nat
    /\ recovery_stream = None \/ recovery_stream \subseteq Message
    /\ expired \in BOOLEAN
    /\ connected \in BOOLEAN
    /\ pc \in {"next", "listen", "stopped"}
    /\ result \in Results
    /\ delivered \in Seq([msg : Message, origin : {"Udp", "Missing", "Sync"}, ok : BOOLEAN])

Init ==
    /\ LogInit
    /\ Heap!Init
    /\ want_sequence = Start
    /\ recovery_stream = None
    /\ expired = FALSE
    /\ connected = FALSE
    /\ pc = "next"
    /\ result = "none"
    /\ delivered = << >>

-----------------------------------------------------------------------------
\* next() returns r to the consumer, which polls again
Return(r) ==
    /\ result' = r
    /\ pc' = IF StopOnError /\ r \notin {"Message", "Disconnected"} THEN "stopped" ELSE "next"

\* next() fails before it took a message
Fail(r) ==
    /\ Return(r)
    /\ UNCHANGED <<want_sequence, expired, delivered>>

\* next() takes m, moves the deadline, and only then parses the payload: a
\* delta that does not parse is an error, and its number is gone
Take(m, origin) ==
    /\ want_sequence' = want_sequence + 1
    /\ expired' = FALSE
    /\ \E ok \in IF "parse" \in Faults THEN BOOLEAN ELSE {TRUE} :
         /\ delivered' = Append(delivered, [msg |-> m, origin |-> origin, ok |-> ok])
         /\ Return(IF ok THEN "Message" ELSE "Malformed")

-----------------------------------------------------------------------------
(* Stage 1 of next(): a batch recovery under way comes before all else.    *)

Syncing == pc = "next" /\ recovery_stream # None

SyncNext ==
    /\ Syncing /\ recovery_stream # {}
    /\ First(recovery_stream).sequence = want_sequence
    /\ recovery_stream' = recovery_stream \ {First(recovery_stream)}
    /\ Take(First(recovery_stream), "Sync")
    /\ UNCHANGED <<logVars, heapFields, connected>>

\* The stream skips a number: an error for every message left in it
SyncBroken ==
    /\ Syncing /\ recovery_stream # {}
    /\ First(recovery_stream).sequence # want_sequence
    /\ recovery_stream' = recovery_stream \ {First(recovery_stream)}
    /\ Fail("InvalidSequence")
    /\ UNCHANGED <<logVars, heapFields, connected>>

\* The stream yields an error status, and nothing after it
SyncFails ==
    /\ "rpc" \in Faults
    /\ Syncing
    /\ recovery_stream' = {}
    /\ Fail("Status")
    /\ UNCHANGED <<logVars, heapFields, connected>>

SyncDone ==
    /\ Syncing /\ recovery_stream = {}
    /\ recovery_stream' = None
    /\ UNCHANGED <<logVars, heapFields, want_sequence, expired, connected, pc,
                   result, delivered>>

-----------------------------------------------------------------------------
(* Stage 2: the heap.                                                      *)

Draining == pc = "next" /\ recovery_stream = None

HeapNext ==
    /\ Draining
    /\ \E m \in Heap!Least : /\ m.sequence = want_sequence
                             /\ Heap!Pop(m)
                             /\ Take(m, "Udp")
    /\ UNCHANGED <<logVars, recovery_stream, connected>>

DropStale ==
    /\ Draining
    /\ \E m \in Heap!Least : m.sequence < want_sequence /\ Heap!Pop(m)
    /\ UNCHANGED <<logVars, want_sequence, recovery_stream, expired, connected,
                   pc, result, delivered>>

\* Mutation of Listen: a new deadline on every call
ListenRenews ==
    /\ Draining
    /\ \A m \in Heap!Least : m.sequence > want_sequence
    /\ pc' = "listen"
    /\ expired' = FALSE
    /\ UNCHANGED <<logVars, heapFields, want_sequence, recovery_stream,
                   connected, result, delivered>>

\* Nothing to take: enter the loop, with a new deadline if no datagram has
\* come since the last Disconnected
Listen ==
    /\ Draining
    /\ \A m \in Heap!Least : m.sequence > want_sequence
    /\ pc' = "listen"
    /\ expired' = (connected /\ expired)
    /\ UNCHANGED <<logVars, heapFields, want_sequence, recovery_stream,
                   connected, result, delivered>>

-----------------------------------------------------------------------------
(* Stage 3: the loop.  The deadline is looked at first: once it has passed *)
(* the socket is not read until something is delivered or Disconnected is  *)
(* returned.                                                               *)

Waiting == pc = "listen" /\ ~ expired

Receive(m) ==
    /\ Waiting
    /\ m \in sent
    /\ connected' = TRUE
    /\ \/ /\ m.sequence < want_sequence
          /\ UNCHANGED <<heapFields, want_sequence, expired, pc, result, delivered>>
       \/ /\ m.sequence = want_sequence
          /\ Take(m, "Udp")
          /\ UNCHANGED heapFields
       \/ /\ m.sequence > want_sequence
          /\ Heap!Push(m)
          /\ UNCHANGED <<want_sequence, expired, pc, result, delivered>>
    /\ UNCHANGED <<logVars, recovery_stream>>

DecodeError ==
    /\ "udp" \in Faults
    /\ Waiting
    /\ Fail("Decode")
    /\ UNCHANGED <<logVars, heapFields, recovery_stream, connected>>

\* Time passes: while waiting for a datagram or for a recovery call, or
\* between two calls of next()
Elapse ==
    /\ pc # "stopped"
    /\ ~ expired
    /\ expired' = TRUE
    /\ UNCHANGED <<logVars, heapFields, want_sequence, recovery_stream,
                   connected, pc, result, delivered>>

Overdue == pc = "listen" /\ expired

\* Mutation of Disconnect: an overdue sequencer gives up whatever it buffers
DisconnectRegardless ==
    /\ Overdue
    /\ connected' = FALSE
    /\ Return("Disconnected")
    /\ UNCHANGED <<logVars, heapFields, want_sequence, recovery_stream, expired, delivered>>

\* Nothing buffered: the publisher is presumed silent
Disconnect ==
    /\ Overdue
    /\ Heap!Buffered = {}
    /\ connected' = FALSE
    /\ Return("Disconnected")
    /\ UNCHANGED <<logVars, heapFields, want_sequence, recovery_stream, expired, delivered>>

\* Mutation of SingleMissing: gaps further up are not asked for
SingleMissingAtLeast == \E m \in Heap!Least : want_sequence + 1 = m.sequence

\* The heap says that only the wanted number is missing
SingleMissing ==
    /\ \E m \in Heap!Least : want_sequence + 1 = m.sequence
    /\ ~ Heap!HasGaps

\* get_message: no row is an error status
GetMessage ==
    /\ Overdue
    /\ Heap!Buffered # {}
    /\ SingleMissing
    /\ \/ \E m \in ReadSequence(want_sequence) : Take(m, "Missing")
       \/ /\ ReadSequence(want_sequence) = {}
          /\ Fail("Status")
    /\ UNCHANGED <<logVars, heapFields, recovery_stream, connected>>

\* Mutation of StreamFrom: the number of the first row is not compared
StreamFromUnchecked ==
    LET rows == StreamFromSequence(want_sequence) IN
    /\ Overdue
    /\ Heap!Buffered # {}
    /\ ~ SingleMissing
    /\ IF rows = {} THEN Fail("EmptyStream") /\ UNCHANGED recovery_stream
       ELSE Take(First(rows), "Sync") /\ recovery_stream' = rows \ {First(rows)}
    /\ UNCHANGED <<logVars, heapFields, connected>>

\* stream_from: the rows from want_sequence on, of which the first must be
\* the wanted one; only then is the stream kept for the next calls
StreamFrom ==
    LET rows == StreamFromSequence(want_sequence) IN
    /\ Overdue
    /\ Heap!Buffered # {}
    /\ ~ SingleMissing
    /\ IF rows = {} THEN Fail("EmptyStream") /\ UNCHANGED recovery_stream
       ELSE IF First(rows).sequence # want_sequence
       THEN Fail("InvalidSequence") /\ UNCHANGED recovery_stream
       ELSE Take(First(rows), "Sync") /\ recovery_stream' = rows \ {First(rows)}
    /\ UNCHANGED <<logVars, heapFields, connected>>

\* Either call fails: no server, no connection, a database error
RecoveryFails ==
    /\ "rpc" \in Faults
    /\ Overdue
    /\ Heap!Buffered # {}
    /\ Fail("Status")
    /\ UNCHANGED <<logVars, heapFields, recovery_stream, connected>>

-----------------------------------------------------------------------------
SubNext ==
    \/ SyncNext \/ SyncBroken \/ SyncFails \/ SyncDone
    \/ HeapNext \/ DropStale \/ Listen
    \/ \E m \in sent : Receive(m)
    \/ DecodeError \/ Elapse
    \/ Disconnect \/ GetMessage \/ StreamFrom \/ RecoveryFails

Next == \/ SubNext
        \/ LogNext /\ UNCHANGED subVars

Spec == Init /\ [][Next]_vars

\* The consumer polls, and time passes.  A recovery call that is tried again
\* and again eventually gets through; no datagram is ever sure to arrive and
\* the publisher owes nothing.
Fairness ==
    /\ WF_vars(SyncNext \/ SyncBroken \/ SyncDone \/ HeapNext \/ DropStale \/ Listen)
    /\ WF_vars(Elapse)
    /\ WF_vars(Disconnect)
    /\ SF_vars(GetMessage \/ StreamFrom)

FairSpec == Spec /\ Fairness

-----------------------------------------------------------------------------
(* Properties *)

\* Whatever UDP does, whatever is recovered singly or in batches while newer
\* datagrams wait in the heap, the stream is the publisher's log in order:
\* nothing skipped, nothing twice, nothing that was not recorded
\* (sequencer.rs:37-38: "returns a stream of in order messages").
ImplementsOrderedStream == Ordered!StreamSpec

\* When the deadline passes, get_message is chosen exactly when one number is
\* missing up to the greatest one seen; so a single call closes the gap, and
\* a batch is asked for whenever it would not (sequencer.rs:193-194, through
\* the cached maximum and counter of the heap).
SingleMissingIsExact ==
    pc = "listen" /\ Heap!Buffered # {} =>
        (SingleMissing <=>
            {n \in want_sequence .. max_id : n \notin Heap!BufferedIds} = {want_sequence})

\* A batch recovery brings everything the heap already holds: UDP is not read
\* while it runs, so nothing wanted in the heap is ahead of what the snapshot
\* has left, and when it is done the heap holds only stale messages
\* (publisher_persistence.rs:30-32, sequencer.rs:144-178).
SyncCoversHeap ==
    recovery_stream # None /\ result \in {"Message", "Malformed"} =>
        {m \in Heap!Buffered : m.sequence >= want_sequence} \subseteq recovery_stream

\* The EmptyStream error cannot happen: a batch is asked for only with a
\* message from beyond the gap in the heap, and the publisher recorded it
\* before it sent it (sequencer.rs:226-227).
NeverEmptyStream == result # "EmptyStream"

\* A sequencer that waits with messages in its heap counts as connected, so
\* its deadline runs and it will ask for recovery, instead of renewing the
\* deadline on every call (sequencer.rs:180-182 against 241-246).
BufferedMeansConnected == Heap!Buffered # {} => connected

\* A gap closes: once a number beyond the gap has been seen and the publisher
\* has recorded everything up to it, the sequencer gets past it, although no
\* further datagram ever arrives and recovery calls fail now and then
\* (sequencer.rs:185-272).
CatchesUp ==
    \A n, k \in SequencesOf(Message) :
        want_sequence = n /\ max_id = k /\ n .. k \subseteq Ids
            ~> want_sequence > k
==============================================================================
