------------------------------ MODULE MasterLog ------------------------------
(***************************************************************************)
(* What a publisher promises its subscribers, and all a subscriber may     *)
(* rely on: a master log in which a sequence number names at most one      *)
(* message and from which nothing is ever removed, and a multicast group   *)
(* that carries only messages already in that log.                         *)
(*                                                                         *)
(* The log is the master_log table of the publisher's persistence          *)
(* (persistence/publisher_persistence.rs and its SQLite implementation).   *)
(* The promise says nothing of the ORDER in which numbers are recorded,    *)
(* nor that every number is: the publisher's tasks race for the log and a  *)
(* number whose publish failed stays unused.                               *)
(***************************************************************************)
EXTENDS Integers, FiniteSets, FiniteSetsExt

CONSTANT Message        \* the messages a publisher can record

ASSUME MessageAssumption == \A m \in Message : m.sequence \in Nat

VARIABLES
    master_log,         \* the rows of the log, each the message it holds
    sent                \* every datagram handed to the multicast socket: UDP
                        \* may lose it, repeat it or deliver it at any time

logVars == <<master_log, sent>>

SequencesOf(S) == {m.sequence : m \in S}

Ids == SequencesOf(master_log)

-----------------------------------------------------------------------------
(* The queries of the PublisherPersistence trait.                          *)

\* Mutation of NextSequence: the last number instead of the next one
NextSequenceIsLast == IF master_log = {} THEN -1 ELSE Max(Ids)

\* Mutation of NextSequence: DESC is forgotten
NextSequenceAscending == IF master_log = {} THEN 0 ELSE Min(Ids) + 1

\* SELECT id ... ORDER BY id DESC LIMIT 1, plus one; 0 for an empty log
NextSequence == IF master_log = {} THEN 0 ELSE Max(Ids) + 1

\* SELECT raw ... WHERE id = n: no row, or one
ReadSequence(n) == {m \in master_log : m.sequence = n}

\* Mutation of StreamFromSequence: a page of two rows
StreamFromSequencePage(n) == {m \in master_log : m.sequence \in n .. n + 1}

\* SELECT ... WHERE id >= n ORDER BY id: the rows are collected before the
\* stream is returned, so the stream is a snapshot, read in sequence order
StreamFromSequence(n) == {m \in master_log : m.sequence >= n}

\* The row a snapshot stream yields next
First(stream) == CHOOSE m \in stream : \A o \in stream : m.sequence <= o.sequence

-----------------------------------------------------------------------------
LogTypeOK == /\ master_log \subseteq Message
             /\ sent \subseteq Message

LogInit == master_log = {} /\ sent = {}

\* INSERT INTO master_log: id is the primary key, a taken number is refused
Record(m) ==
    /\ m.sequence \notin Ids
    /\ master_log' = master_log \union {m}
    /\ UNCHANGED sent

\* Mutation of Multicast: sent before it is written
MulticastUnrecorded(m) == sent' = sent \union {m} /\ UNCHANGED master_log

\* socket.send, which publish reaches only after write_message returned
Multicast(m) ==
    /\ m \in master_log
    /\ sent' = sent \union {m}
    /\ UNCHANGED master_log

LogNext == \E m \in Message : Record(m) \/ Multicast(m)

LogSpec == LogInit /\ [][LogNext]_logVars
==============================================================================
