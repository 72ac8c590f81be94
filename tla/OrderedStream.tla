----------------------------- MODULE OrderedStream -----------------------------
(***************************************************************************)
(* What a message sequencer promises: the rows of the publisher's log, in  *)
(* the order of their sequence numbers, each once and none skipped,        *)
(* beginning with number Start.  It says nothing of when: a number that is *)
(* not in the log yet, or never will be, holds the stream up.              *)
(***************************************************************************)
EXTENDS MasterLog, Sequences

CONSTANT Start          \* the number the stream begins with, a natural

VARIABLE delivered      \* the messages handed to the application, in order

streamVars == <<master_log, sent, delivered>>

StreamInit == LogInit /\ delivered = << >>

Deliver ==
    \E m \in master_log :
        /\ m.sequence = Start + Len(delivered)
        /\ delivered' = Append(delivered, m)
        /\ UNCHANGED logVars

StreamNext == Deliver \/ (LogNext /\ UNCHANGED delivered)

StreamSpec == StreamInit /\ [][StreamNext]_streamVars
==============================================================================
