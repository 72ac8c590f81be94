------------------------------ MODULE Grapevine ------------------------------
(***************************************************************************)
(* The whole system: the runs of a publisher (Publisher) and one           *)
(* subscriber (Sequencer) over the same log and multicast group.  Each     *)
(* module is proved or checked against the contract between the two,       *)
(* MasterLog; here they run together, so that what depends on the ORDER in *)
(* which the publisher's tasks reach the log can be stated: the transient  *)
(* gaps a subscriber sees, and that they close.                            *)
(***************************************************************************)
EXTENDS Publisher

CONSTANTS None, MaxCopies, Start, SubFaults, StopOnError    \* see Sequencer

\* What Sequencer assumes of them
ASSUME GrapevineAssumption ==
    /\ None \notin Int
    /\ \A S \in SUBSET Message : None # S
    /\ MaxCopies \in Nat
    /\ Start \in Nat
    /\ StopOnError \in BOOLEAN
    /\ SubFaults \subseteq {"rpc", "udp", "parse"}

VARIABLES heap, max_id, counter, want_sequence, recovery_stream, expired,
          connected, pc, result, delivered                  \* see Sequencer

Sub == INSTANCE Sequencer WITH Faults <- SubFaults

pubVars == <<phase, sequence, state, heartbeat, recovery, writing, sending, errored>>
subVars == <<heap, max_id, counter, want_sequence, recovery_stream, expired,
             connected, pc, result, delivered>>
systemVars == <<vars, subVars>>

-----------------------------------------------------------------------------
SystemInit == Init /\ Sub!Init

\* The address of a recovery server answers once a server was bound to it,
\* and its connections live on in their own tasks when the server ends
Answering == \E r \in Run : recovery[r] \in {"serving", "exited"}

\* A call that a recovery server answers
Recover == Answering /\ (Sub!GetMessage \/ Sub!StreamFrom) /\ UNCHANGED pubVars

Subscriber ==
    \/ Recover
    \/ /\ \/ Sub!SyncNext \/ Sub!SyncBroken \/ Sub!SyncFails \/ Sub!SyncDone
          \/ Sub!HeapNext \/ Sub!DropStale \/ Sub!Listen
          \/ \E m \in sent : Sub!Receive(m)
          \/ Sub!DecodeError \/ Sub!Elapse
          \/ Sub!Disconnect \/ Sub!RecoveryFails
       /\ UNCHANGED pubVars

SystemNext == (Next /\ UNCHANGED subVars) \/ Subscriber

SystemSpec == SystemInit /\ [][SystemNext]_systemVars

\* The publisher's tasks and the subscriber are scheduled: awaits of the
\* database and the socket return, a sleeping heartbeat wakes up, a signalled
\* server ends.  Nothing obliges the application to apply a delta or to drop
\* its context.  A recovery call gets through in the end while a server is
\* there to take it.
Served == \E r \in Run : recovery[r] = "serving"

SystemFairness ==
    /\ \A m \in Message : WF_systemVars(Finishes(m) /\ UNCHANGED subVars)
    /\ \A r \in Run : /\ WF_systemVars(BindRecovery(r) /\ UNCHANGED subVars)
                      /\ WF_systemVars(HeartbeatCheck(r) /\ UNCHANGED subVars)
                      /\ WF_systemVars(Heartbeat(r) /\ UNCHANGED subVars)
                      /\ WF_systemVars(StopRecovery(r) /\ UNCHANGED subVars)
    /\ WF_systemVars(/\ \/ Sub!SyncNext \/ Sub!SyncBroken \/ Sub!SyncDone
                        \/ Sub!HeapNext \/ Sub!DropStale \/ Sub!Listen
                     /\ UNCHANGED pubVars)
    /\ WF_systemVars((Sub!Elapse \/ Sub!Disconnect) /\ UNCHANGED pubVars)
    /\ SF_systemVars(Served /\ Recover)

SystemFairSpec == SystemSpec /\ SystemFairness

-----------------------------------------------------------------------------
(* Properties *)

\* End to end, the subscriber's stream is the log of the publisher's runs in
\* order, whatever their tasks race for, whatever UDP does to what they send
\* and whenever recovery answers (mod.rs:96-114 against sequencer.rs:139-273).
StreamsInOrder == Sub!ImplementsOrderedStream

\* The deltas of run r the application behind the sequencer has been given
Replica(r) ==
    {delivered[i].msg : i \in {j \in DOMAIN delivered :
        /\ delivered[j].ok
        /\ delivered[j].msg.payload = "Delta"
        /\ delivered[j].msg.run = r}}

\* A subscriber that has got as far as want_sequence has been given exactly
\* the deltas in the state of the live context up to there, but for those
\* whose publish has failed and those whose number a late heartbeat of an
\* earlier run took, whatever was lost, repeated, batched or raced on the way
\* (context.rs:65-89 against sequencer.rs:139-273).
ReplicaFollowsState ==
    \A r \in Run : phase[r] = "running" =>
        Replica(r) = {d \in state[r] : d.sequence \in Start .. want_sequence - 1}
                     \ (errored \union writing)

\* When nothing fails, recovery asks for a number that is not there only
\* while the publisher is still writing it: a stamp taken earlier is recorded
\* later when the heartbeat task and the context race for the log
\* (heartbeat.rs:73-98, context.rs:66-87, sequencer.rs:196-233).
ErrorsAreTransient ==
    [][pc = "listen" /\ pc' # "listen" /\ result' \in {"Status", "InvalidSequence"}
         => want_sequence \in Sub!SequencesOf(writing)]_systemVars

\* Nothing holds a polling subscriber up for good when no number is lost: it
\* gets past every gap it has noticed, although the gap may be there because
\* the publisher has not written the number yet, as long as a recovery server
\* is there now and again (sequencer.rs:185-272).
GapsClose ==
    []<>Served =>
        \A n, k \in 0 .. MaxSequence :
            want_sequence = n /\ max_id = k ~> want_sequence > k

-----------------------------------------------------------------------------
(* What the documentation says and the code does not do *)

\* README.md:75: "the subscriber will ensure it sees every sequence number".
\* Said of a number that is in the log, with a later one already seen and a
\* recovery server up.
EverySequenceSeen ==
    []<>Served =>
        \A n \in 0 .. MaxSequence :
            /\ n \in Log!Ids
            /\ want_sequence = n
            /\ Sub!Heap!Buffered # {}
            ~> want_sequence > n
==============================================================================
