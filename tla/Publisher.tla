------------------------------ MODULE Publisher ------------------------------
(***************************************************************************)
(* The publisher: Publisher::run (publisher/mod.rs), the PublisherContext  *)
(* an application holds (context.rs), the heartbeat task (heartbeat.rs)    *)
(* and the life of the recovery server (recovery.rs), over a log that      *)
(* outlives them.                                                          *)
(*                                                                         *)
(* A run is one call of Publisher::run and what it leaves behind.  At most *)
(* one context exists at a time, but the tasks of an earlier run may still *)
(* be alive when the next one starts: dropping a context only sends them a *)
(* signal.  The context and the heartbeat task of a run share one          *)
(* PublisherStateWrapper behind a lock; each stamps a message under the    *)
(* lock and publishes it after releasing it, so the two race for the log.  *)
(***************************************************************************)
EXTENDS Integers, FiniteSets

CONSTANTS
    Run,            \* calls of Publisher::run
    MaxSequence,    \* bound: the largest sequence number stamped
    Faults          \* what can fail here, beyond what the code itself causes

ASSUME MaxSequenceAssumption == MaxSequence \in Nat

ASSUME FaultsAssumption ==
    Faults \subseteq {"apply",   \* StateSync::apply_delta refuses a delta
                      "encode",  \* a delta too large for a datagram
                      "write",   \* the database refuses an insert
                      "send",    \* the socket refuses a datagram
                      "crash"}   \* the process dies

VARIABLES
    master_log,     \* see MasterLog
    sent,           \* see MasterLog
    phase,          \* phase[r]: "unborn", "starting" inside run(), "running"
                    \* while its context exists, "stopped"
    sequence,       \* PublisherStateWrapper.sequence of each run
    state,          \* PublisherStateWrapper.state: the deltas applied to it
    heartbeat,      \* the heartbeat task: "none", "loop" (top of the loop or
                    \* sleeping), "checked" (past should_destruct),
                    \* "publishing", "exited"
    recovery,       \* the recovery server: "none", "binding", "serving",
                    \* "exited"
    writing,        \* messages stamped whose write_message is under way
    sending,        \* messages recorded whose socket.send is under way
    errored         \* history: messages whose publish returned an error, or
                    \* died with the process, before they were recorded

vars == <<master_log, sent, phase, sequence, state, heartbeat, recovery,
          writing, sending, errored>>

\* run stands for what tells apart two messages with the same number: the
\* timestamp, and the body of a delta.  A delta is known by its stamp.
Message == [sequence : 0 .. MaxSequence,
            payload  : {"Started", "Heartbeat", "Delta"},
            run      : Run]

Stamped(r, payload) == [sequence |-> sequence[r], payload |-> payload, run |-> r]

Log == INSTANCE MasterLog

InFlight == writing \union sending

Active(r) == phase[r] \in {"starting", "running"}

\* The destructor channel of a run's tasks holds a signal, or its sender is
\* gone, which should_destruct takes for one
ShouldDestruct(r) == phase[r] = "stopped"

\* apply_delta takes &mut self: the context publishes one message at a time
ContextIdle(r) == ~ \E m \in InFlight : m.run = r /\ m.payload = "Delta"

-----------------------------------------------------------------------------
TypeOK ==
    /\ master_log \subseteq Message
    /\ sent \subseteq Message
    /\ phase \in [Run -> {"unborn", "starting", "running", "stopped"}]
    /\ sequence \in [Run -> 0 .. MaxSequence + 1]
    /\ state \in [Run -> SUBSET Message]
    /\ heartbeat \in [Run -> {"none", "loop", "checked", "publishing", "exited"}]
    /\ recovery \in [Run -> {"none", "binding", "serving", "exited"}]
    /\ writing \subseteq Message
    /\ sending \subseteq Message
    /\ errored \subseteq Message

Init ==
    /\ Log!LogInit
    /\ phase = [r \in Run |-> "unborn"]
    /\ sequence = [r \in Run |-> 0]
    /\ state = [r \in Run |-> {}]
    /\ heartbeat = [r \in Run |-> "none"]
    /\ recovery = [r \in Run |-> "none"]
    /\ writing = {}
    /\ sending = {}
    /\ errored = {}

-----------------------------------------------------------------------------
(* Publisher::publish, shared by the three senders of a run: write_message *)
(* then socket.send, each an await that may return an error.               *)

\* Mutation of Returned: run() goes on although Started was not published
ReturnedRegardless(m, ok) ==
    /\ phase' = IF m.payload = "Started" THEN [phase EXCEPT ![m.run] = "running"] ELSE phase
    /\ heartbeat' = IF m.payload \in {"Heartbeat", "Started"}
                    THEN [heartbeat EXCEPT ![m.run] = "loop"]
                    ELSE heartbeat
    /\ UNCHANGED <<sequence, state, recovery>>

\* publish returned to its caller: run() gives the context away and spawns
\* the heartbeat task after a successful Started and gives up after a failed
\* one; the heartbeat task logs an error and sleeps either way; apply_delta
\* only hands the result to the application
Returned(m, ok) ==
    /\ phase' = IF m.payload = "Started"
                THEN [phase EXCEPT ![m.run] = IF ok THEN "running" ELSE "stopped"]
                ELSE phase
    /\ heartbeat' = IF m.payload = "Heartbeat" \/ (m.payload = "Started" /\ ok)
                    THEN [heartbeat EXCEPT ![m.run] = "loop"]
                    ELSE heartbeat
    /\ UNCHANGED <<sequence, state, recovery>>

\* Mutation of WriteMessage: INSERT OR REPLACE
WriteReplaces(m) ==
    /\ m \in writing
    /\ master_log' = {row \in master_log : row.sequence # m.sequence} \union {m}
    /\ writing' = writing \ {m}
    /\ sending' = sending \union {m}
    /\ UNCHANGED <<sent, phase, sequence, state, heartbeat, recovery, errored>>

WriteMessage(m) ==
    /\ m \in writing
    /\ Log!Record(m)
    /\ writing' = writing \ {m}
    /\ sending' = sending \union {m}
    /\ UNCHANGED <<phase, sequence, state, heartbeat, recovery, errored>>

\* The insert meets a taken primary key, or the database fails, or the
\* apply_delta future is dropped before the insert
WriteFails(m) ==
    /\ m \in writing
    /\ m.sequence \in Log!Ids \/ "write" \in Faults
    /\ writing' = writing \ {m}
    /\ errored' = errored \union {m}
    /\ Returned(m, FALSE)
    /\ UNCHANGED <<master_log, sent, sending>>

Send(m) ==
    /\ m \in sending
    /\ Log!Multicast(m)
    /\ sending' = sending \ {m}
    /\ Returned(m, TRUE)
    /\ UNCHANGED <<writing, errored>>

SendFails(m) ==
    /\ m \in sending
    /\ "send" \in Faults
    /\ sending' = sending \ {m}
    /\ Returned(m, FALSE)
    /\ UNCHANGED <<master_log, sent, writing, errored>>

-----------------------------------------------------------------------------
(* Publisher::run up to its first await after reading the log: the counter *)
(* starts where the log ends, the state starts EMPTY (S::default(), not    *)
(* rebuilt from the log), the recovery server is spawned and Started is    *)
(* stamped.                                                                *)
RunPublisher(r) ==
    /\ phase[r] = "unborn"
    /\ \A q \in Run : ~ Active(q)
    /\ Log!NextSequence < MaxSequence
    /\ phase' = [phase EXCEPT ![r] = "starting"]
    /\ sequence' = [sequence EXCEPT ![r] = Log!NextSequence + 1]
    /\ state' = [state EXCEPT ![r] = {}]
    /\ recovery' = [recovery EXCEPT ![r] = "binding"]
    /\ writing' = writing \union
         {[sequence |-> Log!NextSequence, payload |-> "Started", run |-> r]}
    /\ UNCHANGED <<master_log, sent, heartbeat, sending, errored>>

\* Mutation of ApplyDelta: the message is stamped but the counter not moved
ApplyDeltaKeepsCounter(r) ==
    /\ phase[r] = "running"
    /\ ContextIdle(r)
    /\ sequence[r] <= MaxSequence
    /\ state' = [state EXCEPT ![r] = @ \union {Stamped(r, "Delta")}]
    /\ writing' = writing \union {Stamped(r, "Delta")}
    /\ UNCHANGED <<master_log, sent, phase, sequence, heartbeat, recovery, sending, errored>>

\* Mutation of ApplyDelta: the delta is published although the state refused it
ApplyDeltaPublishesRefused(r) ==
    /\ phase[r] = "running"
    /\ ContextIdle(r)
    /\ sequence[r] < MaxSequence
    /\ sequence' = [sequence EXCEPT ![r] = @ + 1]
    /\ writing' = writing \union {Stamped(r, "Delta")}
    /\ UNCHANGED <<master_log, sent, phase, state, heartbeat, recovery, sending, errored>>

\* Mutation of ApplyDelta: the first of two stamps is dropped
ApplyDeltaStampsTwice(r) ==
    LET m == [Stamped(r, "Delta") EXCEPT !.sequence = @ + 1] IN
    /\ phase[r] = "running"
    /\ ContextIdle(r)
    /\ sequence[r] < MaxSequence
    /\ sequence' = [sequence EXCEPT ![r] = @ + 2]
    /\ state' = [state EXCEPT ![r] = @ \union {m}]
    /\ writing' = writing \union {m}
    /\ UNCHANGED <<master_log, sent, phase, heartbeat, recovery, sending, errored>>

\* apply_delta: stamp, then apply, both under the lock; the number is spent
\* even when the delta is refused, or found too large when it is encoded
ApplyDelta(r) ==
    /\ phase[r] = "running"
    /\ ContextIdle(r)
    /\ sequence[r] < MaxSequence
    /\ sequence' = [sequence EXCEPT ![r] = @ + 1]
    /\ \/ /\ state' = [state EXCEPT ![r] = @ \union {Stamped(r, "Delta")}]
          /\ writing' = writing \union {Stamped(r, "Delta")}
          /\ UNCHANGED errored
       \/ /\ "apply" \in Faults
          /\ errored' = errored \union {Stamped(r, "Delta")}
          /\ UNCHANGED <<state, writing>>
       \/ /\ "encode" \in Faults
          /\ state' = [state EXCEPT ![r] = @ \union {Stamped(r, "Delta")}]
          /\ errored' = errored \union {Stamped(r, "Delta")}
          /\ UNCHANGED writing
    /\ UNCHANGED <<master_log, sent, phase, heartbeat, recovery, sending>>

\* Mutation of HeartbeatCheck: should_destruct is not looked at
HeartbeatCheckSkipped(r) ==
    /\ heartbeat[r] = "loop"
    /\ sequence[r] < MaxSequence
    /\ heartbeat' = [heartbeat EXCEPT ![r] = "checked"]
    /\ UNCHANGED <<master_log, sent, phase, sequence, state, recovery,
                   writing, sending, errored>>

\* Top of the heartbeat loop: should_destruct is only looked at here.  The
\* bound keeps room for the stamp that must follow.
HeartbeatCheck(r) ==
    /\ heartbeat[r] = "loop"
    /\ \/ /\ ShouldDestruct(r)
          /\ heartbeat' = [heartbeat EXCEPT ![r] = "exited"]
       \/ /\ ~ ShouldDestruct(r)
          /\ sequence[r] < MaxSequence
          /\ heartbeat' = [heartbeat EXCEPT ![r] = "checked"]
    /\ UNCHANGED <<master_log, sent, phase, sequence, state, recovery,
                   writing, sending, errored>>

\* The lock is granted: stamp a heartbeat and publish it
Heartbeat(r) ==
    /\ heartbeat[r] = "checked"
    /\ heartbeat' = [heartbeat EXCEPT ![r] = "publishing"]
    /\ sequence' = [sequence EXCEPT ![r] = @ + 1]
    /\ writing' = writing \union {Stamped(r, "Heartbeat")}
    /\ UNCHANGED <<master_log, sent, phase, state, recovery, sending, errored>>

-----------------------------------------------------------------------------
\* Mutation of DropContext: the heartbeat task is aborted, not signalled
DropContextAborts(r) ==
    /\ phase[r] = "running"
    /\ ContextIdle(r)
    /\ phase' = [phase EXCEPT ![r] = "stopped"]
    /\ heartbeat' = [heartbeat EXCEPT ![r] = "exited"]
    /\ writing' = {m \in writing : m.run # r}
    /\ sending' = {m \in sending : m.run # r}
    /\ UNCHANGED <<master_log, sent, sequence, state, recovery, errored>>

\* Drop for PublisherContext: one signal to each task, nothing is awaited
DropContext(r) ==
    /\ phase[r] = "running"
    /\ ContextIdle(r)
    /\ phase' = [phase EXCEPT ![r] = "stopped"]
    /\ UNCHANGED <<master_log, sent, sequence, state, heartbeat, recovery,
                   writing, sending, errored>>

\* The spawned server task reaches serve(address).  The port is still taken
\* while an earlier run's server lives: serve returns an error, the task logs
\* it and ends, and run() never learns of it.
BindRecovery(r) ==
    /\ recovery[r] = "binding"
    /\ recovery' = [recovery EXCEPT ![r] =
                      IF \E q \in Run : recovery[q] = "serving"
                      THEN "exited" ELSE "serving"]
    /\ UNCHANGED <<master_log, sent, phase, sequence, state, heartbeat,
                   writing, sending, errored>>

\* Mutation of StopRecovery: only the Drop of a context signals the server, not
\* a run() that failed
StopRecoveryByContext(r) ==
    /\ recovery[r] \in {"binding", "serving"}
    /\ phase[r] = "stopped"
    /\ heartbeat[r] # "none"
    /\ recovery' = [recovery EXCEPT ![r] = "exited"]
    /\ UNCHANGED <<master_log, sent, phase, sequence, state, heartbeat,
                   writing, sending, errored>>

\* destruct_future wins the select: the context was dropped, or run() failed
\* and dropped the sender
StopRecovery(r) ==
    /\ recovery[r] \in {"binding", "serving"}
    /\ ShouldDestruct(r)
    /\ recovery' = [recovery EXCEPT ![r] = "exited"]
    /\ UNCHANGED <<master_log, sent, phase, sequence, state, heartbeat,
                   writing, sending, errored>>

\* The process dies: the log stays, every task and every publish under way
\* is gone
Crash ==
    /\ "crash" \in Faults
    /\ \E r \in Run : Active(r)
    /\ phase' = [r \in Run |-> IF Active(r) THEN "stopped" ELSE phase[r]]
    /\ heartbeat' = [r \in Run |-> IF heartbeat[r] = "none" THEN "none" ELSE "exited"]
    /\ recovery' = [r \in Run |-> IF recovery[r] = "none" THEN "none" ELSE "exited"]
    /\ writing' = {}
    /\ sending' = {}
    /\ errored' = errored \union writing
    /\ UNCHANGED <<master_log, sent, sequence, state>>

-----------------------------------------------------------------------------
Next ==
    \/ \E m \in writing : WriteMessage(m) \/ WriteFails(m)
    \/ \E m \in sending : Send(m) \/ SendFails(m)
    \/ \E r \in Run : \/ RunPublisher(r) \/ ApplyDelta(r)
                      \/ HeartbeatCheck(r) \/ Heartbeat(r)
                      \/ DropContext(r)
                      \/ BindRecovery(r) \/ StopRecovery(r)
    \/ Crash

Spec == Init /\ [][Next]_vars

\* The awaits of a publish return, with or without an error
Finishes(m) == WriteMessage(m) \/ WriteFails(m) \/ Send(m) \/ SendFails(m)

-----------------------------------------------------------------------------
(* Properties *)

\* A run may still stamp: its context may, or a heartbeat task past its check,
\* although the context is gone
MayStamp(r) == Active(r) \/ heartbeat[r] = "checked"

\* A number the log has passed, which is not being written and which every run
\* that may still stamp has passed as well
Hole(n) ==
    /\ \E m \in master_log : n < m.sequence
    /\ n \notin Log!SequencesOf(master_log \union writing)
    /\ \A r \in Run : MayStamp(r) => n < sequence[r]

\* Every datagram is persisted before it is sent, a number is recorded once
\* and nothing is overwritten, whatever the context, the heartbeat task and
\* the leftover tasks of an earlier run do (Publisher::publish, mod.rs:96-114;
\* "All messages must be persisted before being sent",
\* publisher_persistence.rs:13).
ImplementsMasterLog == Log!LogSpec

\* A write meets a number already taken only across two runs, and one of the
\* two messages is then a heartbeat: within a run every stamp is fresh, and a
\* delta or Started never displaces, nor is displaced by, a delta or Started
\* of another run.  The culprit is the heartbeat task that passed
\* should_destruct (heartbeat.rs:63) before its context was dropped.
ConflictsOnlyWithHeartbeat ==
    \A m \in writing : \A row \in master_log :
        row.sequence = m.sequence =>
            /\ row.run # m.run
            /\ "Heartbeat" \in {row.payload, m.payload}

\* While a context lives, its in-memory state is what its published deltas
\* say: every delta it recorded has been applied, and every delta applied but
\* not recorded is being written or its publish has failed and apply_delta
\* returned the error (context.rs:65-89: apply first, publish later).
StateAccounted ==
    \A r \in Run : phase[r] = "running" =>
        LET own == {m \in master_log : m.run = r /\ m.payload = "Delta"}
        IN  /\ own \subseteq state[r]
            /\ state[r] \subseteq own \union writing \union errored

\* The first row of a run in the log is its Started message: no heartbeat or
\* delta is recorded by a run whose Started was not (mod.rs:146-177: the
\* heartbeat task and the context exist only after publish succeeded).
StartedFirst ==
    \A m \in master_log : m.payload # "Started" =>
        \E s \in master_log : /\ s.run = m.run
                              /\ s.payload = "Started"
                              /\ s.sequence < m.sequence

\* Rows of different runs do not interleave, except for heartbeats: a delta
\* or Started of a later run has a larger number than every delta or Started
\* of an earlier one (next_sequence, publisher_persistence.rs:19-22).
LaterRunsAreLater ==
    \A r, q \in Run : \A m, o \in master_log :
        /\ r # q
        /\ Active(r)
        /\ m.run = r /\ m.payload # "Heartbeat"
        /\ o.run = q /\ o.payload # "Heartbeat"
        => o.sequence < m.sequence

\* A number that was spent in vain is never used again once the log has passed
\* it, neither by its run nor by a later one: what a subscriber is told is
\* missing, with nobody left to write it, never turns up behind rows others
\* have already read (the number is spent before apply, encode and write can
\* fail, context.rs:69-80; next_sequence goes on from the largest row,
\* mod.rs:137).
HolesStay == [][\A n \in 0 .. MaxSequence : Hole(n) => Hole(n)']_vars

\* As long as no apply, encode, write or process fails, no number is lost:
\* every number ever stamped is in the log or on its way there, also when two
\* runs overlap and stamp the same number.  The recovery protocol of a
\* subscriber rests on this (recovery.rs:6-8).
NoNumberLost ==
    \A r \in Run : \A n \in 0 .. sequence[r] - 1 :
        n \in Log!Ids \union Log!SequencesOf(writing)

\* After its context is dropped a heartbeat task stops: the signal of Drop
\* (context.rs:97-106) is seen at the next turn of the loop
\* (heartbeat.rs:61-69), although one more heartbeat may go out before.
HeartbeatStops ==
    \A r \in Run : phase[r] = "stopped" ~> heartbeat[r] \in {"none", "exited"}

\* After its context is dropped, or its run() failed, a recovery server ends
\* and frees its port (recovery.rs:57-69).
RecoveryStops ==
    \A r \in Run : phase[r] = "stopped" ~> recovery[r] = "exited"

-----------------------------------------------------------------------------
(* What the documentation says and the code does not do *)

\* heartbeat.rs:87-89 on a publish that failed: "Subscribers can just request
\* this message via replay".  Replay reads the log (recovery.rs:87-99).
FailedHeartbeatIsReplayable ==
    \A m \in errored : m.payload = "Heartbeat" => Log!ReadSequence(m.sequence) # {}

\* recovery.rs:10: "Every publisher should have a [RecoveryApiServer] running".
\* A running publisher has a server that serves, or is about to bind.
EveryPublisherServes ==
    \A r \in Run : phase[r] = "running" => recovery[r] \in {"binding", "serving"}
==============================================================================
