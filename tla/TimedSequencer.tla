---------------------------- MODULE TimedSequencer ----------------------------
(***************************************************************************)
(* Sequencer with a clock.  Sequencer knows of time one bit, expired, that *)
(* may turn true at any moment; here it turns true when the code finds     *)
(* now > last_deadline, and only then.  Every step is a step of Sequencer  *)
(* with what it does to the clock readings next() keeps: now is read once  *)
(* per turn of the loop, BEFORE the wait for a datagram or the recovery    *)
(* call, and some deadlines are computed from it afterwards.               *)
(***************************************************************************)
EXTENDS Sequencer

CONSTANTS
    Timeout,        \* sequence_timeout
    Horizon         \* bound: when the clock stops

ASSUME TimeoutAssumption == Timeout \in Nat /\ Horizon \in Nat

VARIABLES
    clock,          \* what Instant::now() returns
    now,            \* the reading of the current turn of the loop
    last_deadline,
    looking,        \* in the loop, about to read the clock
    taken, before   \* history: when the last message was taken, and the one
                    \* before it

timeVars == <<clock, now, last_deadline, looking, taken, before>>
timedVars == <<vars, timeVars>>

TimedTypeOK ==
    /\ TypeOK
    /\ clock \in Nat
    /\ now \in 0 .. clock
    /\ last_deadline \in 0 .. clock + Timeout
    /\ looking \in BOOLEAN
    /\ taken \in 0 .. clock
    /\ before \in 0 .. taken

\* new() sets a deadline that has no effect: connected is false
TimedInit ==
    /\ Init
    /\ clock = 0 /\ now = 0 /\ last_deadline = 0
    /\ looking = FALSE
    /\ taken = 0 /\ before = 0

-----------------------------------------------------------------------------
Taken == taken' = clock /\ before' = taken

\* Mutation of FromBuffer: the timeout is added to the old deadline
FromBufferAddsUp ==
    /\ SyncNext \/ HeapNext
    /\ last_deadline' = last_deadline + Timeout
    /\ Taken
    /\ UNCHANGED <<clock, now, looking>>

\* Taken from a recovery stream or the heap: a fresh reading of the clock
FromBuffer ==
    /\ SyncNext \/ HeapNext
    /\ last_deadline' = clock + Timeout
    /\ Taken
    /\ UNCHANGED <<clock, now, looking>>

\* Mutation of Enter: the deadline is not renewed after a Disconnected
EnterKeepsDeadline ==
    /\ Listen
    /\ looking' = TRUE
    /\ UNCHANGED <<clock, now, last_deadline, taken, before>>

\* Enter the loop
Enter ==
    /\ Listen
    /\ last_deadline' = IF connected THEN last_deadline ELSE clock + Timeout
    /\ looking' = TRUE
    /\ UNCHANGED <<clock, now, taken, before>>

\* The top of the loop
Look ==
    /\ looking
    /\ looking' = FALSE
    /\ now' = clock
    /\ IF clock > last_deadline /\ ~ expired THEN Elapse ELSE UNCHANGED vars
    /\ UNCHANGED <<clock, last_deadline, taken, before>>

\* Mutation of Hear: a message taken from the socket does not move the deadline
HearKeepsDeadline(m) ==
    /\ ~ looking
    /\ Receive(m)
    /\ IF m.sequence = want_sequence THEN Taken /\ UNCHANGED looking
       ELSE looking' = TRUE /\ UNCHANGED <<taken, before>>
    /\ UNCHANGED <<clock, now, last_deadline>>

\* A datagram, until the timer of the wait is polled.  The wanted message
\* moves the deadline from where the wait BEGAN; any other is a `continue`.
Hear(m) ==
    /\ ~ looking
    /\ Receive(m)
    /\ IF m.sequence = want_sequence
       THEN last_deadline' = now + Timeout /\ Taken /\ UNCHANGED looking
       ELSE looking' = TRUE /\ UNCHANGED <<last_deadline, taken, before>>
    /\ UNCHANGED <<clock, now>>

\* timeout() elapses: at the deadline the clock is not yet past it
TimesOut ==
    /\ Waiting /\ ~ looking
    /\ clock >= last_deadline
    /\ looking' = TRUE
    /\ UNCHANGED <<vars, clock, now, last_deadline, taken, before>>

\* A recovery call, whose answer may come much later than now
Recover ==
    /\ ~ looking
    /\ GetMessage \/ StreamFrom
    /\ IF want_sequence' # want_sequence
       THEN last_deadline' = now + Timeout /\ Taken
       ELSE UNCHANGED <<last_deadline, taken, before>>
    /\ UNCHANGED <<clock, now, looking>>

\* What neither reads the clock nor moves the deadline
Untimed ==
    /\ \/ SyncBroken \/ SyncFails \/ SyncDone \/ DropStale
       \/ ~ looking /\ (DecodeError \/ Disconnect \/ RecoveryFails)
       \/ LogNext /\ UNCHANGED subVars
    /\ UNCHANGED timeVars

\* Time passes: during a wait or a call, or while the consumer is busy
Tick ==
    /\ clock < Horizon
    /\ clock' = clock + 1
    /\ UNCHANGED <<vars, now, last_deadline, looking, taken, before>>

TimedNext ==
    \/ FromBuffer \/ Enter \/ Look \/ TimesOut \/ Recover \/ Untimed \/ Tick
    \/ \E m \in sent : Hear(m)

TimedSpec == TimedInit /\ [][TimedNext]_timedVars

-----------------------------------------------------------------------------
(* Properties *)

\* Sequencer's one bit is exact: it is true when, and only when, the last
\* reading of the clock is past the deadline, although readings are stale and
\* deadlines are computed from them (sequencer.rs:186-187 against 154, 169,
\* 181, 211, 236 and 259).
ExpiredIsDeadline == expired <=> now > last_deadline

\* Recovery is asked for, or Disconnected reported, only when more than
\* Timeout has passed since the message BEFORE the last one was taken.  It is
\* not so for the last one itself: its deadline counts from the turn of the
\* loop that waited for it (sequencer.rs:186, 250-259).  Hence a timeout of
\* twice the publisher's heartbeat interval, and no less, keeps a prompt
\* subscriber from reporting a healthy publisher (publisher/mod.rs:173).
OverdueNeedsSilence == Overdue => clock > before + Timeout
==============================================================================
