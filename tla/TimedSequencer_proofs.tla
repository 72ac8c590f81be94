------------------------- MODULE TimedSequencer_proofs -------------------------
(***************************************************************************)
(* The clock of the sequencer, for every timeout: the timed sequencer is a *)
(* Sequencer, its bit expired is the comparison the code makes, and two    *)
(* messages must have failed to come in time before it gives up waiting.   *)
(***************************************************************************)
EXTENDS TimedSequencer, Sequencer_proofs

\* A timed step is a step of Sequencer, or only the clock moves.
LEMMA TimedSteps == [TimedNext]_timedVars => [Next]_vars
<1>1. FromBuffer => Next
  BY DEF FromBuffer, Next, SubNext
<1>2. Enter => Next
  BY DEF Enter, Next, SubNext
<1>3. Look => [Next]_vars
  BY DEF Look, Next, SubNext
<1>4. ASSUME NEW m \in sent, Hear(m) PROVE Next
  BY <1>4 DEF Hear, Next, SubNext
<1>5. Recover => Next
  BY DEF Recover, Next, SubNext
<1>6. Untimed => Next
  BY DEF Untimed, Next, SubNext
<1>7. TimesOut \/ Tick => UNCHANGED vars
  BY DEF TimesOut, Tick
<1>8. UNCHANGED timedVars => UNCHANGED vars
  BY DEF timedVars
<1>9. QED BY <1>1, <1>2, <1>3, <1>4, <1>5, <1>6, <1>7, <1>8 DEF TimedNext

\* Keeping time changes nothing of what a sequencer does: every theorem about
\* Sequencer holds of it (sequencer.rs:139-273).
THEOREM TimedRunsSequencer == TimedSpec => Spec
<1>1. TimedInit => Init
  BY DEF TimedInit
<1>2. QED BY <1>1, TimedSteps, PTL DEF TimedSpec, Spec

-----------------------------------------------------------------------------
(* The inductive invariant.                                                *)

Clocks ==
    /\ clock \in Nat
    /\ now \in 0 .. clock
    /\ last_deadline \in 0 .. clock + Timeout
    /\ looking \in BOOLEAN
    /\ taken \in 0 .. clock
    /\ before \in 0 .. taken

\* A wait began after the last message was taken
Fresh == pc = "listen" /\ ~ looking => now >= taken

\* A deadline leaves Timeout to the message before the last one; there is none
\* yet, or it will be renewed, outside the loop of a sequencer not connected
Window == last_deadline >= before + Timeout \/ (pc # "listen" /\ ~ connected)

TimedInv == Clocks /\ ExpiredIsDeadline /\ Fresh /\ Window

\* Taking a message leaves the loop with a deadline to come.
LEMMA TakeLeaves == ASSUME NEW m, NEW o, Take(m, o)
                    PROVE  pc' # "listen" /\ expired' = FALSE /\ want_sequence' = want_sequence + 1
BY DEF Take, Return

\* Failing leaves the loop with the deadline as it was.
LEMMA FailLeaves == ASSUME NEW r, Fail(r)
                    PROVE  pc' # "listen" /\ UNCHANGED <<expired, want_sequence>>
BY DEF Fail, Return

\* It holds when the clock starts.
LEMMA TimedInvInit == TimedInit => TimedInv
<1> SUFFICES ASSUME TimedInit PROVE TimedInv
  OBVIOUS
<1>1. ~ expired /\ ~ connected /\ pc = "next"
  BY Zenon DEF TimedInit, Init
<1> looking \in BOOLEAN
  BY Zenon DEF TimedInit
<1>2. Clocks
  BY TimeoutAssumption DEF TimedInit, Clocks
<1>3. ExpiredIsDeadline
  BY <1>1 DEF TimedInit, ExpiredIsDeadline
<1>4. QED BY <1>1, <1>2, <1>3 DEF TimedInv, Fresh, Window

\* It is kept by ticks and by every step of next().
LEMMA TimedInvStep == TypeOK /\ TimedInv /\ [TimedNext]_timedVars => TimedInv'
<1> SUFFICES ASSUME TypeOK, TimedInv, [TimedNext]_timedVars PROVE TimedInv'
  OBVIOUS
<1> USE TimeoutAssumption DEF TimedInv, Clocks, ExpiredIsDeadline, Fresh, Window
<1>0. expired \in BOOLEAN /\ connected \in BOOLEAN /\ want_sequence \in Nat
  BY DEF TypeOK
<1>1. CASE FromBuffer
  <2>1. expired' = FALSE /\ pc' # "listen"
    BY <1>1, TakeLeaves DEF FromBuffer, SyncNext, HeapNext
  <2>2. QED BY <1>1, <2>1 DEF FromBuffer, Taken
<1>2. CASE Enter
  <2>1. pc' = "listen" /\ expired' = (connected /\ expired) /\ connected' = connected
    BY <1>2 DEF Enter, Listen
  <2>2. CASE connected
    <3>1. expired' <=> expired
      BY <1>0, <2>1, <2>2, Zenon
    <3>2. QED BY <1>2, <2>1, <2>2, <3>1 DEF Enter
  <2>3. CASE ~ connected
    <3>1. ~ expired'
      BY <2>1, <2>3, Zenon
    <3>2. QED BY <1>2, <2>1, <2>3, <3>1 DEF Enter
  <2>4. QED BY <2>2, <2>3
<1>3. CASE Look
  <2> looking' \in BOOLEAN
    BY <1>3, Zenon DEF Look
  <2>1. UNCHANGED <<pc, connected>>
    BY <1>3 DEF Look, Elapse, vars, subVars
  <2>2. CASE clock > last_deadline /\ ~ expired
    <3>1. expired'
      BY <1>3, <2>2, Zenon DEF Look, Elapse
    <3>2. QED BY <1>3, <2>1, <2>2, <3>1 DEF Look
  <2>3. CASE ~ (clock > last_deadline /\ ~ expired)
    <3>1. expired' <=> expired
      BY <1>3, <2>3 DEF Look, vars, subVars
    <3>2. QED BY <1>0, <1>3, <2>1, <2>3, <3>1 DEF Look
  <2>4. QED BY <2>2, <2>3
<1>4. ASSUME NEW m \in sent, Hear(m) PROVE TimedInv'
  <2>1. pc = "listen" /\ ~ looking /\ ~ expired
    BY <1>4 DEF Hear, Receive, Waiting
  <2>2. CASE m.sequence = want_sequence
    <3>0. Take(m, "Udp")
      BY <1>0, <1>4, <2>2 DEF Hear, Receive
    <3>1. pc' # "listen" /\ expired' = FALSE
      BY <3>0, TakeLeaves
    <3>2. QED BY <1>4, <2>1, <2>2, <3>1 DEF Hear, Taken
  <2>3. CASE m.sequence # want_sequence
    <3>1. UNCHANGED <<pc, expired>>
      BY <1>4, <2>3 DEF Hear, Receive
    <3>2. QED BY <1>4, <2>1, <2>3, <3>1 DEF Hear
  <2>4. QED BY <2>2, <2>3
<1>5. CASE TimesOut
  BY <1>5 DEF TimesOut, Waiting, vars, subVars
<1>6. CASE Recover
  <2>1. pc = "listen" /\ ~ looking /\ connected' = connected
    BY <1>6 DEF Recover, GetMessage, StreamFrom, Overdue
  <2>2. \/ pc' # "listen" /\ expired' = FALSE /\ want_sequence' = want_sequence + 1
        \/ pc' # "listen" /\ UNCHANGED <<expired, want_sequence>>
    BY <1>6, TakeLeaves, FailLeaves DEF Recover, GetMessage, StreamFrom
  <2>3. CASE want_sequence' # want_sequence
    BY <1>6, <2>1, <2>2, <2>3 DEF Recover, Taken
  <2>4. CASE want_sequence' = want_sequence
    BY <1>0, <1>6, <2>1, <2>2, <2>4 DEF Recover
  <2>5. QED BY <2>3, <2>4
<1>7. CASE Untimed
  <2>1. UNCHANGED timeVars
    BY <1>7 DEF Untimed
  <2>2. CASE SyncBroken \/ SyncFails \/ SyncDone \/ DropStale
    <3>1. UNCHANGED <<expired, connected>> /\ pc' # "listen"
      BY <2>2, FailLeaves DEF SyncBroken, SyncFails, SyncDone, DropStale, Syncing, Draining
    <3>2. QED BY <2>1, <2>2, <3>1
         DEF timeVars, SyncBroken, SyncFails, SyncDone, DropStale, Syncing, Draining
  <2>3. CASE DecodeError \/ Disconnect \/ RecoveryFails
    <3>1. pc = "listen" /\ pc' # "listen" /\ expired' = expired
      BY <2>3, FailLeaves
      DEF DecodeError, Disconnect, RecoveryFails, Waiting, Overdue, Return
    <3>2. QED BY <2>1, <3>1 DEF timeVars
  <2>4. CASE UNCHANGED subVars
    BY <2>1, <2>4 DEF timeVars, subVars
  <2>5. QED BY <1>7, <2>2, <2>3, <2>4 DEF Untimed
<1>8. CASE Tick
  BY <1>8 DEF Tick, vars, subVars
<1>9. CASE UNCHANGED timedVars
  BY <1>9 DEF timedVars, timeVars, vars, subVars
<1>10. QED
  BY <1>1, <1>2, <1>3, <1>4, <1>5, <1>6, <1>7, <1>8, <1>9 DEF TimedNext

\* It holds always, with the types.
LEMMA AlwaysTimed == TimedSpec => [](TypeOK /\ TimedInv)
<1>1. TimedSpec => []TypeOK
  BY TimedRunsSequencer, SequencerTypeCorrect, PTL
<1>2. QED BY <1>1, TimedInvInit, TimedInvStep, PTL DEF TimedSpec

-----------------------------------------------------------------------------
\* Every variable, the clock's included, keeps its type; a deadline is never
\* more than Timeout away.
THEOREM TimedTypeCorrect == TimedSpec => []TimedTypeOK
<1>1. TypeOK /\ TimedInv => TimedTypeOK
  BY DEF TimedInv, Clocks, TimedTypeOK
<1>2. QED BY <1>1, AlwaysTimed, PTL

\* The one bit of Sequencer is the comparison of sequencer.rs:187.
THEOREM ExpiredIsExact == TimedSpec => []ExpiredIsDeadline
<1>1. TimedInv => ExpiredIsDeadline
  BY DEF TimedInv
<1>2. QED BY <1>1, AlwaysTimed, PTL

\* Two messages must be late together before the sequencer acts on its
\* deadline (sequencer.rs:186-187, 259).
THEOREM OverdueAfterSilence == TimedSpec => []OverdueNeedsSilence
<1>1. TimedInv => OverdueNeedsSilence
  BY TimeoutAssumption
  DEF TimedInv, Clocks, ExpiredIsDeadline, Window, OverdueNeedsSilence, Overdue
<1>2. QED BY <1>1, AlwaysTimed, PTL
==============================================================================
