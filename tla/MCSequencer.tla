----------------------------- MODULE MCSequencer -----------------------------
(***************************************************************************)
(* Messages for TLC: one for each of a few numbers.  MasterLog never       *)
(* records, hence never sends, two messages with the same number.          *)
(***************************************************************************)
EXTENDS Sequencer

CONSTANT Last   \* bound: the largest sequence number

MCMessage == [sequence : 0 .. Last]
==============================================================================
