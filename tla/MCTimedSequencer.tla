--------------------------- MODULE MCTimedSequencer ---------------------------
(***************************************************************************)
(* Messages for TLC: one for each of a few numbers.                        *)
(***************************************************************************)
EXTENDS TimedSequencer

CONSTANT Last   \* bound: the largest sequence number

MCMessage == [sequence : 0 .. Last]
==============================================================================
