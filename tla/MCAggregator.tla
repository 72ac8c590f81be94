---------------------------- MODULE MCAggregator ----------------------------
(***************************************************************************)
(* Two watchers and a channel shorter than the stream, for TLC.            *)
(***************************************************************************)
EXTENDS Aggregator

CONSTANTS w1, w2

TwoWatchers == {w1, w2}
==============================================================================
