----------------------------- MODULE MCMinMaxHeap -----------------------------
(***************************************************************************)
(* Messages for TLC: numbers 0 to 4, the number 1 twice, as when two       *)
(* publishers share a multicast group.                                     *)
(***************************************************************************)
EXTENDS MinMaxHeap

MCMessage == {[sequence |-> n, payload |-> "Delta"] : n \in 0 .. 4}
             \union {[sequence |-> 1, payload |-> "Heartbeat"]}
==============================================================================
