------------------------------ MODULE TreeState ------------------------------
(***************************************************************************)
(* TreeState, the state synchronised by the crate's tests and its example  *)
(* in publisher/mod.rs (proto.rs), as operators: a map from ids to leaves. *)
(***************************************************************************)
EXTENDS Integers, Functions

CONSTANTS LeafIds, Values,          \* ids and values the application uses
          I32                       \* 2^31

ASSUME TreeAssumption == I32 \in Nat \ {0} /\ Values \subseteq -I32 .. I32 - 1

Leaf == [a : -I32 .. I32 - 1, b : -I32 .. I32 - 1]

\* += on an i32 in a release build
Wrapped(x) == ((x + I32) % (2 * I32)) - I32

LeafDelta ==
    [delta : {"EditA", "EditB"}, id : LeafIds, value : Values]
    \union [delta : {"NewLeaf"}, id : LeafIds, leaf : [a : Values, b : Values]]
    \union [delta : {"DeleteLeaf"}, id : LeafIds]

EmptyTree == [id \in {} |-> 0]

IsTree(leaves) == DOMAIN leaves \subseteq LeafIds /\ leaves \in [DOMAIN leaves -> Leaf]

\* get_mut(id).unwrap() of a leaf that is not there is a panic
EditsNothing(leaves, d) == d.delta \in {"EditA", "EditB"} /\ d.id \notin DOMAIN leaves

ApplyLeaf(leaves, d) ==
    CASE d.delta = "EditA" -> [leaves EXCEPT ![d.id].a = Wrapped(@ + d.value)]
      [] d.delta = "EditB" -> [leaves EXCEPT ![d.id].b = Wrapped(@ + d.value)]
      [] d.delta = "NewLeaf" ->
            [id \in DOMAIN leaves \union {d.id} |-> IF id = d.id THEN d.leaf ELSE leaves[id]]
      [] d.delta = "DeleteLeaf" -> Restrict(leaves, DOMAIN leaves \ {d.id})
==============================================================================
