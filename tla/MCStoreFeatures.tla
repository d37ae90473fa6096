--------------------------- MODULE MCStoreFeatures ----------------------------
(* A small instance of StoreFeatures for TLC.                              *)
EXTENDS StoreFeatures, TLC

CONSTANTS u1, u2, w1, w2

OneDate == [v \in VectorIds |-> 1]

V(u) == [user |-> u, ok |-> TRUE]
Malformed(u) == [user |-> u, ok |-> FALSE]

MCLists == {(w1 :> <<V(u1)>> @@ w2 :> <<Malformed(u2), V(u1)>>),
            (w1 :> <<V(u1), V(u2)>> @@ w2 :> <<Malformed(u1)>>),
            (w1 :> <<V(u1), V(u1)>> @@ w2 :> << >>)}
=============================================================================
