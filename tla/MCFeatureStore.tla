---------------------------- MODULE MCFeatureStore ----------------------------
(* A small instance of FeatureStore for TLC: the vectors of one writer are *)
(* younger than those of the other, in whichever order they are stored.    *)
EXTENDS FeatureStore

CONSTANTS w1, w2

ByWriter == [v \in VectorIds |-> IF v[1] = w1 THEN 1 ELSE 2]
=============================================================================
