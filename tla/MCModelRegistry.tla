--------------------------- MODULE MCModelRegistry ---------------------------
(* Small instances of ModelRegistry for TLC.                               *)
EXTENDS ModelRegistry, TLC

MCSymmetry == Permutations(Operators) \cup Permutations(Batches)
AllOps == {"approve", "reject", "rollback", "delete"}
=============================================================================
