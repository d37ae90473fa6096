----------------------------- MODULE MCTraining -----------------------------
(* Small instances of Training for TLC.                                    *)
EXTENDS Training

SmallDatasets == [pos : 0 .. 10, neg : 0 .. 24]
=============================================================================
