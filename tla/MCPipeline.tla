----------------------------- MODULE MCPipeline -----------------------------
(* Small instances of Pipeline for TLC.                                    *)
EXTENDS Pipeline, TLC

UserSymmetry == Permutations(Users)

AllTriggers == TriggerKinds

UploadOnly == {"s3"}

AnyUsers == SUBSET Users

NoUsers == {{}}
=============================================================================
