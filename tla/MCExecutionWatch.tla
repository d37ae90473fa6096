-------------------------- MODULE MCExecutionWatch --------------------------
(* Small instances of ExecutionWatch for TLC.                              *)
EXTENDS ExecutionWatch

AllTriggers == TriggerKinds

NoUsers == {{}}
=============================================================================
