--------------------------- MODULE ModelRegistry ---------------------------
(***************************************************************************)
(* The SageMaker Model Registry as src/ml/model_registry.py drives it      *)
(* (approve, reject, rollback, delete), the registration that ends         *)
(* SageMakerMLPipeline.train, and BatchInferenceProcessor.process, which   *)
(* resolves the active model, runs a transform job with it and writes the  *)
(* prediction rows that delete_model consults.                             *)
(*                                                                         *)
(* Every call to SageMaker or DynamoDB is a step of its own, so the calls  *)
(* of two operators, and of an operator and a batch, interleave; each may  *)
(* fail.  Model packages are numbered in the order of their creation,      *)
(* which is the order list_model_packages sorts by.                        *)
(***************************************************************************)
EXTENDS Integers, FiniteSets

CONSTANTS Operators,    \* callers of ModelRegistry, one call at a time each
          Batches,      \* execution ids given to BatchInferenceProcessor
          Pipeline,     \* execution id of a run of predict_handler
          MaxModels,    \* bound: models ever registered
          MaxCalls,     \* bound: registry operations started
          NumVectors,   \* feature vectors in each batch
          Ops,          \* the registry operations the operators use
          Exclusive,    \* do operators delete only while no batch runs?
          MayFail       \* may a call to a service fail for no modelled reason?

ASSUME RegistryAssumption ==
  /\ MaxModels \in Nat \ {0}
  /\ MaxCalls \in Nat
  /\ NumVectors \in Nat \ {0}
  /\ Ops \subseteq {"approve", "reject", "rollback", "delete"}
  /\ Exclusive \in BOOLEAN
  /\ MayFail \in BOOLEAN
  /\ Pipeline \notin Batches

Models == 1 .. MaxModels
NoModel == 0

VARIABLES status,   \* approval status of each model package
          call,     \* per operator: the operation it is in
          batch,    \* per execution id: the state of its process() call
          rows,     \* the predictions table
          started   \* registry operations started so far

vars == <<status, call, batch, rows, started>>

Statuses == {"Unregistered", "PendingManualApproval", "Approved", "Rejected",
             "Deleted"}
Pcs == {"idle", "check", "list", "describe", "recheck", "approve",
        "rejectcheck", "reject", "scan", "delete"}
Outcomes == {"none", "ok", "ModelNotFound", "ModelInProduction", "error"}
BatchPcs == {"idle", "resolve", "describe", "create", "wait", "store",
             "returned", "failed"}

(* What SageMaker answers to describe_model_package.                       *)
Exists(m) == status[m] \notin {"Unregistered", "Deleted"}

(* list_model_packages(Approved, CreationTime, Descending, MaxResults=1).  *)
Approved == {m \in Models : status[m] = "Approved"}
Active(m) == m \in Approved /\ \A n \in Approved : n =< m

RowsOf(m) == {r \in rows : r.model = m}
Written(b) == {r.user : r \in {q \in rows : q.execution = b}}

Deleting(o) == call[o].pc # "idle" /\ call[o].op = "delete"
Running(b) == batch[b].pc \notin {"idle", "returned", "failed"}

(* Type invariant.                                                         *)
TypeOK ==
  /\ status \in [Models -> Statuses]
  /\ call \in [Operators -> [op : Ops \cup {"none"}, pc : Pcs,
                             target : Models \cup {NoModel},
                             current : Models \cup {NoModel},
                             outcome : Outcomes]]
  /\ batch \in [Batches -> [pc : BatchPcs, model : Models \cup {NoModel},
                            ran : Models \cup {NoModel},
                            out : 0 .. NumVectors]]
  /\ rows \subseteq [execution : Batches \cup {Pipeline},
                     user : 1 .. NumVectors,
                     model : Models \cup {NoModel}]
  /\ started \in 0 .. MaxCalls

Init ==
  /\ status = [m \in Models |-> "Unregistered"]
  /\ call = [o \in Operators |->
               [op |-> "none", pc |-> "idle", target |-> NoModel,
                current |-> NoModel, outcome |-> "none"]]
  /\ batch = [b \in Batches |->
                [pc |-> "idle", model |-> NoModel, ran |-> NoModel, out |-> 0]]
  /\ rows = {}
  /\ started = 0

-----------------------------------------------------------------------------
(* Training: _register_model creates the package, awaiting approval.       *)

RegisterModel(m) ==
  /\ status[m] = "Unregistered"
  /\ \A n \in Models : n < m => status[n] # "Unregistered"
  /\ status' = [status EXCEPT ![m] = "PendingManualApproval"]
  /\ UNCHANGED <<call, batch, rows, started>>

-----------------------------------------------------------------------------
(* The operations of ModelRegistry.                                        *)

Goto(o, pc) == call' = [call EXCEPT ![o].pc = pc]
End(o, outcome) ==
  call' = [call EXCEPT ![o].pc = "idle", ![o].outcome = outcome]

StartCall(o, op, m) ==
  /\ call[o].pc = "idle"
  /\ started < MaxCalls
  /\ status[m] # "Unregistered"
  /\ (op = "delete" /\ Exclusive) => \A b \in Batches : ~Running(b)
  /\ call' = [call EXCEPT ![o] = [op |-> op, pc |-> "check", target |-> m,
                                  current |-> NoModel, outcome |-> "none"]]
  /\ started' = started + 1
  /\ UNCHANGED <<status, batch, rows>>

(* _validate_model_exists, the first call of every operation.              *)
AfterCheck(op) == CASE op = "approve"  -> "approve"
                    [] op = "reject"   -> "reject"
                    [] op = "rollback" -> "list"
                    [] op = "delete"   -> "scan"

CheckTarget(o) ==
  /\ call[o].pc = "check"
  /\ \/ /\ Exists(call[o].target)
        /\ Goto(o, AfterCheck(call[o].op))
     \/ /\ ~Exists(call[o].target)
        /\ End(o, "ModelNotFound")
  /\ UNCHANGED <<status, batch, rows, started>>

(* rollback: get_active_model lists the newest approved package ...        *)
ListApproved(o) ==
  /\ call[o].pc = "list"
  /\ \/ /\ Approved = {}
        /\ Goto(o, "recheck")
     \/ \E m \in Models :
          /\ Active(m)
          /\ call' = [call EXCEPT ![o].pc = "describe", ![o].current = m]
  /\ UNCHANGED <<status, batch, rows, started>>

(* ... and describes it; _describe_model_version turns any failure of that *)
(* call into None, and rollback takes None for "no active model".          *)
DescribeActive(o) ==
  /\ call[o].pc = "describe"
  /\ \/ /\ Exists(call[o].current)
        /\ Goto(o, "recheck")
     \/ /\ MayFail \/ ~Exists(call[o].current)
        /\ call' = [call EXCEPT ![o].pc = "recheck", ![o].current = NoModel]
  /\ UNCHANGED <<status, batch, rows, started>>

\* Mutant: the current model is rejected before the target is approved.
RecheckRejectsFirst(o) ==
  /\ call[o].pc = "recheck"
  /\ Goto(o, IF call[o].current = NoModel THEN "approve" ELSE "rejectcheck")
  /\ UNCHANGED <<status, batch, rows, started>>

(* rollback calls approve_model, which validates the target once more.     *)
RecheckTarget(o) ==
  /\ call[o].pc = "recheck"
  /\ \/ /\ Exists(call[o].target)
        /\ Goto(o, "approve")
     \/ /\ ~Exists(call[o].target)
        /\ End(o, "ModelNotFound")
  /\ UNCHANGED <<status, batch, rows, started>>

ReplacesActive(c) ==
  c.op = "rollback" /\ c.current # NoModel /\ c.current # c.target

UpdateApproved(o) ==
  /\ call[o].pc = "approve"
  /\ Exists(call[o].target)
  /\ status' = [status EXCEPT ![call[o].target] = "Approved"]
  /\ IF ReplacesActive(call[o]) THEN Goto(o, "rejectcheck") ELSE End(o, "ok")
  /\ UNCHANGED <<batch, rows, started>>

(* rollback calls reject_model for the model it found active.              *)
CheckCurrent(o) ==
  /\ call[o].pc = "rejectcheck"
  /\ \/ /\ Exists(call[o].current)
        /\ Goto(o, "reject")
     \/ /\ ~Exists(call[o].current)
        /\ End(o, "ModelNotFound")
  /\ UNCHANGED <<status, batch, rows, started>>

Rejectee(c) == IF c.op = "rollback" THEN c.current ELSE c.target

UpdateRejected(o) ==
  /\ call[o].pc = "reject"
  /\ Exists(Rejectee(call[o]))
  /\ status' = [status EXCEPT ![Rejectee(call[o])] = "Rejected"]
  /\ End(o, "ok")
  /\ UNCHANGED <<batch, rows, started>>

(* is_model_in_production: Limit=1 bounds the rows that DynamoDB evaluates *)
(* before it applies the filter, so the scan judges by a single row.       *)
ScanPredictions(o) ==
  /\ call[o].pc = "scan"
  /\ \/ /\ rows = {}
        /\ Goto(o, "delete")
     \/ \E r \in rows :
          IF r.model = call[o].target THEN End(o, "ModelInProduction")
                                      ELSE Goto(o, "delete")
  /\ UNCHANGED <<status, batch, rows, started>>

DeletePackage(o) ==
  /\ call[o].pc = "delete"
  /\ Exists(call[o].target)
  /\ status' = [status EXCEPT ![call[o].target] = "Deleted"]
  /\ End(o, "ok")
  /\ UNCHANGED <<batch, rows, started>>

(* Any call may fail (throttling, network, a package deleted meanwhile);   *)
(* the operation raises where it stands and nothing is undone.             *)
Subject(c) == IF c.pc = "reject" THEN Rejectee(c) ELSE c.target

CallFails(o) ==
  /\ call[o].pc # "idle"
  /\ \/ MayFail
     \/ /\ call[o].pc \in {"approve", "reject", "delete"}
        /\ ~Exists(Subject(call[o]))
  /\ End(o, "error")
  /\ UNCHANGED <<status, batch, rows, started>>

-----------------------------------------------------------------------------
(* BatchInferenceProcessor.process.                                        *)

(* The caller names a model (nobody validates it) or leaves it to be       *)
(* resolved.                                                               *)
StartBatch(b) ==
  /\ batch[b].pc = "idle"
  /\ Exclusive => \A o \in Operators : ~Deleting(o)
  /\ \/ batch' = [batch EXCEPT ![b].pc = "resolve"]
     \/ \E m \in Models :
          /\ status[m] # "Unregistered"
          /\ batch' = [batch EXCEPT ![b].pc = "create", ![b].model = m]
  /\ UNCHANGED <<status, call, rows, started>>

(* SageMakerMLPipeline.get_active_model raises when nothing is approved... *)
ResolveModel(b) ==
  /\ batch[b].pc = "resolve"
  /\ \/ /\ Approved = {}
        /\ batch' = [batch EXCEPT ![b].pc = "failed"]
     \/ \E m \in Models :
          /\ Active(m)
          /\ batch' = [batch EXCEPT ![b].pc = "describe", ![b].model = m]
  /\ UNCHANGED <<status, call, rows, started>>

(* ... and, unlike the registry's, when the package cannot be described.   *)
DescribeResolved(b) ==
  /\ batch[b].pc = "describe"
  /\ Exists(batch[b].model)
  /\ batch' = [batch EXCEPT ![b].pc = "create"]
  /\ UNCHANGED <<status, call, rows, started>>

\* Mutant: predict_batch is not given the model and resolves it again.
CreateResolvingAgain(b) ==
  /\ batch[b].pc = "create"
  /\ \E m \in Models :
       /\ Active(m)
       /\ batch' = [batch EXCEPT ![b].pc = "wait", ![b].ran = m]
  /\ UNCHANGED <<status, call, rows, started>>

(* create_model takes the container from the package, which must exist.    *)
CreateTransform(b) ==
  /\ batch[b].pc = "create"
  /\ Exists(batch[b].model)
  /\ batch' = [batch EXCEPT ![b].pc = "wait", ![b].ran = batch[b].model]
  /\ UNCHANGED <<status, call, rows, started>>

(* The polling loop sees Completed; the output may hold fewer lines than   *)
(* there are vectors, and the predictions then stop there.                 *)
TransformEnds(b) ==
  /\ batch[b].pc = "wait"
  /\ \E k \in 0 .. NumVectors :
       batch' = [batch EXCEPT ![b].pc = "store", ![b].out = k]
  /\ UNCHANGED <<status, call, rows, started>>

Row(b, u) == [execution |-> b, user |-> u, model |-> batch[b].model]

(* batch_writer sends the rows in groups, whose items DynamoDB writes one  *)
(* by one and in part; it puts the unprocessed ones back at the end of its *)
(* buffer, so a row may overtake another.                                  *)
WriteRow(b) ==
  /\ batch[b].pc = "store"
  /\ \E u \in (1 .. batch[b].out) \ Written(b) : rows' = rows \cup {Row(b, u)}
  /\ UNCHANGED <<status, call, batch, started>>

\* Mutant: the writer is not closed and its last rows stay in its buffer.
ReturnUnflushed(b) ==
  /\ batch[b].pc = "store"
  /\ batch' = [batch EXCEPT ![b].pc = "returned"]
  /\ UNCHANGED <<status, call, rows, started>>

(* Leaving the writer's context flushes what is left of its buffer.        *)
BatchReturns(b) ==
  /\ batch[b].pc = "store"
  /\ Written(b) = 1 .. batch[b].out
  /\ batch' = [batch EXCEPT ![b].pc = "returned"]
  /\ UNCHANGED <<status, call, rows, started>>

BatchFails(b) ==
  /\ Running(b)
  /\ \/ MayFail
     \/ batch[b].pc \in {"describe", "create"} /\ ~Exists(batch[b].model)
  /\ batch' = [batch EXCEPT ![b].pc = "failed"]
  /\ UNCHANGED <<status, call, rows, started>>

(* predict_handler writes to the same table, with the S3 key of its model  *)
(* in model_version: a row that names no package.                          *)
PipelineRow ==
  /\ rows' = rows \cup {[execution |-> Pipeline, user |-> 1,
                         model |-> NoModel]}
  /\ rows' # rows
  /\ UNCHANGED <<status, call, batch, started>>

-----------------------------------------------------------------------------
OperatorStep(o) ==
  \/ \E op \in Ops, m \in Models : StartCall(o, op, m)
  \/ CheckTarget(o) \/ ListApproved(o) \/ DescribeActive(o)
  \/ RecheckTarget(o) \/ UpdateApproved(o) \/ CheckCurrent(o)
  \/ UpdateRejected(o) \/ ScanPredictions(o) \/ DeletePackage(o)
  \/ CallFails(o)

BatchStep(b) ==
  \/ StartBatch(b) \/ ResolveModel(b) \/ DescribeResolved(b)
  \/ CreateTransform(b) \/ TransformEnds(b) \/ WriteRow(b)
  \/ BatchReturns(b) \/ BatchFails(b)

Next ==
  \/ \E m \in Models : RegisterModel(m)
  \/ \E o \in Operators : OperatorStep(o)
  \/ \E b \in Batches : BatchStep(b)
  \/ PipelineRow

Spec == Init /\ [][Next]_vars

-----------------------------------------------------------------------------
(* Properties.                                                             *)

(* A prediction row names the model whose transform job produced it, even  *)
(* when the active model changes while the batch runs: process() resolves  *)
(* the model once and hands the same one to predict_batch and to the rows. *)
RowsAreTraceable ==
  \A r \in rows : r.execution \in Batches => r.model = batch[r.execution].ran

(* An execution has rows only for vectors its transform answered, however  *)
(* it is interrupted; a process() that returned has one for each of them,  *)
(* and nothing later, of any batch or operator, takes one away.            *)
RowsMatchOutput ==
  \A b \in Batches :
    /\ Written(b) \subseteq 1 .. batch[b].out
    /\ batch[b].pc = "returned" => Written(b) = 1 .. batch[b].out

(* delete_model refuses only a model that some prediction row names: rows  *)
(* of other models never make a package undeletable.                       *)
RefusalsAreJustified ==
  \A o \in Operators :
    call[o].outcome = "ModelInProduction" => RowsOf(call[o].target) # {}

(* No other operator has ever called the registry.                         *)
Alone(o) == \A q \in Operators \ {o} : call[q].op = "none"

(* While nobody else works on the registry, a rollback never takes the     *)
(* last approved model away: the target is approved before the current     *)
(* model is rejected, and a failure in between leaves both approved.       *)
RollbackKeepsAModel ==
  [][\A o \in Operators :
       (Alone(o) /\ call[o].op = "rollback" /\ call[o].pc # "idle" /\ Approved # {}
          /\ call'[o] # call[o])
         => {m \in Models : status'[m] = "Approved"} # {}]_vars

(* While nobody else works on the registry, a rollback that returns has    *)
(* approved its target and, if it knew of another model that was active,   *)
(* taken the approval from that one.  It knows of none if there is none,   *)
(* and also if describing the active model fails: then both stay approved  *)
(* although rollback() returns.                                            *)
RollbackSwitches ==
  [][\A o \in Operators :
       (Alone(o) /\ call[o].op = "rollback" /\ call[o].pc # "idle"
          /\ call'[o].outcome = "ok")
         => /\ status'[call[o].target] = "Approved"
            /\ ReplacesActive(call[o])
                 => status'[call[o].current] # "Approved"]_vars

(* Requirement 15.6: a model version used in production predictions is     *)
(* never deleted.                                                          *)
UsedModelsStay ==
  \A m \in Models : RowsOf(m) # {} => status[m] # "Deleted"

=============================================================================
