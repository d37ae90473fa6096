------------------------ MODULE ModelRegistry_proofs ------------------------
(***************************************************************************)
(* Theorems about ModelRegistry for every set of operators, every set of   *)
(* batches and every bound.                                                *)
(***************************************************************************)
EXTENDS ModelRegistry, TLAPS

-----------------------------------------------------------------------------
(* The batches: what a process() call has written and what it ran.         *)

(* The model a batch resolved is the one its job ran, once there is one,   *)
(* and a batch that returned has a row for every line of its output.       *)
BatchInv ==
  \A b \in Batches :
    /\ batch[b].pc \in {"wait", "store", "returned"}
         => batch[b].ran = batch[b].model
    /\ batch[b].pc = "returned"
         => \A u \in 1 .. batch[b].out :
              \E r \in rows : r.execution = b /\ r.user = u

(* A row of a batch exists only once the job has answered, and never past  *)
(* the end of the answer.                                                  *)
RowInv ==
  \A r \in rows : \A b \in Batches :
    r.execution = b =>
      /\ batch[b].pc \in {"store", "returned", "failed"}
      /\ r.user \in 1 .. batch[b].out
      /\ r.model = batch[b].model
      /\ batch[b].ran = batch[b].model

(* A refused deletion names a model with a row.                            *)
RefusalInv ==
  \A o \in Operators :
    /\ call[o].outcome = "ModelInProduction"
         => \E r \in rows : r.model = call[o].target
    /\ call[o].pc # "idle" => call[o].outcome = "none"

(* A rollback rejects only a model that is not its target, and only        *)
(* deletions scan and delete.                                              *)
CallInv ==
  \A o \in Operators :
    /\ call[o].pc # "idle" => call[o].target \in Models
    /\ call[o].pc = "describe" => call[o].current \in Models
    /\ call[o].pc = "rejectcheck" => ReplacesActive(call[o])
    /\ (call[o].pc = "reject" /\ call[o].op = "rollback")
         => ReplacesActive(call[o])
    /\ call[o].pc # "idle" => call[o].op \in Ops
    /\ call[o].pc \in {"scan", "delete"} => call[o].op = "delete"

IInv == TypeOK /\ BatchInv /\ RowInv /\ RefusalInv /\ CallInv

-----------------------------------------------------------------------------

(* The invariant holds before any call.                                    *)
THEOREM InitIInv == Init => IInv
<1> SUFFICES ASSUME Init PROVE IInv
  OBVIOUS
<1>1. TypeOK
  BY RegistryAssumption
  DEF Init, TypeOK, Statuses, Pcs, Outcomes, BatchPcs, Models, NoModel
<1>2. BatchInv /\ RowInv
  BY RegistryAssumption DEF Init, BatchInv, RowInv
<1>3. RefusalInv /\ CallInv
  BY DEF Init, RefusalInv, CallInv
<1>4. QED
  BY <1>1, <1>2, <1>3 DEF IInv

(* Moving an operation to another call, or ending it, keeps its record a   *)
(* record of an operation.                                                 *)
CallRecords ==
  [op : Ops \cup {"none"}, pc : Pcs, target : Models \cup {NoModel},
   current : Models \cup {NoModel}, outcome : Outcomes]

(* A step that only moves calls keeps the types, if they stay records.     *)
LEMMA CallType ==
  ASSUME TypeOK, call' \in [Operators -> CallRecords],
         UNCHANGED <<status, batch, rows, started>>
  PROVE  TypeOK'
BY DEF TypeOK, CallRecords

(* Going on with an operation leaves a record.                             *)
LEMMA GotoType ==
  ASSUME TypeOK, NEW o \in Operators, NEW pc \in Pcs, Goto(o, pc)
  PROVE  call' \in [Operators -> CallRecords]
BY DEF TypeOK, Goto, CallRecords

(* Ending one does, too.                                                   *)
LEMMA EndType ==
  ASSUME TypeOK, NEW o \in Operators, NEW out \in Outcomes, End(o, out)
  PROVE  call' \in [Operators -> CallRecords]
<1>1. call \in [Operators -> CallRecords] /\ "idle" \in Pcs
  BY DEF TypeOK, CallRecords, Pcs
<1>2. [call[o] EXCEPT !.pc = "idle", !.outcome = out] \in CallRecords
  BY <1>1 DEF CallRecords
<1>3. call' = [call EXCEPT ![o] = [call[o] EXCEPT !.pc = "idle",
                                                  !.outcome = out]]
  BY <1>1 DEF End, CallRecords
<1>4. QED
  BY <1>1, <1>2, <1>3

(* Ending an operation keeps what is known of the others.                  *)
LEMMA EndKeepsCalls ==
  ASSUME TypeOK, CallInv, NEW o \in Operators, NEW out, End(o, out)
  PROVE  CallInv'
<1>1. \A q \in Operators : /\ call'[q].op = call[q].op
                           /\ call'[q].target = call[q].target
                           /\ call'[q].current = call[q].current
                           /\ call'[q].pc \in {"idle", call[q].pc}
  BY DEF TypeOK, End
<1>2. QED
  BY <1>1 DEF CallInv, ReplacesActive

(* Moving on keeps it if the next call finds what it relies on.            *)
LEMMA GotoKeepsCalls ==
  ASSUME TypeOK, CallInv, NEW o \in Operators, NEW pc, Goto(o, pc),
         call[o].pc # "idle", pc # "describe",
         (pc = "rejectcheck" \/ (pc = "reject" /\ call[o].op = "rollback"))
           => ReplacesActive(call[o]),
         pc \in {"scan", "delete"} => call[o].op = "delete"
  PROVE  CallInv'
<1>1. \A q \in Operators : /\ call'[q].op = call[q].op
                           /\ call'[q].target = call[q].target
                           /\ call'[q].current = call[q].current
                           /\ q # o => call'[q].pc = call[q].pc
  BY DEF TypeOK, Goto
<1>2. call'[o].pc = pc
  BY DEF TypeOK, Goto
<1>3. QED
  BY <1>1, <1>2 DEF CallInv, ReplacesActive

(* What an operation does to its own record leaves the others alone.       *)
LEMMA OperatorKeepsCalls ==
  ASSUME IInv, NEW o \in Operators, OperatorStep(o)
  PROVE  TypeOK' /\ CallInv' /\ RefusalInv'
<1> USE DEF IInv
<1>1. ASSUME NEW op \in Ops, NEW m \in Models, StartCall(o, op, m)
      PROVE  TypeOK' /\ CallInv' /\ RefusalInv'
  <2>1. TypeOK'
    BY <1>1, RegistryAssumption DEF StartCall, TypeOK, Pcs, Outcomes, NoModel
  <2>2. CallInv'
    BY <1>1 DEF StartCall, TypeOK, CallInv, ReplacesActive
  <2>3. RefusalInv'
    BY <1>1 DEF StartCall, TypeOK, RefusalInv
  <2>4. QED
    BY <2>1, <2>2, <2>3
<1>2. ASSUME CheckTarget(o)
      PROVE  TypeOK' /\ CallInv' /\ RefusalInv'
  <2>1. TypeOK'
    <3>1. Goto(o, AfterCheck(call[o].op)) \/ End(o, "ModelNotFound")
      BY <1>2 DEF CheckTarget
    <3>2. AfterCheck(call[o].op) \in Pcs /\ "ModelNotFound" \in Outcomes
      BY <1>2, RegistryAssumption
      DEF CheckTarget, AfterCheck, CallInv, Pcs, Outcomes
    <3>3. call' \in [Operators -> CallRecords]
      BY <3>1, <3>2, GotoType, EndType
    <3>4. QED
      BY <1>2, <3>3 DEF CheckTarget, TypeOK, CallRecords
  <2>2. CallInv'
    <3>1. CASE End(o, "ModelNotFound")
      BY <3>1, EndKeepsCalls
    <3>2. CASE Goto(o, AfterCheck(call[o].op))
      BY <1>2, <3>2, RegistryAssumption, GotoKeepsCalls
      DEF CheckTarget, AfterCheck, CallInv
    <3>3. QED
      BY <1>2, <3>1, <3>2 DEF CheckTarget
  <2>3. RefusalInv'
    BY <1>2 DEF CheckTarget, Goto, End, TypeOK, RefusalInv, AfterCheck
  <2>4. QED
    BY <2>1, <2>2, <2>3
<1>3. ASSUME ListApproved(o)
      PROVE  TypeOK' /\ CallInv' /\ RefusalInv'
  <2>1. TypeOK'
    <3>1. CASE Goto(o, "recheck")
      BY <1>3, <3>1, GotoType DEF ListApproved, TypeOK, CallRecords, Pcs
    <3>2. ASSUME NEW m \in Models,
                 call' = [call EXCEPT ![o].pc = "describe", ![o].current = m]
          PROVE  TypeOK'
      <4>1. call \in [Operators -> CallRecords] /\ "describe" \in Pcs
        BY DEF TypeOK, CallRecords, Pcs
      <4>2. [call[o] EXCEPT !.pc = "describe", !.current = m] \in CallRecords
        BY <4>1 DEF CallRecords
      <4>3. call' = [call EXCEPT ![o] =
                       [call[o] EXCEPT !.pc = "describe", !.current = m]]
        BY <3>2, <4>1 DEF CallRecords
      <4>4. call' \in [Operators -> CallRecords]
        BY <4>1, <4>2, <4>3
      <4>5. QED
        BY <1>3, <4>4, CallType DEF ListApproved
    <3>3. QED
      BY <1>3, <3>1, <3>2 DEF ListApproved
  <2>2. CallInv'
    <3>1. CASE Goto(o, "recheck")
      BY <1>3, <3>1, GotoKeepsCalls DEF ListApproved
    <3>2. ASSUME NEW m \in Models,
                 call' = [call EXCEPT ![o].pc = "describe", ![o].current = m]
          PROVE  CallInv'
      <4>1. \A q \in Operators : /\ call'[q].op = call[q].op
                                 /\ call'[q].target = call[q].target
                                 /\ q # o => /\ call'[q].pc = call[q].pc
                                            /\ call'[q].current = call[q].current
        BY <3>2 DEF TypeOK
      <4>2. call'[o].pc = "describe" /\ call'[o].current = m
        BY <3>2 DEF TypeOK
      <4>3. call[o].pc = "list"
        BY <1>3 DEF ListApproved
      <4>4. QED
        BY <4>1, <4>2, <4>3 DEF CallInv, ReplacesActive
    <3>3. QED
      BY <1>3, <3>1, <3>2 DEF ListApproved
  <2>3. RefusalInv'
    <3>1. \A q \in Operators :
            /\ call'[q].outcome = call[q].outcome
            /\ call'[q].target = call[q].target
            /\ call'[q].pc # "idle" => call[q].pc # "idle"
      BY <1>3 DEF ListApproved, Goto, TypeOK
    <3>2. rows' = rows
      BY <1>3 DEF ListApproved
    <3>3. QED
      BY <3>1, <3>2 DEF RefusalInv
  <2>4. QED
    BY <2>1, <2>2, <2>3
<1>4. ASSUME DescribeActive(o)
      PROVE  TypeOK' /\ CallInv' /\ RefusalInv'
  <2>1. TypeOK'
    BY <1>4, RegistryAssumption
    DEF DescribeActive, Goto, End, TypeOK, CallInv, Pcs, Outcomes, Statuses, NoModel
  <2>2. CallInv'
    BY <1>4, RegistryAssumption
    DEF DescribeActive, Goto, End, TypeOK, CallInv, ReplacesActive, NoModel
  <2>3. RefusalInv'
    BY <1>4 DEF DescribeActive, Goto, End, TypeOK, RefusalInv
  <2>4. QED
    BY <2>1, <2>2, <2>3
<1>5. ASSUME RecheckTarget(o)
      PROVE  TypeOK' /\ CallInv' /\ RefusalInv'
  <2>1. TypeOK'
    <3>1. Goto(o, "approve") \/ End(o, "ModelNotFound")
      BY <1>5 DEF RecheckTarget
    <3>2. "ModelNotFound" \in Outcomes
      BY DEF Outcomes
    <3>3. call' \in [Operators -> CallRecords]
      BY <3>1, <3>2, GotoType, EndType DEF Pcs
    <3>4. QED
      BY <1>5, <3>3 DEF RecheckTarget, TypeOK, CallRecords
  <2>2. CallInv'
    <3>1. CASE End(o, "ModelNotFound")
      BY <3>1, EndKeepsCalls
    <3>2. CASE Goto(o, "approve")
      BY <1>5, <3>2, GotoKeepsCalls DEF RecheckTarget
    <3>3. QED
      BY <1>5, <3>1, <3>2 DEF RecheckTarget
  <2>3. RefusalInv'
    BY <1>5 DEF RecheckTarget, Goto, End, TypeOK, RefusalInv
  <2>4. QED
    BY <2>1, <2>2, <2>3
<1>6. ASSUME UpdateApproved(o)
      PROVE  TypeOK' /\ CallInv' /\ RefusalInv'
  <2>1. TypeOK'
    <3>1. Goto(o, "rejectcheck") \/ End(o, "ok")
      BY <1>6 DEF UpdateApproved
    <3>2. "ok" \in Outcomes
      BY DEF Outcomes
    <3>3. call' \in [Operators -> CallRecords]
      BY <3>1, <3>2, GotoType, EndType DEF Pcs
    <3>4. QED
      BY <1>6, <3>3 DEF UpdateApproved, TypeOK, CallRecords, Statuses
  <2>2. CallInv'
    <3>1. CASE ~ReplacesActive(call[o])
      BY <1>6, <3>1, EndKeepsCalls DEF UpdateApproved
    <3>2. CASE ReplacesActive(call[o])
      BY <1>6, <3>2, GotoKeepsCalls DEF UpdateApproved
    <3>3. QED
      BY <3>1, <3>2
  <2>3. RefusalInv'
    <3>1. CASE Goto(o, "rejectcheck")
      BY <1>6, <3>1 DEF UpdateApproved, Goto, TypeOK, RefusalInv
    <3>2. CASE End(o, "ok")
      BY <1>6, <3>2 DEF UpdateApproved, End, TypeOK, RefusalInv
    <3>3. QED
      BY <1>6, <3>1, <3>2 DEF UpdateApproved
  <2>4. QED
    BY <2>1, <2>2, <2>3
<1>7. ASSUME CheckCurrent(o)
      PROVE  TypeOK' /\ CallInv' /\ RefusalInv'
  <2>1. TypeOK'
    <3>1. Goto(o, "reject") \/ End(o, "ModelNotFound")
      BY <1>7 DEF CheckCurrent
    <3>2. "ModelNotFound" \in Outcomes
      BY DEF Outcomes
    <3>3. call' \in [Operators -> CallRecords]
      BY <3>1, <3>2, GotoType, EndType DEF Pcs
    <3>4. QED
      BY <1>7, <3>3 DEF CheckCurrent, TypeOK, CallRecords
  <2>2. CallInv'
    <3>1. CASE End(o, "ModelNotFound")
      BY <3>1, EndKeepsCalls
    <3>2. CASE Goto(o, "reject")
      BY <1>7, <3>2, GotoKeepsCalls DEF CheckCurrent, CallInv
    <3>3. QED
      BY <1>7, <3>1, <3>2 DEF CheckCurrent
  <2>3. RefusalInv'
    BY <1>7 DEF CheckCurrent, Goto, End, TypeOK, RefusalInv
  <2>4. QED
    BY <2>1, <2>2, <2>3
<1>8. ASSUME UpdateRejected(o)
      PROVE  TypeOK' /\ CallInv' /\ RefusalInv'
  <2>1. TypeOK'
    <3>1. End(o, "ok")
      BY <1>8 DEF UpdateRejected
    <3>2. "ok" \in Outcomes
      BY DEF Outcomes
    <3>3. call' \in [Operators -> CallRecords]
      BY <3>1, <3>2, GotoType, EndType DEF Pcs
    <3>4. QED
      BY <1>8, <3>3 DEF UpdateRejected, TypeOK, CallRecords, Statuses
  <2>2. CallInv'
    BY <1>8, EndKeepsCalls DEF UpdateRejected
  <2>3. RefusalInv'
    BY <1>8 DEF UpdateRejected, Goto, End, TypeOK, RefusalInv
  <2>4. QED
    BY <2>1, <2>2, <2>3
<1>9. ASSUME ScanPredictions(o)
      PROVE  TypeOK' /\ CallInv' /\ RefusalInv'
  <2>1. TypeOK'
    <3>1. Goto(o, "delete") \/ End(o, "ModelInProduction")
      BY <1>9 DEF ScanPredictions
    <3>2. "ModelInProduction" \in Outcomes
      BY DEF Outcomes
    <3>3. call' \in [Operators -> CallRecords]
      BY <3>1, <3>2, GotoType, EndType DEF Pcs
    <3>4. QED
      BY <1>9, <3>3 DEF ScanPredictions, TypeOK, CallRecords
  <2>2. CallInv'
    <3>1. CASE End(o, "ModelInProduction")
      BY <3>1, EndKeepsCalls
    <3>2. CASE Goto(o, "delete")
      BY <1>9, <3>2, GotoKeepsCalls DEF ScanPredictions, CallInv
    <3>3. QED
      BY <1>9, <3>1, <3>2 DEF ScanPredictions
  <2>3. RefusalInv'
    BY <1>9 DEF ScanPredictions, Goto, End, TypeOK, RefusalInv
  <2>4. QED
    BY <2>1, <2>2, <2>3
<1>10. ASSUME DeletePackage(o)
      PROVE  TypeOK' /\ CallInv' /\ RefusalInv'
  <2>1. TypeOK'
    <3>1. End(o, "ok")
      BY <1>10 DEF DeletePackage
    <3>2. "ok" \in Outcomes
      BY DEF Outcomes
    <3>3. call' \in [Operators -> CallRecords]
      BY <3>1, <3>2, GotoType, EndType DEF Pcs
    <3>4. QED
      BY <1>10, <3>3 DEF DeletePackage, TypeOK, CallRecords, Statuses
  <2>2. CallInv'
    BY <1>10, EndKeepsCalls DEF DeletePackage
  <2>3. RefusalInv'
    BY <1>10 DEF DeletePackage, Goto, End, TypeOK, RefusalInv
  <2>4. QED
    BY <2>1, <2>2, <2>3
<1>11. ASSUME CallFails(o)
      PROVE  TypeOK' /\ CallInv' /\ RefusalInv'
  <2>1. TypeOK'
    <3>1. End(o, "error")
      BY <1>11 DEF CallFails
    <3>2. "error" \in Outcomes
      BY DEF Outcomes
    <3>3. call' \in [Operators -> CallRecords]
      BY <3>1, <3>2, GotoType, EndType DEF Pcs
    <3>4. QED
      BY <1>11, <3>3 DEF CallFails, TypeOK, CallRecords
  <2>2. CallInv'
    BY <1>11, EndKeepsCalls DEF CallFails
  <2>3. RefusalInv'
    BY <1>11 DEF CallFails, Goto, End, TypeOK, RefusalInv
  <2>4. QED
    BY <2>1, <2>2, <2>3
<1>12. QED
  BY <1>1, <1>2, <1>3, <1>4, <1>5, <1>6, <1>7, <1>8, <1>9, <1>10, <1>11
  DEF OperatorStep

(* The operations of the registry touch neither batches nor rows.          *)
LEMMA OperatorFrame ==
  ASSUME IInv, NEW o \in Operators, OperatorStep(o)
  PROVE  BatchInv' /\ RowInv'
<1>1. UNCHANGED <<batch, rows>>
  BY DEF OperatorStep, StartCall, CheckTarget, ListApproved, DescribeActive,
         RecheckTarget, UpdateApproved, CheckCurrent, UpdateRejected,
         ScanPredictions, DeletePackage, CallFails
<1>2. QED
  BY <1>1 DEF IInv, BatchInv, RowInv

BatchRecords ==
  [pc : BatchPcs, model : Models \cup {NoModel}, ran : Models \cup {NoModel},
   out : 0 .. NumVectors]

(* Replacing the record of a batch by another one keeps the types.         *)
LEMMA BatchType ==
  ASSUME TypeOK, NEW b \in Batches, NEW r \in BatchRecords,
         batch' = [batch EXCEPT ![b] = r],
         UNCHANGED <<status, call, rows, started>>
  PROVE  TypeOK'
<1>1. batch' \in [Batches -> BatchRecords]
  BY DEF TypeOK, BatchRecords
<1>2. QED
  BY <1>1 DEF TypeOK, BatchRecords

(* A process() call keeps what its record says of its job and its rows.    *)
LEMMA BatchKeepsBatches ==
  ASSUME IInv, NEW b \in Batches, BatchStep(b)
  PROVE  TypeOK' /\ BatchInv' /\ RowInv'
<1> USE DEF IInv
<1>1. ASSUME StartBatch(b)
      PROVE  TypeOK' /\ BatchInv' /\ RowInv'
  <2>1. TypeOK'
    <3>1. /\ [batch[b] EXCEPT !.pc = "resolve"] \in BatchRecords
          /\ \A m \in Models :
               [batch[b] EXCEPT !.pc = "create", !.model = m] \in BatchRecords
      BY DEF TypeOK, BatchRecords, BatchPcs
    <3>2. \/ batch' = [batch EXCEPT ![b] = [batch[b] EXCEPT !.pc = "resolve"]]
          \/ \E m \in Models :
               batch' = [batch EXCEPT ![b] =
                           [batch[b] EXCEPT !.pc = "create", !.model = m]]
      BY <1>1 DEF StartBatch, TypeOK
    <3>3. PICK r \in BatchRecords : batch' = [batch EXCEPT ![b] = r]
      BY <3>1, <3>2
    <3>4. UNCHANGED <<status, call, rows, started>>
      BY <1>1 DEF StartBatch
    <3>5. QED
      BY <3>3, <3>4, BatchType
  <2>2. BatchInv'
    <3>1. batch'[b].pc \in {"resolve", "create"}
      BY <1>1 DEF StartBatch, TypeOK
    <3>2. \A c \in Batches : c # b => batch'[c] = batch[c]
      BY <1>1 DEF StartBatch, TypeOK
    <3>3. rows' = rows
      BY <1>1 DEF StartBatch
    <3>4. QED
      BY <3>1, <3>2, <3>3 DEF BatchInv
  <2>3. RowInv'
    <3>1. \A r \in rows : r.execution # b
      BY <1>1 DEF StartBatch, RowInv
    <3>2. \A c \in Batches : c # b => batch'[c] = batch[c]
      BY <1>1 DEF StartBatch, TypeOK
    <3>3. rows' = rows
      BY <1>1 DEF StartBatch
    <3>4. QED
      BY <3>1, <3>2, <3>3 DEF RowInv
  <2>4. QED
    BY <2>1, <2>2, <2>3
<1>2. ASSUME ResolveModel(b)
      PROVE  TypeOK' /\ BatchInv' /\ RowInv'
  <2>1. TypeOK'
    <3>1. PICK r \in BatchRecords : batch' = [batch EXCEPT ![b] = r]
      <4>1. \A m \in Models :
              [batch[b] EXCEPT !.pc = "describe", !.model = m] \in BatchRecords
        BY DEF TypeOK, BatchRecords, BatchPcs
      <4>2. [batch[b] EXCEPT !.pc = "failed"] \in BatchRecords
        BY DEF TypeOK, BatchRecords, BatchPcs
      <4>3. \/ batch' = [batch EXCEPT ![b] = [batch[b] EXCEPT !.pc = "failed"]]
            \/ \E m \in Models :
                 batch' = [batch EXCEPT ![b] =
                    [batch[b] EXCEPT !.pc = "describe", !.model = m]]
        BY <1>2 DEF ResolveModel, TypeOK
      <4>4. QED
        BY <4>1, <4>2, <4>3
    <3>2. QED
      BY <1>2, <3>1, BatchType DEF ResolveModel
  <2>2. BatchInv'
    BY <1>2, RegistryAssumption DEF ResolveModel, TypeOK, BatchInv
  <2>3. RowInv'
    BY <1>2, RegistryAssumption DEF ResolveModel, TypeOK, BatchInv, RowInv
  <2>4. QED
    BY <2>1, <2>2, <2>3
<1>3. ASSUME DescribeResolved(b)
      PROVE  TypeOK' /\ BatchInv' /\ RowInv'
  <2>1. TypeOK'
    BY <1>3, RegistryAssumption DEF DescribeResolved, TypeOK, BatchInv, BatchPcs
  <2>2. BatchInv'
    BY <1>3, RegistryAssumption DEF DescribeResolved, TypeOK, BatchInv
  <2>3. RowInv'
    BY <1>3, RegistryAssumption DEF DescribeResolved, TypeOK, BatchInv, RowInv
  <2>4. QED
    BY <2>1, <2>2, <2>3
<1>4. ASSUME CreateTransform(b)
      PROVE  TypeOK' /\ BatchInv' /\ RowInv'
  <2>1. TypeOK'
    <3>1. [batch[b] EXCEPT !.pc = "wait", !.ran = batch[b].model]
             \in BatchRecords
      BY DEF TypeOK, BatchRecords, BatchPcs
    <3>2. batch' = [batch EXCEPT ![b] =
                      [batch[b] EXCEPT !.pc = "wait", !.ran = batch[b].model]]
      BY <1>4 DEF CreateTransform, TypeOK
    <3>3. QED
      BY <1>4, <3>1, <3>2 DEF CreateTransform, TypeOK, BatchRecords
  <2>2. BatchInv'
    BY <1>4, RegistryAssumption DEF CreateTransform, TypeOK, BatchInv
  <2>3. RowInv'
    BY <1>4, RegistryAssumption DEF CreateTransform, TypeOK, BatchInv, RowInv
  <2>4. QED
    BY <2>1, <2>2, <2>3
<1>5. ASSUME TransformEnds(b)
      PROVE  TypeOK' /\ BatchInv' /\ RowInv'
  <2>1. TypeOK'
    <3>1. PICK k \in 0 .. NumVectors :
            batch' = [batch EXCEPT ![b].pc = "store", ![b].out = k]
      BY <1>5 DEF TransformEnds
    <3>2. [batch[b] EXCEPT !.pc = "store", !.out = k] \in BatchRecords
      BY DEF TypeOK, BatchRecords, BatchPcs
    <3>3. batch' = [batch EXCEPT ![b] =
                      [batch[b] EXCEPT !.pc = "store", !.out = k]]
      BY <3>1 DEF TypeOK
    <3>4. QED
      BY <1>5, <3>2, <3>3 DEF TransformEnds, TypeOK, BatchRecords
  <2>2. BatchInv'
    BY <1>5, RegistryAssumption DEF TransformEnds, TypeOK, BatchInv
  <2>3. RowInv'
    BY <1>5, RegistryAssumption DEF TransformEnds, TypeOK, BatchInv, RowInv
  <2>4. QED
    BY <2>1, <2>2, <2>3
<1>6. ASSUME WriteRow(b)
      PROVE  TypeOK' /\ BatchInv' /\ RowInv'
  <2>1. PICK u \in 1 .. batch[b].out : rows' = rows \cup {Row(b, u)}
    BY <1>6 DEF WriteRow
  <2>2. u \in 1 .. NumVectors /\ batch' = batch /\ batch[b].pc = "store"
    BY <1>6, RegistryAssumption DEF WriteRow, TypeOK
  <2>3. /\ Row(b, u).execution = b /\ Row(b, u).user = u
        /\ Row(b, u).model = batch[b].model
    BY DEF Row
  <2>4. TypeOK'
    BY <1>6, <2>1, <2>2 DEF WriteRow, Row, TypeOK
  <2>5. BatchInv'
    BY <2>1, <2>2 DEF BatchInv
  <2>6. RowInv'
    BY <2>1, <2>2, <2>3 DEF RowInv, BatchInv
  <2>7. QED
    BY <2>4, <2>5, <2>6
<1>7. ASSUME BatchReturns(b)
      PROVE  TypeOK' /\ BatchInv' /\ RowInv'
  <2>1. TypeOK'
    BY <1>7, RegistryAssumption DEF BatchReturns, TypeOK, BatchInv, BatchPcs
  <2>2. BatchInv'
    <3>1. \A u \in 1 .. batch[b].out :
            \E r \in rows : r.execution = b /\ r.user = u
      BY <1>7 DEF BatchReturns, Written
    <3>2. QED
      BY <1>7, <3>1 DEF BatchReturns, TypeOK, BatchInv
  <2>3. RowInv'
    BY <1>7, RegistryAssumption DEF BatchReturns, TypeOK, BatchInv, RowInv
  <2>4. QED
    BY <2>1, <2>2, <2>3
<1>8. ASSUME BatchFails(b)
      PROVE  TypeOK' /\ BatchInv' /\ RowInv'
  <2>1. TypeOK'
    <3>1. [batch[b] EXCEPT !.pc = "failed"] \in BatchRecords
      BY DEF TypeOK, BatchRecords, BatchPcs
    <3>2. batch' = [batch EXCEPT ![b] = [batch[b] EXCEPT !.pc = "failed"]]
      BY <1>8 DEF BatchFails, TypeOK
    <3>3. QED
      BY <1>8, <3>1, <3>2, BatchType DEF BatchFails
  <2>2. BatchInv'
    BY <1>8, RegistryAssumption DEF BatchFails, TypeOK, BatchInv, Running
  <2>3. RowInv'
    BY <1>8, RegistryAssumption DEF BatchFails, TypeOK, BatchInv, RowInv, Running
  <2>4. QED
    BY <2>1, <2>2, <2>3
<1>9. QED
  BY <1>1, <1>2, <1>3, <1>4, <1>5, <1>6, <1>7, <1>8 DEF BatchStep

(* A process() call never removes a row, nor touches the operations.       *)
LEMMA BatchFrame ==
  ASSUME IInv, NEW b \in Batches, BatchStep(b)
  PROVE  CallInv' /\ RefusalInv'
<1>1. UNCHANGED call /\ rows \subseteq rows'
  BY DEF BatchStep, StartBatch, ResolveModel, DescribeResolved,
         CreateTransform, TransformEnds, WriteRow, BatchReturns, BatchFails
<1>2. CallInv'
  BY <1>1 DEF IInv, CallInv, ReplacesActive
<1>3. RefusalInv'
  BY <1>1 DEF IInv, RefusalInv
<1>4. QED
  BY <1>2, <1>3

(* Every step of operators, batches and pipeline keeps the invariant.      *)
THEOREM StepIInv == IInv /\ [Next]_vars => IInv'
<1> SUFFICES ASSUME IInv, [Next]_vars PROVE IInv'
  OBVIOUS
<1>1. ASSUME NEW m \in Models, RegisterModel(m) PROVE IInv'
  <2>1. TypeOK'
    BY <1>1 DEF IInv, RegisterModel, TypeOK, Statuses
  <2>2. BatchInv' /\ RowInv'
    BY <1>1 DEF IInv, RegisterModel, BatchInv, RowInv
  <2>3. CallInv' /\ RefusalInv'
    BY <1>1 DEF IInv, RegisterModel, CallInv, RefusalInv, ReplacesActive
  <2>4. QED
    BY <2>1, <2>2, <2>3 DEF IInv
<1>2. ASSUME NEW o \in Operators, OperatorStep(o) PROVE IInv'
  BY <1>2, OperatorKeepsCalls, OperatorFrame DEF IInv
<1>3. ASSUME NEW b \in Batches, BatchStep(b) PROVE IInv'
  BY <1>3, BatchKeepsBatches, BatchFrame DEF IInv
<1>4. ASSUME PipelineRow PROVE IInv'
  <2>1. TypeOK'
    BY <1>4, RegistryAssumption DEF IInv, PipelineRow, TypeOK
  <2>2. BatchInv' /\ CallInv'
    BY <1>4 DEF IInv, PipelineRow, BatchInv, CallInv, ReplacesActive
  <2>3. RowInv'
    BY <1>4, RegistryAssumption DEF IInv, PipelineRow, RowInv
  <2>4. RefusalInv'
    BY <1>4 DEF IInv, PipelineRow, RefusalInv
  <2>5. QED
    BY <2>1, <2>2, <2>3, <2>4 DEF IInv
<1>5. ASSUME UNCHANGED vars PROVE IInv'
  BY <1>5 DEF IInv, vars, TypeOK, BatchInv, RowInv, CallInv, RefusalInv,
              ReplacesActive
<1>6. QED
  BY <1>1, <1>2, <1>3, <1>4, <1>5 DEF Next

(* The invariant holds whatever operators and batches interleave.          *)
THEOREM InductiveInvariant == Spec => []IInv
BY InitIInv, StepIInv, PTL DEF Spec

-----------------------------------------------------------------------------

(* The state of the registry, of the operations in flight, of the batches  *)
(* and of the predictions table has the declared shape.                    *)
THEOREM TypeCorrect == Spec => []TypeOK
<1>1. IInv => TypeOK
  BY DEF IInv
<1>2. QED
  BY <1>1, InductiveInvariant, PTL

(* Every prediction row names the model its transform job ran, whatever    *)
(* operators do to the approvals meanwhile.                                *)
THEOREM Traceability == Spec => []RowsAreTraceable
<1>1. IInv => RowsAreTraceable
  BY DEF IInv, TypeOK, BatchInv, RowInv, RowsAreTraceable
<1>2. QED
  BY <1>1, InductiveInvariant, PTL

(* The rows of an execution are those of vectors its transform answered,   *)
(* and all of them once process() has returned.                            *)
THEOREM RowsMatch == Spec => []RowsMatchOutput
<1>1. IInv => RowsMatchOutput
  <2> SUFFICES ASSUME IInv, NEW b \in Batches
      PROVE  /\ Written(b) \subseteq 1 .. batch[b].out
             /\ batch[b].pc = "returned" => Written(b) = 1 .. batch[b].out
    BY DEF RowsMatchOutput
  <2>1. Written(b) \subseteq 1 .. batch[b].out
    BY DEF IInv, RowInv, Written
  <2>2. ASSUME batch[b].pc = "returned"
        PROVE  1 .. batch[b].out \subseteq Written(b)
    BY <2>2 DEF IInv, BatchInv, Written
  <2>3. QED
    BY <2>1, <2>2
<1>2. QED
  BY <1>1, InductiveInvariant, PTL

(* delete_model never refuses a model that no prediction row names.        *)
THEOREM JustifiedRefusals == Spec => []RefusalsAreJustified
<1>1. IInv => RefusalsAreJustified
  BY DEF IInv, RefusalInv, RefusalsAreJustified, RowsOf
<1>2. QED
  BY <1>1, InductiveInvariant, PTL

-----------------------------------------------------------------------------
(* An operator that works on the registry alone.                           *)

(* Between its approval and its rejection a rollback's target stays        *)
(* approved while nobody else changes approvals.                           *)
SerialInv ==
  \A o \in Operators :
    (Alone(o) /\ call[o].op = "rollback" /\ call[o].pc \in {"rejectcheck", "reject"})
      => status[call[o].target] = "Approved"

(* A step of another operator ends the solitude, and nothing restores it.  *)
LEMMA OthersShow ==
  ASSUME IInv, NEW o \in Operators, NEW q \in Operators, q # o,
         OperatorStep(q)
  PROVE  ~Alone(o)'
<1>1. "none" \notin Ops
  BY RegistryAssumption
<1>2. call'[q].op \in Ops
  BY DEF OperatorStep, StartCall, CheckTarget, ListApproved, DescribeActive,
         RecheckTarget, UpdateApproved, CheckCurrent, UpdateRejected,
         ScanPredictions, DeletePackage, CallFails, Goto, End, IInv, TypeOK,
         CallInv
<1>3. QED
  BY <1>1, <1>2 DEF Alone

(* Who is alone after a step was so before, and the step was its own.      *)
LEMMA AloneBefore ==
  ASSUME IInv, [Next]_vars, NEW o \in Operators, Alone(o)'
  PROVE  Alone(o) /\ \A q \in Operators : OperatorStep(q) => q = o
<1>1. \A q \in Operators : OperatorStep(q) => q = o
  BY OthersShow
<1>2. CASE OperatorStep(o)
  <2>1. \A q \in Operators : q # o => call'[q] = call[q]
    BY <1>2 DEF OperatorStep, StartCall, CheckTarget, ListApproved,
         DescribeActive, RecheckTarget, UpdateApproved, CheckCurrent,
         UpdateRejected, ScanPredictions, DeletePackage, CallFails, Goto,
         End, IInv, TypeOK
  <2>2. QED
    BY <2>1, <1>1 DEF Alone
<1>3. CASE ~OperatorStep(o)
  <2>1. UNCHANGED call
    BY <1>1, <1>3 DEF Next, RegisterModel, PipelineRow, BatchStep, StartBatch,
       ResolveModel, DescribeResolved, CreateTransform, TransformEnds,
       WriteRow, BatchReturns, BatchFails, vars
  <2>2. QED
    BY <2>1, <1>1 DEF Alone
<1>4. QED
  BY <1>2, <1>3

(* What a lone rollback relies on survives every step.                     *)
LEMMA SerialStep ==
  ASSUME IInv, SerialInv, [Next]_vars
  PROVE  SerialInv'
<1> DEFINE P(o) ==
      (call[o].op = "rollback" /\ call[o].pc \in {"rejectcheck", "reject"})
        => status[call[o].target] = "Approved"
<1> SUFFICES ASSUME NEW o \in Operators, Alone(o)' PROVE P(o)'
  BY DEF SerialInv
<1>a. Alone(o) /\ \A q \in Operators : OperatorStep(q) => q = o
  BY AloneBefore
<1>b. P(o)
  BY <1>a DEF SerialInv
<1> USE <1>b DEF IInv
<1>1. ASSUME NEW m \in Models, RegisterModel(m) PROVE P(o)'
  BY <1>1 DEF RegisterModel, TypeOK
<1>2. ASSUME OperatorStep(o) PROVE P(o)'
  <2>1. ASSUME NEW op \in Ops, NEW m \in Models, StartCall(o, op, m)
        PROVE  P(o)'
    BY <2>1 DEF StartCall, TypeOK
  <2>2. ASSUME CheckTarget(o) PROVE P(o)'
    BY <2>2 DEF CheckTarget, AfterCheck, Goto, End, TypeOK, CallInv
  <2>3. ASSUME ListApproved(o) PROVE P(o)'
    BY <2>3 DEF ListApproved, Goto, TypeOK
  <2>4. ASSUME DescribeActive(o) PROVE P(o)'
    BY <2>4 DEF DescribeActive, Goto, TypeOK
  <2>5. ASSUME RecheckTarget(o) PROVE P(o)'
    BY <2>5 DEF RecheckTarget, Goto, End, TypeOK
  <2>6. ASSUME UpdateApproved(o) PROVE P(o)'
    BY <2>6 DEF UpdateApproved, Goto, End, TypeOK, CallInv
  <2>7. ASSUME CheckCurrent(o) PROVE P(o)'
    BY <2>7 DEF CheckCurrent, Goto, End, TypeOK
  <2>8. ASSUME UpdateRejected(o) PROVE P(o)'
    BY <2>8 DEF UpdateRejected, End, TypeOK
  <2>9. ASSUME ScanPredictions(o) PROVE P(o)'
    BY <2>9 DEF ScanPredictions, Goto, End, TypeOK
  <2>10. ASSUME DeletePackage(o) PROVE P(o)'
    BY <2>10 DEF DeletePackage, End, TypeOK
  <2>11. ASSUME CallFails(o) PROVE P(o)'
    BY <2>11 DEF CallFails, End, TypeOK
  <2>12. QED
    BY <1>2, <2>1, <2>2, <2>3, <2>4, <2>5, <2>6, <2>7, <2>8, <2>9, <2>10,
       <2>11
    DEF OperatorStep
<1>3. ASSUME NEW b \in Batches, BatchStep(b) PROVE P(o)'
  <2>1. UNCHANGED <<call, status>>
    BY <1>3 DEF BatchStep, StartBatch, ResolveModel, DescribeResolved,
       CreateTransform, TransformEnds, WriteRow, BatchReturns, BatchFails
  <2>2. QED
    BY <2>1
<1>4. ASSUME PipelineRow PROVE P(o)'
  BY <1>4 DEF PipelineRow
<1>5. ASSUME UNCHANGED vars PROVE P(o)'
  BY <1>5 DEF vars
<1>6. QED
  BY <1>a, <1>1, <1>2, <1>3, <1>4, <1>5 DEF Next

(* A lone rollback finds its target approved until it has rejected.        *)
THEOREM SerialInvariant == Spec => [](IInv /\ SerialInv)
<1>1. Init => IInv /\ SerialInv
  BY InitIInv DEF Init, SerialInv
<1>2. IInv /\ SerialInv /\ [Next]_vars => (IInv /\ SerialInv)'
  BY StepIInv, SerialStep
<1>3. QED
  BY <1>1, <1>2, PTL DEF Spec

(* What one step of a rollback does to the approvals.                      *)
LEMMA RollbackStep ==
  ASSUME IInv, SerialInv, [Next]_vars, NEW o \in Operators, Alone(o),
         call[o].op = "rollback", call[o].pc # "idle", call'[o] # call[o]
  PROVE  \/ UNCHANGED status /\ call'[o].outcome # "ok"
         \/ /\ status'[call[o].target] = "Approved"
            /\ \/ call'[o].outcome # "ok"
               \/ ~ReplacesActive(call[o])
               \/ status'[call[o].current] # "Approved"
<1>1. OperatorStep(o)
  <2>1. \A m \in Models : ~RegisterModel(m)
    BY DEF RegisterModel
  <2>2. \A b \in Batches : ~BatchStep(b)
    BY DEF BatchStep, StartBatch, ResolveModel, DescribeResolved,
       CreateTransform, TransformEnds, WriteRow, BatchReturns, BatchFails
  <2>3. ~PipelineRow /\ ~UNCHANGED vars
    BY DEF PipelineRow, vars
  <2>4. \A q \in Operators : OperatorStep(q) => q = o
    BY DEF OperatorStep, StartCall, CheckTarget, ListApproved,
       DescribeActive, RecheckTarget, UpdateApproved, CheckCurrent,
       UpdateRejected, ScanPredictions, DeletePackage, CallFails, Goto,
       End, IInv, TypeOK
  <2>5. QED
    BY <2>1, <2>2, <2>3, <2>4 DEF Next
<1>2. \A op \in Ops, m \in Models : ~StartCall(o, op, m)
  BY DEF StartCall
<1>3. ~ScanPredictions(o) /\ ~DeletePackage(o)
  BY DEF IInv, CallInv, ScanPredictions, DeletePackage
<1>4. ASSUME UpdateApproved(o)
      PROVE  status'[call[o].target] = "Approved"
             /\ (call'[o].outcome # "ok" \/ ~ReplacesActive(call[o]))
  BY <1>4 DEF UpdateApproved, Goto, End, IInv, TypeOK, CallInv, RefusalInv
<1>5. ASSUME UpdateRejected(o)
      PROVE  status'[call[o].target] = "Approved"
             /\ status'[call[o].current] # "Approved"
  <2>1. call[o].current \in Models /\ call[o].target \in Models
        /\ call[o].current # call[o].target
    BY <1>5 DEF UpdateRejected, IInv, TypeOK, CallInv, ReplacesActive, NoModel
  <2>2. QED
    BY <1>5, <2>1 DEF UpdateRejected, Rejectee, IInv, TypeOK, SerialInv
<1>6. ASSUME CheckTarget(o) \/ ListApproved(o) \/ DescribeActive(o)
             \/ RecheckTarget(o) \/ CheckCurrent(o) \/ CallFails(o)
      PROVE  UNCHANGED status /\ call'[o].outcome # "ok"
  BY <1>6 DEF CheckTarget, AfterCheck, ListApproved, DescribeActive,
     RecheckTarget, CheckCurrent, CallFails, Goto, End, IInv, TypeOK,
     RefusalInv
<1>7. QED
  BY <1>1, <1>2, <1>3, <1>4, <1>5, <1>6 DEF OperatorStep

(* While nobody else works on the registry, a rollback never takes the     *)
(* last approved model away, wherever it fails.                            *)
THEOREM RollbackIsSafe == Spec => RollbackKeepsAModel
<1>1. IInv /\ SerialInv /\ [Next]_vars
        => \A o \in Operators :
             (Alone(o) /\ call[o].op = "rollback" /\ call[o].pc # "idle"
                /\ Approved # {} /\ call'[o] # call[o])
               => {m \in Models : status'[m] = "Approved"} # {}
  <2> SUFFICES ASSUME IInv, SerialInv, [Next]_vars, NEW o \in Operators,
                      Alone(o), call[o].op = "rollback", call[o].pc # "idle",
                      Approved # {}, call'[o] # call[o]
               PROVE  {m \in Models : status'[m] = "Approved"} # {}
    OBVIOUS
  <2>1. call[o].target \in Models
    BY DEF IInv, CallInv
  <2>2. CASE UNCHANGED status
    BY <2>2 DEF Approved
  <2>3. CASE status'[call[o].target] = "Approved"
    BY <2>1, <2>3
  <2>4. QED
    BY <2>2, <2>3, RollbackStep
<1>2. QED
  BY <1>1, SerialInvariant, PTL DEF Spec, RollbackKeepsAModel

(* While nobody else works on the registry, a rollback that returns has    *)
(* approved its target and, where it could describe another active model,  *)
(* taken the approval from that one.                                       *)
THEOREM RollbackDoesSwitch == Spec => RollbackSwitches
<1>1. IInv /\ SerialInv /\ [Next]_vars
        => \A o \in Operators :
             (Alone(o) /\ call[o].op = "rollback" /\ call[o].pc # "idle"
                /\ call'[o].outcome = "ok")
               => /\ status'[call[o].target] = "Approved"
                  /\ ReplacesActive(call[o])
                       => status'[call[o].current] # "Approved"
  <2> SUFFICES ASSUME IInv, SerialInv, [Next]_vars, NEW o \in Operators,
                      Alone(o), call[o].op = "rollback", call[o].pc # "idle",
                      call'[o].outcome = "ok"
               PROVE  /\ status'[call[o].target] = "Approved"
                      /\ ReplacesActive(call[o])
                           => status'[call[o].current] # "Approved"
    OBVIOUS
  <2>1. call'[o] # call[o]
    BY DEF IInv, RefusalInv
  <2>2. QED
    BY <2>1, RollbackStep
<1>2. QED
  BY <1>1, SerialInvariant, PTL DEF Spec, RollbackSwitches
=============================================================================
