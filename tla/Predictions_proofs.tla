-------------------------- MODULE Predictions_proofs --------------------------
(***************************************************************************)
(* For every set of executions, members and models, any number of tries,   *)
(* faults and scans: a row of the table is the one S3 holds or is left by  *)
(* an earlier try, and a scan of the table shows every prediction that was *)
(* there when it began, but for those that left its filter meanwhile.      *)
(*                                                                         *)
(* The argument: what a try computes is later than all that was saved      *)
(* before (Computing), an object is complete before the first row of it is *)
(* written (Saved), and no row is written twice by a try (Pending).  So a  *)
(* row is the object's or older (Follow), and when it is replaced then by  *)
(* a later one: whichever replica a page comes from, it shows the row the  *)
(* scan was to find, or a later one of the same key (PageShows, ScanInv).  *)
(***************************************************************************)
EXTENDS Predictions, SequenceTheorems, WellFoundedInduction, TLAPS

(* A prediction of the user u in e, made not later than t, or none.        *)
Own(e, u, p, t) ==
    \/ p = NoPrediction
    \/ /\ u \in Members[e]
       /\ p.tier \in Tiers
       /\ p.stamp \in 1 .. t

OwnTable(T, t) == \A e \in Executions, u \in Users : Own(e, u, T[e][u], t)

Owned == /\ OwnTable(made, clock)
         /\ OwnTable(results, clock)
         /\ OwnTable(rows, clock)
         /\ OwnTable(replica, clock)

(* The row q is the row p, or a later one.                                 *)
Newer(p, q) == p = q \/ p.stamp < q.stamp

NewerTable(S, T) == \A e \in Executions, u \in Users : Newer(S[e][u], T[e][u])

(* An invocation that has computed has a prediction for every user, and    *)
(* before it saves them they are later than those S3 holds.                *)
Computing ==
    \A e \in Executions : pc[e] \in {"save", "write"} =>
        \A u \in Members[e] :
            /\ made[e][u] # NoPrediction
            /\ pc[e] = "save" => results[e][u].stamp < made[e][u].stamp

(* Rows are written only of what has been saved.                           *)
Saved == \A e \in Executions : pc[e] = "write" => results[e] = made[e]

(* A row is the one of the object, or older.                               *)
Follow == NewerTable(rows, results)

(* The rows still to write are members', and replace older ones.           *)
Pending ==
    \A e \in Executions : \A u \in pending[e] :
        /\ u \in Members[e]
        /\ pc[e] = "write"
        /\ rows[e][u].stamp < made[e][u].stamp

(* A first try has written no rows yet, or rows of the object.             *)
FirstTry ==
    \A e \in Executions, u \in Users :
        (tries[e] = 0 /\ rows[e][u] # NoPrediction) =>
            /\ pc[e] \in {"write", "returned"}
            /\ rows[e][u] = results[e][u]

(* A stage that has not failed has a try left.                             *)
Trying == \A e \in Executions : pc[e] # "failed" => tries[e] < MaxTries

IInv == /\ TypeOK /\ Owned /\ Computing /\ Saved
        /\ Follow /\ Pending /\ FirstTry /\ Trying

-----------------------------------------------------------------------------
(* Predictions                                                             *)

(* The score of a member of an execution is one the model can return.      *)
LEMMA ScoreOfMember ==
    ASSUME NEW score \in Scores, NEW e \in Executions, NEW u \in Members[e]
    PROVE  score[<<e, u>>] \in 0 .. One /\ u \in Users
<1>1. u \in Users /\ <<e, u>> \in Keys
  BY PredictionsAssumption DEF Keys
<1>2. score \in [Keys -> {s \in 0 .. One : s % 10 # 5}]
  BY PredictionsAssumption
<1> QED
  BY <1>1, <1>2

(* The largest score.                                                      *)
LEMMA OneIsNat == One \in Nat
BY SMT DEF One

(* No prediction is a row of the table, and it is none.                    *)
LEMMA NoPredictionIsRow == NoPrediction \in Row /\ NoPredictions \in [Users -> Row]
<1>1. Rounded(One) \in Nat
  BY OneIsNat DEF Rounded
<1> QED
  BY <1>1 DEF NoPrediction, NoPredictions, Row

(* A prediction is a row, and differs from no prediction by its timestamp. *)
LEMMA PredictionIsRow ==
    ASSUME NEW s \in 0 .. One, NEW t \in Nat \ {0}
    PROVE  Prediction(s, t) \in Row /\ Prediction(s, t) # NoPrediction
<1>1. Rounded(s) \in 0 .. Rounded(One)
  <2>1. s \in Nat /\ s <= One
    BY OneIsNat
  <2>2. Rounded(s) \in Nat /\ Rounded(One) \in Nat /\ Rounded(s) <= Rounded(One)
    BY OneIsNat, <2>1 DEF Rounded
  <2> QED
    BY <2>2
<1>2. Tier(s) \in Tiers
  BY DEF Tier, Tiers
<1>3. Prediction(s, t).stamp = t /\ NoPrediction.stamp = 0
  BY DEF Prediction, NoPrediction
<1> QED
  BY <1>1, <1>2, <1>3 DEF Prediction, Row

(* What an invocation computes.                                            *)
LEMMA ComputedIsOwn ==
    ASSUME TypeOK, NEW e \in Executions, NEW score \in Scores
    PROVE  /\ Computed(e, score) \in [Users -> Row]
           /\ \A u \in Users : Own(e, u, Computed(e, score)[u], clock + 1)
           /\ \A u \in Members[e] : /\ Computed(e, score)[u] # NoPrediction
                                    /\ Computed(e, score)[u].stamp = clock + 1
<1>0. clock + 1 \in Nat \ {0} /\ clock + 1 \in 1 .. clock + 1
  BY DEF TypeOK
<1>1. ASSUME NEW u \in Members[e]
      PROVE  /\ u \in Users /\ Computed(e, score)[u] \in Row
             /\ Computed(e, score)[u] # NoPrediction
             /\ Computed(e, score)[u].stamp = clock + 1
             /\ Own(e, u, Computed(e, score)[u], clock + 1)
  <2>1. u \in Users /\ score[<<e, u>>] \in 0 .. One
    BY <1>1, ScoreOfMember
  <2>2. Computed(e, score)[u] = Prediction(score[<<e, u>>], clock + 1)
    BY <2>1 DEF Computed
  <2>3. Tier(score[<<e, u>>]) \in Tiers
    BY DEF Tier, Tiers
  <2>4. /\ Computed(e, score)[u].tier = Tier(score[<<e, u>>])
        /\ Computed(e, score)[u].stamp = clock + 1
    BY <2>2 DEF Prediction
  <2>5. Own(e, u, Computed(e, score)[u], clock + 1)
    BY <1>0, <2>3, <2>4 DEF Own
  <2> QED
    BY <1>0, <2>1, <2>2, <2>4, <2>5, PredictionIsRow
<1>2. ASSUME NEW u \in Users, u \notin Members[e]
      PROVE  Computed(e, score)[u] = NoPrediction
  BY <1>2 DEF Computed
<1>3. ASSUME NEW u \in Users
      PROVE  Computed(e, score)[u] \in Row /\ Own(e, u, Computed(e, score)[u], clock + 1)
  BY <1>1, <1>2, NoPredictionIsRow DEF Own
<1> QED
  BY <1>1, <1>3 DEF Computed

(* Time only makes the bound on a timestamp weaker.                        *)
LEMMA OwnLasts ==
    ASSUME NEW T, NEW t \in Nat, OwnTable(T, t)
    PROVE  OwnTable(T, t + 1)
<1>1. 1 .. t \subseteq 1 .. t + 1
  OBVIOUS
<1>2. ASSUME NEW e, NEW u, NEW p, Own(e, u, p, t) PROVE Own(e, u, p, t + 1)
  BY <1>1, <1>2 DEF Own
<1> QED
  BY <1>2 DEF OwnTable

(* A table of which one execution's part is replaced by its own rows.      *)
LEMMA OwnExcept ==
    ASSUME NEW T \in Table, NEW t, OwnTable(T, t), NEW e \in Executions,
           NEW P, \A u \in Users : Own(e, u, P[u], t)
    PROVE  OwnTable([T EXCEPT ![e] = P], t)
BY DEF OwnTable, Table

(* Being newer is transitive.                                              *)
LEMMA NewerTrans ==
    ASSUME NEW p \in Row, NEW q \in Row, NEW r \in Row, Newer(p, q), Newer(q, r)
    PROVE  Newer(p, r)
BY DEF Newer, Row

-----------------------------------------------------------------------------
(* The invariant                                                           *)

(* No stage has begun, and the table is empty.                             *)
LEMMA InitIInv == Init => IInv
<1> SUFFICES ASSUME Init PROVE IInv
  OBVIOUS
<1>1. TypeOK
  <2>1. NoScan \in Scan
    <3>1. <<>> \in Seq(Keys)
      OBVIOUS
    <3> QED
      BY <3>1, PredictionsAssumption DEF NoScan, Scan
  <2> QED
    BY <2>1, NoPredictionIsRow, PredictionsAssumption DEF Init, TypeOK, Table
<1>2. \A e \in Executions, u \in Users :
        /\ made[e][u] = NoPrediction /\ results[e][u] = NoPrediction
        /\ rows[e][u] = NoPrediction /\ replica[e][u] = NoPrediction
  BY DEF Init, NoPredictions
<1>3. Owned
  BY <1>2 DEF Owned, OwnTable, Own
<1>4. Computing /\ Saved
  BY DEF Init, Computing, Saved
<1>5. Follow /\ Pending /\ FirstTry
  BY <1>2 DEF Follow, NewerTable, Newer, Pending, FirstTry, Init
<1>6. Trying
  BY PredictionsAssumption DEF Init, Trying
<1> QED
  BY <1>1, <1>3, <1>4, <1>5, <1>6 DEF IInv

(* A step that leaves the tables, the predictions in memory and the places *)
(* of the stages alone.                                                    *)
LEMMA NothingWritten ==
    ASSUME IInv, TypeOK',
           UNCHANGED <<pc, tries, made, results, rows, replica, clock>>,
           \A e \in Executions : pending'[e] \subseteq pending[e]
    PROVE  IInv'
BY DEF IInv, Owned, OwnTable, Own, Computing, Saved, Follow, NewerTable, Newer,
       Pending, FirstTry, Trying

(* A try that fails: what it had computed is gone, what it wrote stays.    *)
LEMMA TryFailsIInv ==
    ASSUME IInv, NEW e \in Executions, TryFails(e), pc[e] # "failed",
           faults' \in 0 .. MaxFaults,
           UNCHANGED <<results, clock, rows, replica, scan>>
    PROVE  IInv'
<1> USE DEF IInv
<1>1. TypeOK'
  <2>1. tries[e] + 1 \in 0 .. MaxTries
    BY PredictionsAssumption DEF TypeOK, Trying
  <2>2. made' \in Table /\ pending' \in [Executions -> SUBSET Users]
    BY NoPredictionIsRow DEF TypeOK, TryFails, Table
  <2>3. tries' \in [Executions -> 0 .. MaxTries]
    BY <2>1 DEF TypeOK, TryFails
  <2>4. pc' \in [Executions ->
                   {"scheduled", "save", "write", "returned", "failed"}]
    BY DEF TypeOK, TryFails, Go
  <2> QED
    BY <2>2, <2>3, <2>4 DEF TypeOK
<1>2. \A d \in Executions : pc'[d] \in {"save", "write"} =>
        d # e /\ pc'[d] = pc[d] /\ made'[d] = made[d]
  BY DEF TypeOK, TryFails, Go, Table
<1>3. OwnTable(made', clock)
  <2>1. \A u \in Users : Own(e, u, NoPredictions[u], clock)
    BY DEF NoPredictions, Own
  <2> QED
    BY <2>1, OwnExcept DEF TypeOK, TryFails, Owned
<1>4. Owned'
  BY <1>3 DEF Owned, OwnTable, Own
<1>5. Computing' /\ Saved'
  BY <1>2 DEF Computing, Saved
<1>6. Follow' /\ FirstTry'
  <2>1. tries'[e] # 0
    BY DEF TryFails, TypeOK
  <2>2. \A d \in Executions : d # e => tries'[d] = tries[d] /\ pc'[d] = pc[d]
    BY DEF TryFails, Go, TypeOK
  <2> QED
    BY <2>1, <2>2 DEF Follow, NewerTable, Newer, FirstTry
<1>8. Pending'
  <2>1. \A d \in Executions : \A u \in pending'[d] :
            d # e /\ u \in pending[d] /\ pc'[d] = pc[d] /\ made'[d] = made[d]
    BY DEF TryFails, Go, TypeOK, Table
  <2> QED
    BY <2>1 DEF Pending
<1>7. Trying'
  BY DEF Trying, TryFails, Go, TypeOK
<1> QED
  BY <1>1, <1>4, <1>5, <1>6, <1>7, <1>8

(* Computing predictions writes nothing yet.                               *)
LEMMA PredictIInv ==
    ASSUME IInv, NEW e \in Executions, Predict(e)
    PROVE  IInv'
<1> USE DEF IInv
<1>m. PICK score \in Scores : made' = [made EXCEPT ![e] = Computed(e, score)]
  BY DEF Predict
<1>0. /\ pc[e] = "scheduled"
      /\ clock' = clock + 1 /\ clock \in Nat
      /\ pc' = [pc EXCEPT ![e] = "save"]
      /\ UNCHANGED <<faults, tries, pending, results, rows, replica, scan>>
  BY DEF Predict, Go, TypeOK
<1>1. /\ Computed(e, score) \in [Users -> Row]
      /\ \A u \in Users : Own(e, u, Computed(e, score)[u], clock + 1)
      /\ \A u \in Members[e] : /\ Computed(e, score)[u] # NoPrediction
                               /\ Computed(e, score)[u].stamp = clock + 1
  BY ComputedIsOwn
<1>2. TypeOK'
  BY <1>m, <1>0, <1>1 DEF TypeOK, Table
<1>3. /\ OwnTable(made, clock + 1) /\ OwnTable(results, clock + 1)
      /\ OwnTable(rows, clock + 1) /\ OwnTable(replica, clock + 1)
  BY <1>0, OwnLasts DEF Owned
<1>4. OwnTable(made', clock + 1)
  BY <1>m, <1>1, <1>3, OwnExcept DEF TypeOK
<1>5. Owned'
  BY <1>0, <1>3, <1>4 DEF Owned, OwnTable, Own
<1>6. Computing'
  <2>1. \A u \in Members[e] : results[e][u].stamp < clock + 1
    <3> SUFFICES ASSUME NEW u \in Members[e]
                 PROVE  results[e][u].stamp < clock + 1
      OBVIOUS
    <3>1. u \in Users
      BY PredictionsAssumption
    <3>2. \/ results[e][u] = NoPrediction
          \/ results[e][u].stamp \in 1 .. clock
      BY <3>1 DEF Owned, OwnTable, Own
    <3>3. NoPrediction.stamp = 0
      BY DEF NoPrediction
    <3> QED
      BY <1>0, <3>2, <3>3
  <2>2. made'[e] = Computed(e, score) /\ pc'[e] = "save"
    BY <1>m, <1>0 DEF TypeOK, Table
  <2>3. \A d \in Executions : d # e => made'[d] = made[d] /\ pc'[d] = pc[d]
    BY <1>m, <1>0 DEF TypeOK, Table
  <2>4. \A u \in Members[e] : /\ made'[e][u] # NoPrediction
                             /\ results[e][u].stamp < made'[e][u].stamp
    BY <1>1, <2>1, <2>2
  <2> QED
    BY <1>0, <2>2, <2>3, <2>4 DEF Computing
<1>7. Saved'
  BY <1>m, <1>0 DEF Saved, TypeOK, Table
<1>8. Follow' /\ FirstTry'
  BY <1>0 DEF Follow, NewerTable, Newer, FirstTry, TypeOK
<1>9. Pending'
  <2>1. \A d \in Executions : \A u \in pending[d] :
            d # e /\ pc'[d] = pc[d] /\ made'[d] = made[d]
    BY <1>m, <1>0 DEF Pending, TypeOK, Table
  <2> QED
    BY <1>0, <2>1 DEF Pending
<1>10. Trying'
  BY <1>0 DEF Trying, TypeOK
<1> QED
  BY <1>2, <1>5, <1>6, <1>7, <1>8, <1>9, <1>10

(* The object is replaced before the rows are.                             *)
LEMMA SaveResultsIInv ==
    ASSUME IInv, NEW e \in Executions, SaveResults(e)
    PROVE  IInv'
<1> USE DEF IInv
<1>0. /\ pc[e] = "save"
      /\ results' = [results EXCEPT ![e] = made[e]]
      /\ pending' = [pending EXCEPT ![e] = Members[e]]
      /\ pc' = [pc EXCEPT ![e] = "write"]
      /\ UNCHANGED <<faults, tries, made, clock, rows, replica, scan>>
  BY DEF SaveResults, Go
<1>1. TypeOK'
  BY <1>0, PredictionsAssumption DEF TypeOK, Table
<1>2. OwnTable(results', clock)
  <2>1. \A u \in Users : Own(e, u, made[e][u], clock)
    BY DEF Owned, OwnTable
  <2> QED
    BY <1>0, <2>1, OwnExcept DEF Owned, TypeOK
<1>3. Owned'
  BY <1>0, <1>2 DEF Owned, OwnTable, Own
<1>4. \A u \in Members[e] : made[e][u] \in Row
  BY PredictionsAssumption DEF TypeOK, Table
<1>5. Computing'
  BY <1>0, <1>4 DEF Computing, TypeOK, Table, Row
<1>6. Saved'
  BY <1>0 DEF Saved, TypeOK, Table
<1>7. \A u \in Members[e] : rows[e][u].stamp < made[e][u].stamp
  <2> SUFFICES ASSUME NEW u \in Members[e]
               PROVE  rows[e][u].stamp < made[e][u].stamp
    OBVIOUS
  <2>1. u \in Users
    BY PredictionsAssumption
  <2>2. /\ rows[e][u] \in Row /\ results[e][u] \in Row /\ made[e][u] \in Row
        /\ results[e][u].stamp < made[e][u].stamp
    BY <1>0, <2>1 DEF Computing, TypeOK, Table
  <2>3. rows[e][u] = results[e][u] \/ rows[e][u].stamp < results[e][u].stamp
    BY <2>1 DEF Follow, NewerTable, Newer
  <2> QED
    BY <2>2, <2>3 DEF Row
<1>8. Follow'
  <2> SUFFICES ASSUME NEW d \in Executions, NEW u \in Users
               PROVE  Newer(rows[d][u], results'[d][u])
    BY <1>0 DEF Follow, NewerTable
  <2>1. CASE d # e
    BY <1>0, <2>1 DEF Follow, NewerTable, TypeOK, Table
  <2>2. CASE d = e
    <3>1. results'[e][u] = made[e][u]
      BY <1>0 DEF TypeOK, Table
    <3>2. CASE u \in Members[e]
      BY <1>7, <2>2, <3>1, <3>2 DEF Newer
    <3>3. CASE u \notin Members[e]
      <4>1. rows[e][u] = NoPrediction /\ made[e][u] = NoPrediction
        BY <3>3 DEF Owned, OwnTable, Own
      <4> QED
        BY <2>2, <3>1, <4>1 DEF Newer
    <3> QED
      BY <3>2, <3>3
  <2> QED
    BY <2>1, <2>2
<1>9. Pending'
  <2>1. /\ pending'[e] = Members[e] /\ pc'[e] = "write"
        /\ \A d \in Executions : d # e => pending'[d] = pending[d] /\ pc'[d] = pc[d]
    BY <1>0 DEF TypeOK
  <2> QED
    BY <1>0, <1>7, <2>1 DEF Pending
<1>10. FirstTry'
  <2>1. /\ \A u \in Users : tries[e] = 0 => rows[e][u] = NoPrediction
        /\ \A d \in Executions : d # e => results'[d] = results[d] /\ pc'[d] = pc[d]
    BY <1>0 DEF FirstTry, TypeOK, Table
  <2> QED
    BY <1>0, <2>1 DEF FirstTry
<1>11. Trying'
  BY <1>0 DEF Trying, TypeOK
<1> QED
  BY <1>1, <1>3, <1>5, <1>6, <1>8, <1>9, <1>10, <1>11

(* A row is written as the object has it.                                  *)
LEMMA WriteRowIInv ==
    ASSUME IInv, NEW e \in Executions, NEW u \in Users, WriteRow(e, u)
    PROVE  IInv'
<1> USE DEF IInv
<1>0. /\ pc[e] = "write" /\ u \in pending[e]
      /\ rows' = [rows EXCEPT ![e][u] = made[e][u]]
      /\ pending' = [pending EXCEPT ![e] = @ \ {u}]
      /\ UNCHANGED <<faults, pc, tries, made, results, clock, replica, scan>>
  BY DEF WriteRow
<1>1. rows' \in Table
  <2>1. made[e][u] \in Row
    BY DEF TypeOK, Table
  <2> QED
    BY <1>0, <2>1 DEF TypeOK, Table
<1>2. TypeOK'
  BY <1>0, <1>1 DEF TypeOK
<1>3. results[e] = made[e]
  BY <1>0 DEF Saved
<1>4. ASSUME NEW d \in Executions, NEW v \in Users
      PROVE  rows'[d][v] = IF d = e /\ v = u THEN made[e][u] ELSE rows[d][v]
  BY <1>0 DEF TypeOK, Table
<1>5. Owned'
  BY <1>0, <1>4 DEF Owned, OwnTable, Own
<1>6. Computing' /\ Saved' /\ Trying'
  BY <1>0 DEF Computing, Saved, Trying
<1>7. Follow'
  BY <1>0, <1>3, <1>4 DEF Follow, NewerTable, Newer
<1>8. Pending'
  <2>1. \A d \in Executions : \A v \in pending'[d] :
            v \in pending[d] /\ ~(d = e /\ v = u)
    BY <1>0 DEF TypeOK
  <2>2. \A d \in Executions : \A v \in pending[d] : v \in Users
    BY DEF TypeOK
  <2>3. \A d \in Executions : \A v \in pending'[d] : rows'[d][v] = rows[d][v]
    BY <1>4, <2>1, <2>2
  <2> QED
    BY <1>0, <2>1, <2>3 DEF Pending
<1>9. FirstTry'
  BY <1>0, <1>3, <1>4 DEF FirstTry
<1> QED
  BY <1>2, <1>5, <1>6, <1>7, <1>8, <1>9

(* Returning leaves object and rows as they are.                           *)
LEMMA PredictReturnsIInv ==
    ASSUME IInv, NEW e \in Executions, PredictReturns(e)
    PROVE  IInv'
<1> USE DEF IInv
<1>0. /\ pc[e] = "write" /\ pending[e] = {} /\ pc' = [pc EXCEPT ![e] = "returned"]
      /\ UNCHANGED <<faults, tries, made, pending, results, clock, rows,
                     replica, scan>>
  BY DEF PredictReturns, Go
<1>1. TypeOK'
  BY <1>0 DEF TypeOK
<1>2. Owned' /\ Follow'
  BY <1>0 DEF Owned, OwnTable, Own, Follow, NewerTable, Newer
<1>3. Computing' /\ Saved' /\ Trying'
  BY <1>0 DEF Computing, Saved, Trying, TypeOK
<1>4. Pending' /\ FirstTry'
  BY <1>0 DEF Pending, FirstTry, TypeOK
<1> QED
  BY <1>1, <1>2, <1>3, <1>4

(* The table answers with an error: rows are lost, none is written.        *)
LEMMA RowsFailIInv ==
    ASSUME IInv, NEW e \in Executions, RowsFail(e)
    PROVE  IInv'
<1>1. /\ faults > 0 /\ faults' = faults - 1
      /\ pending' = [pending EXCEPT ![e] = {}]
      /\ UNCHANGED <<pc, tries, made, results, clock, rows, replica, scan>>
  BY DEF RowsFail
<1>2. faults' \in 0 .. MaxFaults
  <2>1. faults \in 0 .. MaxFaults /\ MaxFaults \in Nat
    BY PredictionsAssumption DEF IInv, TypeOK
  <2> QED
    BY <1>1, <2>1
<1>3. TypeOK'
  BY <1>1, <1>2 DEF IInv, TypeOK
<1>4. \A d \in Executions : pending'[d] \subseteq pending[d]
  BY <1>1 DEF IInv, TypeOK
<1> QED
  BY <1>1, <1>3, <1>4, NothingWritten

(* A replica that catches up shows what the table holds.                   *)
LEMMA CatchUpIInv ==
    ASSUME IInv, NEW e \in Executions, CatchUp(e)
    PROVE  IInv'
<1> USE DEF IInv
<1>0. /\ replica' = [replica EXCEPT ![e] = rows[e]]
      /\ UNCHANGED <<faults, pc, tries, made, pending, results, clock,
                     rows, scan>>
  BY DEF CatchUp, stageVars
<1>1. TypeOK'
  BY <1>0 DEF TypeOK, Table
<1>2. OwnTable(replica', clock)
  <2>1. \A u \in Users : Own(e, u, rows[e][u], clock)
    BY DEF Owned, OwnTable
  <2> QED
    BY <1>0, <2>1, OwnExcept DEF Owned, TypeOK
<1>3. Owned'
  BY <1>0, <1>2 DEF Owned, OwnTable, Own
<1>4. Computing' /\ Saved' /\ Follow' /\ Pending' /\ FirstTry' /\ Trying'
  BY <1>0 DEF Computing, Saved, Follow, NewerTable, Newer, Pending, FirstTry, Trying
<1> QED
  BY <1>1, <1>3, <1>4

-----------------------------------------------------------------------------
(* The steps of the dashboard                                              *)

(* A page shows keys of the table and rows of it.                          *)
LEMMA FoundIsItems ==
    ASSUME NEW q, NEW K \in SUBSET Keys, NEW T \in Table
    PROVE  Found(q, K, T) \subseteq Item
<1>1. ASSUME NEW k \in K PROVE T[k[1]][k[2]] \in Row
  BY DEF Keys, Table
<1> QED
  BY <1>1 DEF Found, Item

(* A scan begins with all keys unread.                                     *)
LEMMA StartScanIInv ==
    ASSUME IInv, NEW q \in Queries, StartScan(q)
    PROVE  IInv'
<1> USE DEF IInv
<1>1. PICK order \in ScanOrders :
        scan' = [at |-> "reading", query |-> q, unread |-> order,
                 found |-> {}, before |-> Found(q, Keys, replica),
                 count |-> scan.count + 1]
  BY DEF StartScan
<1>2. scan.count + 1 \in 0 .. MaxScans
  <2>1. scan.count \in 0 .. MaxScans /\ scan.count < MaxScans
    BY DEF StartScan, TypeOK, Scan
  <2> QED
    BY <2>1, PredictionsAssumption
<1>3. Found(q, Keys, replica) \subseteq Item /\ order \in Seq(Keys)
  BY FoundIsItems, PredictionsAssumption DEF TypeOK
<1>4. scan' \in Scan
  BY <1>1, <1>2, <1>3 DEF Scan
<1>5. UNCHANGED <<faults, pc, tries, made, pending, results, clock,
                  rows, replica>>
  BY DEF StartScan, stageVars
<1> QED
  BY <1>4, <1>5, NothingWritten DEF TypeOK

(* A page shows rows that some replica holds.                              *)
LEMMA ReadPageIInv ==
    ASSUME IInv, NEW n \in DOMAIN scan.unread, ReadPage(n)
    PROVE  IInv'
<1> USE DEF IInv
<1>0. scan \in Scan /\ scan.unread \in Seq(Keys) /\ n \in 1 .. Len(scan.unread)
  BY DEF TypeOK, Scan
<1>1. PICK page \in Page(n) :
        scan' = [scan EXCEPT !.unread = Unread(n), !.found = @ \cup page,
                             !.at = IF LastPage(n, page) THEN "done" ELSE @]
  BY DEF ReadPage
<1>2. Unread(n) \in Seq(Keys)
  BY <1>0, SubSeqProperties DEF Unread
<1>3. page \subseteq Item
  <2>1. {scan.unread[i] : i \in 1 .. n} \in SUBSET Keys
    BY <1>0, ElementOfSeq
  <2> QED
    BY <2>1, FoundIsItems DEF Page, TypeOK
<1>4. scan' \in Scan
  BY <1>0, <1>1, <1>2, <1>3 DEF Scan
<1>5. UNCHANGED <<faults, pc, tries, made, pending, results, clock,
                  rows, replica>>
  BY DEF ReadPage, stageVars
<1> QED
  BY <1>4, <1>5, NothingWritten DEF TypeOK

-----------------------------------------------------------------------------
(* Theorems                                                                *)

(* Every step of stages, replicas and dashboard keeps the invariant.       *)
LEMMA StepIInv == IInv /\ [Next]_vars => IInv'
<1> SUFFICES ASSUME IInv, [Next]_vars PROVE IInv'
  OBVIOUS
<1>1. ASSUME NEW e \in Executions, Stage(e) PROVE IInv'
  <2>1. CASE Predict(e)
    BY <2>1, PredictIInv
  <2>2. CASE PredictRejected(e)
    <3>1. /\ pc[e] # "failed" /\ faults' \in 0 .. MaxFaults
          /\ UNCHANGED <<results, clock, rows, replica, scan>>
      BY <2>2 DEF PredictRejected, IInv, TypeOK
    <3>2. TryFails(e)
      BY <2>2 DEF PredictRejected
    <3> QED
      BY <3>1, <3>2, TryFailsIInv
  <2>3. CASE SaveResults(e)
    BY <2>3, SaveResultsIInv
  <2>4. CASE PredictReturns(e)
    BY <2>4, PredictReturnsIInv
  <2>5. ASSUME NEW u \in Users, WriteRow(e, u) PROVE IInv'
    BY <2>5, WriteRowIInv
  <2> QED
    BY <1>1, <2>1, <2>2, <2>3, <2>4, <2>5 DEF Stage
<1>2. ASSUME NEW e \in Executions, PredictKilled(e) PROVE IInv'
  <2>1. pc[e] # "failed" /\ faults' \in 0 .. MaxFaults
    BY <1>2, PredictionsAssumption DEF PredictKilled, IInv, TypeOK
  <2> QED
    BY <1>2, <2>1, TryFailsIInv DEF PredictKilled
<1>3. ASSUME UNCHANGED vars PROVE IInv'
  <2>1. TypeOK'
    BY <1>3 DEF IInv, TypeOK, vars, stageVars
  <2> QED
    BY <1>3, <2>1, NothingWritten DEF vars, stageVars
<1> QED
  BY <1>1, <1>2, <1>3, RowsFailIInv, CatchUpIInv, StartScanIInv, ReadPageIInv
     DEF Next

(* The invariant of the predict stages and the dashboard.                  *)
LEMMA Invariant == Spec => []IInv
BY InitIInv, StepIInv, PTL DEF Spec

(* Every state of the stages, the table and the dashboard is well typed.   *)
THEOREM TypeCorrect == Spec => []TypeOK
<1>1. IInv => TypeOK
  BY DEF IInv
<1> QED
  BY <1>1, Invariant, PTL

(* Whatever fails between the object and the rows, however often the stage *)
(* is tried and with whichever models, a row of the table is S3's, or left *)
(* by an earlier try that failed.                                          *)
THEOREM RowsHaveResults == Spec => []TableFollowsResults
<1>1. ASSUME IInv PROVE TableFollowsResults
  <2> SUFFICES ASSUME NEW e \in Executions, NEW u \in Users,
                      rows[e][u] \notin {NoPrediction, results[e][u]}
               PROVE  rows[e][u].stamp < results[e][u].stamp /\ tries[e] > 0
    BY DEF TableFollowsResults
  <2>1. rows[e][u].stamp < results[e][u].stamp
    BY <1>1 DEF IInv, Follow, NewerTable, Newer
  <2>2. tries[e] # 0
    BY <1>1 DEF IInv, FirstTry
  <2>3. tries[e] \in 0 .. MaxTries /\ MaxTries \in Nat
    BY <1>1, PredictionsAssumption DEF IInv, TypeOK
  <2> QED
    BY <2>1, <2>2, <2>3
<1> QED
  BY <1>1, Invariant, PTL

-----------------------------------------------------------------------------
(* What the scan reads                                                     *)

(* What a scan is to find is still there or replaced by a later row, and   *)
(* matches the filter.                                                     *)
BeforeInv ==
    \A b \in scan.before :
        /\ Matches(scan.query, b.key, b.row)
        /\ Own(b.key[1], b.key[2], b.row, clock)
        /\ Newer(b.row, replica[b.key[1]][b.key[2]])

FoundInv ==
    \A f \in scan.found : /\ Matches(scan.query, f.key, f.row)
                           /\ f.row.stamp <= clock

(* A row that may have left the filter since the scan began.               *)
Left(b) == /\ MayLose(scan.query)
           /\ b.row.stamp < rows[b.key[1]][b.key[2]].stamp

(* The key of what is to be found is still unread, or it has been found.   *)
ReadInv ==
    /\ \A b \in scan.before :
        \/ \E i \in DOMAIN scan.unread : scan.unread[i] = b.key
        \/ \E f \in scan.found : f.key = b.key /\ b.row.stamp <= f.row.stamp
        \/ Left(b)
    /\ scan.at = "done" => scan.unread = << >>

ScanInv == /\ NewerTable(replica, rows)
           /\ BeforeInv
           /\ FoundInv
           /\ ReadInv

(* A table is as new as itself.                                            *)
LEMMA NewerItself == ASSUME NEW T PROVE NewerTable(T, T)
BY DEF NewerTable, Newer

(* No row of the table disappears or gets older: a later try is later.     *)
LEMMA RowsGrow ==
    ASSUME IInv, [Next]_vars
    PROVE  NewerTable(rows, rows')
<1> USE DEF IInv
<1>t. rows \in Table /\ NewerTable(rows, rows)
  BY NewerItself DEF TypeOK
<1>1. ASSUME NEW e \in Executions, NEW u \in Users, WriteRow(e, u)
      PROVE  NewerTable(rows, rows')
  <2>1. /\ u \in pending[e]
        /\ rows' = [rows EXCEPT ![e][u] = made[e][u]]
    BY <1>1 DEF WriteRow
  <2>2. rows[e][u].stamp < made[e][u].stamp
    BY <2>1 DEF Pending
  <2>3. \A d \in Executions, v \in Users :
          rows'[d][v] = IF d = e /\ v = u THEN made[e][u] ELSE rows[d][v]
    BY <1>t, <2>1 DEF Table
  <2>4. QED  BY <2>2, <2>3 DEF NewerTable, Newer
<1>2. CASE UNCHANGED rows
  BY <1>t, <1>2
<1>3. UNCHANGED rows \/ \E e \in Executions, u \in Users : WriteRow(e, u)
  BY DEF Next, Stage, Predict, PredictRejected, SaveResults, PredictReturns,
         RowsFail, PredictKilled, CatchUp, StartScan, ReadPage, vars, stageVars
<1>4. QED  BY <1>1, <1>2, <1>3

(* Nor does a row of a replica.                                            *)
LEMMA ReplicaGrows ==
    ASSUME IInv, NewerTable(replica, rows), [Next]_vars
    PROVE  NewerTable(replica, replica')
<1>t. replica \in Table /\ NewerTable(replica, replica)
  BY NewerItself DEF IInv, TypeOK
<1>1. ASSUME NEW e \in Executions, CatchUp(e)
      PROVE  NewerTable(replica, replica')
  <2>1. \A d \in Executions : replica'[d] = IF d = e THEN rows[e] ELSE replica[d]
    BY <1>t, <1>1 DEF CatchUp, Table
  <2>2. QED  BY <1>t, <2>1 DEF NewerTable
<1>2. CASE UNCHANGED replica
  BY <1>t, <1>2
<1>3. UNCHANGED replica \/ \E e \in Executions : CatchUp(e)
  BY DEF Next, Stage, Predict, PredictRejected, SaveResults, PredictReturns,
         RowsFail, PredictKilled, WriteRow, StartScan, ReadPage, vars, stageVars
<1>4. QED  BY <1>1, <1>2, <1>3

(* A replica stays behind the table.                                       *)
LEMMA ReplicaFollows ==
    ASSUME IInv, NewerTable(replica, rows), [Next]_vars
    PROVE  NewerTable(replica, rows)'
<1>1. IInv'
  BY StepIInv
<1>2. NewerTable(rows, rows')
  BY RowsGrow
<1>3. \A e \in Executions, u \in Users :
        replica'[e][u] = rows[e][u] \/ replica'[e][u] = replica[e][u]
  <2>1. ASSUME NEW e \in Executions, CatchUp(e)
        PROVE  \A d \in Executions : replica'[d] = rows[d] \/ replica'[d] = replica[d]
    BY <2>1 DEF CatchUp, IInv, TypeOK, Table
  <2>2. UNCHANGED replica \/ \E e \in Executions : CatchUp(e)
    BY DEF Next, Stage, Predict, PredictRejected, SaveResults, PredictReturns,
           RowsFail, PredictKilled, WriteRow, StartScan, ReadPage, vars, stageVars
  <2>3. QED  BY <2>1, <2>2
<1>4. ASSUME NEW e \in Executions, NEW u \in Users
      PROVE  Newer(replica'[e][u], rows'[e][u])
  <2>1. rows[e][u] \in Row /\ replica[e][u] \in Row
    BY DEF IInv, TypeOK, Table
  <2>2. PICK r \in Row : r = rows'[e][u]
    BY <1>1 DEF IInv, TypeOK, Table
  <2>3. Newer(rows[e][u], r)
    BY <1>2, <2>2 DEF NewerTable
  <2>4. Newer(replica[e][u], rows[e][u])
    BY DEF NewerTable
  <2>5. Newer(replica[e][u], r)
    BY <2>1, <2>2, <2>3, <2>4, NewerTrans
  <2>6. QED  BY <1>3, <2>2, <2>3, <2>5
<1>5. QED  BY <1>4 DEF NewerTable

(* What lies behind the first n entries is in the rest of the sequence.    *)
LEMMA RestOfSeq ==
    ASSUME NEW S, NEW s \in Seq(S), NEW n \in 1 .. Len(s), NEW i \in n + 1 .. Len(s)
    PROVE  \E j \in DOMAIN SubSeq(s, n + 1, Len(s)) :
              SubSeq(s, n + 1, Len(s))[j] = s[i]
<1>1. PICK m \in Nat, a \in Nat : m = Len(s) /\ a = n + 1
  OBVIOUS
<1>2. /\ n \in Nat /\ n >= 1 /\ n <= m /\ a >= 1
      /\ i \in Nat /\ i >= a /\ i <= m
  BY <1>1
<1>3. PICK t : t = SubSeq(s, a, m)
  OBVIOUS
<1>4. PICK k \in Nat : k = m - n /\ k = m - a + 1
  <2>1. m - n \in Nat
    BY <1>2
  <2>2. m - n = m - a + 1
    BY <1>1, <1>2
  <2>3. QED  BY <2>1, <2>2
<1>5. a \in 1 .. m + 1
  BY <1>1, <1>2
<1>6. ASSUME NEW x \in a .. m PROVE s[x] \in S
  <2>1. x \in 1 .. m
    BY <1>2
  <2>2. QED  BY <1>1, <2>1, ElementOfSeq
<1>7. Len(t) = k /\ t \in Seq(S) /\ \A l \in 1 .. k : t[l] = s[a + l - 1]
  BY <1>1, <1>3, <1>4, <1>5, <1>6, SubSeqProperties
<1>8. PICK j \in Nat : j = i - a + 1
  BY <1>1, <1>2
<1>9. j \in 1 .. k /\ a + j - 1 = i
  BY <1>1, <1>2, <1>4, <1>8
<1>10. j \in DOMAIN t /\ t[j] = s[i]
  BY <1>7, <1>9
<1>11. QED  BY <1>1, <1>3, <1>10

(* Whichever replica a page comes from, it shows what was to be found, or  *)
(* that has left the filter.                                               *)
LEMMA PageShows ==
    ASSUME IInv, BeforeInv, NewerTable(replica, rows), NEW b \in scan.before,
           NEW K \in SUBSET Keys, b.key \in K, NEW T \in {rows, replica}
    PROVE  \/ \E f \in Found(scan.query, K, T) :
                 f.key = b.key /\ b.row.stamp <= f.row.stamp
           \/ Left(b)
<1>1. b \in Item /\ b.key \in Keys /\ b.row \in Row
  BY DEF IInv, TypeOK, Scan, Item
<1>2. PICK e \in Executions, u \in Users : e = b.key[1] /\ u = b.key[2]
  BY <1>1 DEF Keys
<1>3. /\ Matches(scan.query, b.key, b.row) /\ Own(e, u, b.row, clock)
      /\ Newer(b.row, replica[e][u]) /\ Newer(replica[e][u], rows[e][u])
  BY <1>2 DEF BeforeInv, NewerTable
<1>4. /\ rows[e][u] \in Row /\ replica[e][u] \in Row
      /\ \A r \in Row : r.stamp \in Nat
      /\ NoPrediction.stamp = 0
  BY DEF IInv, TypeOK, Table, Row, NoPrediction
<1>5. Newer(b.row, rows[e][u])
  BY <1>1, <1>3, <1>4, NewerTrans
<1>6. PICK r \in Row : /\ r = T[e][u] /\ Newer(b.row, r)
                       /\ Newer(r, rows[e][u])
  <2>1. Newer(rows[e][u], rows[e][u])
    BY DEF Newer
  <2>2. QED  BY <1>3, <1>4, <1>5, <2>1
<1> DEFINE f == [key |-> b.key, row |-> r]
<1>7. f.key = b.key /\ f.row = r /\ r = T[b.key[1]][b.key[2]]
  BY <1>2, <1>6
<1>8. f \in [key : K, row : {T[k[1]][k[2]] : k \in K}]
  BY <1>7
<1>9. ASSUME Matches(scan.query, b.key, r), b.row.stamp <= r.stamp
      PROVE  \E g \in Found(scan.query, K, T) :
                 g.key = b.key /\ b.row.stamp <= g.row.stamp
  <2>1. f \in Found(scan.query, K, T)
    BY <1>7, <1>8, <1>9 DEF Found
  <2>2. QED  BY <1>7, <1>9, <2>1
<1>10. CASE r = b.row
  <2>1. b.row.stamp <= b.row.stamp
    BY <1>1, <1>4
  <2>2. QED  BY <1>3, <1>9, <1>10, <2>1
<1>11. CASE r # b.row
  <2>1. b.row.stamp < r.stamp /\ r # NoPrediction /\ b.row.stamp <= r.stamp
    BY <1>1, <1>4, <1>6, <1>11 DEF Newer
  <2>2. CASE MayLose(scan.query)
    <3>1. b.row.stamp < rows[e][u].stamp
      BY <1>1, <1>4, <1>6, <2>1 DEF Newer
    <3>2. QED  BY <1>2, <2>2, <3>1 DEF Left
  <2>3. CASE ~MayLose(scan.query)
    <3>1. scan.query.of \notin Tiers /\ scan.query.until = 0
      BY <2>3 DEF MayLose
    <3>2. b.row.tier \in Tiers
      BY <1>3 DEF Matches, Own
    <3>3. scan.query.of = "all" \/ scan.query.of = b.key[2]
      BY <1>3, <3>1, <3>2 DEF Matches
    <3>4. scan.query.since \in Nat /\ scan.query.since <= b.row.stamp
      BY <1>3, PredictionsAssumption
         DEF Matches, InPeriod, IInv, TypeOK, Scan, Everything
    <3>5. scan.query.since <= r.stamp
      BY <1>1, <1>4, <2>1, <3>4
    <3>6. Matches(scan.query, b.key, r)
      BY <2>1, <3>1, <3>3, <3>5 DEF Matches, InPeriod
    <3>7. QED  BY <1>9, <2>1, <3>6
  <2>4. QED  BY <2>2, <2>3
<1>12. QED  BY <1>10, <1>11

(* A scan that begins has everything still to read.                        *)
LEMMA StartScanKeeps ==
    ASSUME IInv, NEW q \in Queries, StartScan(q)
    PROVE  BeforeInv' /\ FoundInv' /\ ReadInv'
<1>1. PICK order \in ScanOrders :
        scan' = [at |-> "reading", query |-> q, unread |-> order,
                 found |-> {}, before |-> Found(q, Keys, replica),
                 count |-> scan.count + 1]
  BY DEF StartScan
<1>2. /\ scan'.query = q /\ scan'.unread = order /\ scan'.found = {}
      /\ scan'.before = Found(q, Keys, replica) /\ scan'.at = "reading"
      /\ UNCHANGED <<clock, replica, rows>>
  BY <1>1 DEF StartScan, stageVars
<1>3. ASSUME NEW b \in Found(q, Keys, replica)
      PROVE  /\ Matches(q, b.key, b.row)
             /\ Own(b.key[1], b.key[2], b.row, clock)
             /\ Newer(b.row, replica[b.key[1]][b.key[2]])
             /\ \E i \in DOMAIN order : order[i] = b.key
  <2>1. /\ b.key \in Keys /\ b.row = replica[b.key[1]][b.key[2]]
        /\ Matches(q, b.key, b.row)
    BY DEF Found
  <2>2. b.key[1] \in Executions /\ b.key[2] \in Users
    BY <2>1 DEF Keys
  <2>3. Own(b.key[1], b.key[2], b.row, clock)
    BY <2>1, <2>2 DEF IInv, Owned, OwnTable
  <2>4. Newer(b.row, replica[b.key[1]][b.key[2]])
    BY <2>1 DEF Newer
  <2>5. \E i \in DOMAIN order : order[i] = b.key
    BY <2>1, PredictionsAssumption
  <2>6. QED  BY <2>1, <2>3, <2>4, <2>5
<1>4. BeforeInv'
  BY <1>2, <1>3 DEF BeforeInv, Own
<1>5. FoundInv'
  BY <1>2 DEF FoundInv
<1>6. ReadInv'
  BY <1>2, <1>3 DEF ReadInv
<1>7. QED  BY <1>4, <1>5, <1>6

(* A page reads some keys, and all that was to be found of them.           *)
LEMMA ReadPageKeeps ==
    ASSUME IInv, NewerTable(replica, rows), BeforeInv, FoundInv, ReadInv,
           NEW n \in DOMAIN scan.unread, ReadPage(n)
    PROVE  BeforeInv' /\ FoundInv' /\ ReadInv'
<1> DEFINE K == {scan.unread[i] : i \in 1 .. n}
<1>0. scan \in Scan /\ scan.unread \in Seq(Keys) /\ n \in 1 .. Len(scan.unread)
  BY DEF IInv, TypeOK, Scan
<1>1. PICK T \in {rows, replica} :
        scan' = [scan EXCEPT !.unread = Unread(n),
                             !.found = @ \cup Found(scan.query, K, T),
                             !.at = IF Unread(n) = << >> THEN "done" ELSE @]
  BY DEF ReadPage, Page, LastPage
<1>2. /\ scan'.query = scan.query /\ scan'.before = scan.before
      /\ scan'.unread = Unread(n)
      /\ scan'.found = scan.found \cup Found(scan.query, K, T)
      /\ scan'.at = IF Unread(n) = << >> THEN "done" ELSE "reading"
      /\ UNCHANGED <<clock, replica, rows>>
  BY <1>0, <1>1 DEF Scan, ReadPage, stageVars
<1>3. K \in SUBSET Keys
  BY <1>0, ElementOfSeq
<1>4. BeforeInv'
  BY <1>2 DEF BeforeInv, Own
<1>5. FoundInv'
  <2>1. ASSUME NEW f \in Found(scan.query, K, T)
        PROVE  Matches(scan.query, f.key, f.row) /\ f.row.stamp <= clock
    <3>1. /\ f.key \in Keys /\ f.row = T[f.key[1]][f.key[2]]
          /\ Matches(scan.query, f.key, f.row)
      BY <1>3 DEF Found
    <3>2. PICK e \in Executions, u \in Users : e = f.key[1] /\ u = f.key[2]
      BY <3>1 DEF Keys
    <3>3. Own(e, u, f.row, clock)
      BY <3>1, <3>2 DEF IInv, Owned, OwnTable
    <3>4. f.row.stamp \in 1 .. clock
      BY <3>1, <3>3 DEF Own, Matches
    <3>5. QED  BY <3>1, <3>4 DEF IInv, TypeOK
  <2>2. QED  BY <1>2, <2>1 DEF FoundInv
<1>6. ASSUME NEW b \in scan.before
      PROVE  \/ \E i \in DOMAIN Unread(n) : Unread(n)[i] = b.key
             \/ \E f \in scan'.found : f.key = b.key /\ b.row.stamp <= f.row.stamp
             \/ Left(b)
  <2>1. CASE \E f \in scan.found : f.key = b.key /\ b.row.stamp <= f.row.stamp
    BY <1>2, <2>1
  <2>2. CASE \E i \in DOMAIN scan.unread : scan.unread[i] = b.key
    <3>1. PICK i \in 1 .. Len(scan.unread) : scan.unread[i] = b.key
      BY <1>0, <2>2
    <3>2. CASE i <= n
      <4>1. b.key \in K
        BY <1>0, <3>1, <3>2
      <4>2. QED  BY <1>2, <1>3, <4>1, PageShows
    <3>3. CASE i > n
      <4>1. i \in n + 1 .. Len(scan.unread)
        BY <1>0, <3>1, <3>3
      <4>2. \E j \in DOMAIN Unread(n) : Unread(n)[j] = scan.unread[i]
        BY <1>0, <4>1, RestOfSeq DEF Unread
      <4>3. QED  BY <3>1, <4>2
    <3>4. QED  BY <1>0, <3>2, <3>3
  <2>3. QED  BY <2>1, <2>2 DEF ReadInv
<1>7. ReadInv'
  <2>1. scan'.at = "done" => scan'.unread = << >>
    BY <1>2
  <2>2. QED  BY <1>2, <1>6, <2>1 DEF ReadInv, Left
<1>8. QED  BY <1>4, <1>5, <1>7

(* While the scan does not move, what it is to find only gets newer.       *)
LEMMA ScanWaits ==
    ASSUME IInv, NewerTable(replica, rows), BeforeInv, FoundInv, ReadInv,
           [Next]_vars, UNCHANGED scan
    PROVE  BeforeInv' /\ FoundInv' /\ ReadInv'
<1>1. clock \in Nat /\ (clock' = clock \/ clock' = clock + 1)
  BY DEF Next, Stage, Predict, PredictRejected, SaveResults, PredictReturns,
         RowsFail, PredictKilled, WriteRow, CatchUp, StartScan, ReadPage, vars,
         stageVars, IInv, TypeOK
<1>2. NewerTable(replica, replica') /\ NewerTable(rows, rows') /\ IInv'
  BY ReplicaGrows, RowsGrow, StepIInv
<1>3. ASSUME NEW b \in scan.before
      PROVE  /\ Matches(scan.query, b.key, b.row)
             /\ Own(b.key[1], b.key[2], b.row, clock)'
             /\ Newer(b.row, replica'[b.key[1]][b.key[2]])
             /\ Left(b) => Left(b)'
  <2>1. b \in Item /\ b.row \in Row
    BY DEF IInv, TypeOK, Scan, Item
  <2>2. PICK e \in Executions, u \in Users : e = b.key[1] /\ u = b.key[2]
    BY <2>1 DEF Item, Keys
  <2>3. /\ Matches(scan.query, b.key, b.row) /\ Own(e, u, b.row, clock)
        /\ Newer(b.row, replica[e][u])
    BY <2>2 DEF BeforeInv
  <2>4. Own(e, u, b.row, clock)'
    BY <1>1, <2>3 DEF Own
  <2>5. PICK r \in Row : r = replica'[e][u]
    BY <1>2 DEF IInv, TypeOK, Table
  <2>6. /\ replica[e][u] \in Row /\ b.row.stamp \in Nat
        /\ Newer(replica[e][u], r)
    BY <1>2, <2>1, <2>5 DEF IInv, TypeOK, Table, Item, Row, NewerTable
  <2>7. Newer(b.row, r)
    BY <2>1, <2>3, <2>6, NewerTrans
  <2>8. Left(b) => Left(b)'
    <3>1. Newer(rows[e][u], rows'[e][u])
      BY <1>2 DEF NewerTable
    <3>2. rows[e][u] \in Row /\ rows'[e][u] \in Row
      BY <1>2 DEF IInv, TypeOK, Table
    <3>3. QED  BY <2>1, <2>2, <3>1, <3>2 DEF Left, Newer, Row
  <2>9. QED  BY <2>2, <2>3, <2>4, <2>5, <2>7, <2>8
<1>4. BeforeInv'
  BY <1>3 DEF BeforeInv
<1>5. FoundInv'
  <2>1. \A f \in scan.found : f.row.stamp \in Nat
    BY DEF IInv, TypeOK, Scan, Item, Row
  <2>2. QED  BY <1>1, <2>1 DEF FoundInv
<1>6. ReadInv'
  BY <1>3 DEF ReadInv
<1>7. QED  BY <1>4, <1>5, <1>6

(* The invariant of the scan.                                              *)
LEMMA ScanInvHolds == Spec => [](IInv /\ ScanInv)
<1>1. Init => IInv /\ ScanInv
  <2> SUFFICES ASSUME Init PROVE ScanInv
    BY InitIInv
  <2>1. scan.before = {} /\ scan.found = {} /\ scan.at # "done"
    BY DEF Init, NoScan
  <2>2. NewerTable(replica, rows)
    BY DEF Init, NewerTable, Newer, NoPredictions
  <2>3. QED  BY <2>1, <2>2 DEF ScanInv, BeforeInv, FoundInv, ReadInv
<1>2. IInv /\ ScanInv /\ [Next]_vars => (IInv /\ ScanInv)'
  <2> SUFFICES ASSUME IInv, ScanInv, [Next]_vars PROVE IInv' /\ ScanInv'
    OBVIOUS
  <2>1. IInv' /\ NewerTable(replica, rows)'
    BY StepIInv, ReplicaFollows DEF ScanInv
  <2>2. \/ \E q \in Queries : StartScan(q)
        \/ \E n \in DOMAIN scan.unread : ReadPage(n)
        \/ UNCHANGED scan
    BY DEF Next, Stage, Predict, PredictRejected, SaveResults, PredictReturns,
           RowsFail, PredictKilled, WriteRow, CatchUp, vars
  <2>3. BeforeInv' /\ FoundInv' /\ ReadInv'
    BY <2>2, StartScanKeeps, ReadPageKeeps, ScanWaits DEF ScanInv
  <2>4. QED  BY <2>1, <2>3 DEF ScanInv
<1>3. QED  BY <1>1, <1>2, PTL DEF Spec

(* R14.3: a finished scan shows every prediction that was there when it    *)
(* began, whichever replicas its pages came from, and only what matches;   *)
(* what it misses has left its tier or period by being written again.      *)
THEOREM ScansAreComplete == Spec => []ScanIsComplete
<1>1. IInv /\ ScanInv => ScanIsComplete
  <2> SUFFICES ASSUME ScanInv, scan.at = "done" PROVE ScanIsComplete
    BY DEF ScanIsComplete
  <2>1. DOMAIN scan.unread = {}
    BY DEF ScanInv, ReadInv
  <2>2. QED  BY <2>1 DEF ScanInv, ReadInv, FoundInv, ScanIsComplete, Left
<1>2. QED  BY <1>1, ScanInvHolds, PTL

(* A set of naturals that is not empty has a least element.                *)
LEMMA LeastNat ==
    ASSUME NEW T, T \subseteq Nat, T # {}
    PROVE  \E x \in T : \A y \in T : x <= y
<1> DEFINE R == {p \in Nat \X Nat : p[1] < p[2]}
<1>1. IsWellFoundedOn(R, Nat)
  BY NatLessThanWellFounded DEF OpToRel
<1>2. PICK x \in T : \A y \in T : <<y, x>> \notin R
  <2> HIDE DEF R
  <2>1. QED  BY <1>1, WFMin
<1>3. ASSUME NEW y \in T PROVE x <= y
  <2>1. <<y, x>> \in Nat \X Nat /\ <<y, x>>[1] = y /\ <<y, x>>[2] = x
    OBVIOUS
  <2>2. ~(y < x)
    BY <1>2, <2>1
  <2>3. QED  BY <2>2
<1>4. QED  BY <1>3

(* Timestamps are bounded, so of any predictions one is the latest.        *)
LEMMA LatestExists ==
    ASSUME NEW F, F # {}, NEW c \in Nat, \A f \in F : f.row.stamp \in 0 .. c
    PROVE  Latest(F) \in F /\ \A g \in F : g.row.stamp <= Latest(F).row.stamp
<1> DEFINE T == {c - f.row.stamp : f \in F}
<1>1. T \subseteq Nat /\ T # {}
  OBVIOUS
<1>2. PICK x \in T : \A y \in T : x <= y
  <2> HIDE DEF T
  <2>1. QED  BY <1>1, LeastNat
<1>3. PICK f \in F : x = c - f.row.stamp
  OBVIOUS
<1>4. ASSUME NEW g \in F PROVE g.row.stamp <= f.row.stamp
  <2>1. c - g.row.stamp \in T
    OBVIOUS
  <2>2. x <= c - g.row.stamp
    BY <1>2, <2>1
  <2>3. f.row.stamp \in 0 .. c /\ g.row.stamp \in 0 .. c
    OBVIOUS
  <2>4. QED  BY <1>3, <2>2, <2>3
<1>5. \E h \in F : \A g \in F : g.row.stamp <= h.row.stamp
  BY <1>4
<1>6. QED  BY <1>5 DEF Latest

(* R14.4: the prediction shown of a subscriber is no older than any that   *)
(* all replicas had when the dashboard began to look.                      *)
THEOREM ShowsTheLatest == Spec => []LatestIsLatest
<1>1. IInv /\ ScanInv => LatestIsLatest
  <2> SUFFICES ASSUME IInv, ScanInv, scan.at = "done", scan.found # {},
                      scan.query.of \in Users, NEW b \in scan.before
               PROVE  b.row.stamp <= Latest(scan.found).row.stamp
    BY DEF LatestIsLatest
  <2>t. clock \in Nat /\ scan.found \subseteq Item /\ b \in Item
    BY DEF IInv, TypeOK, Scan
  <2>1. DOMAIN scan.unread = {}
    BY DEF ScanInv, ReadInv
  <2>m. ~MayLose(scan.query)
    BY PredictionsAssumption DEF MayLose, Tiers, IInv, TypeOK, Scan, Everything
  <2>2. PICK f \in scan.found : b.row.stamp <= f.row.stamp
    BY <2>1, <2>m DEF ScanInv, ReadInv, Left
  <2>3. \A g \in scan.found : g.row.stamp \in 0 .. clock
    <3>1. \A g \in scan.found : g.row.stamp \in Nat /\ g.row.stamp <= clock
      BY <2>t DEF ScanInv, FoundInv, Item, Row
    <3>2. QED  BY <2>t, <3>1
  <2>4. /\ Latest(scan.found) \in scan.found
        /\ f.row.stamp <= Latest(scan.found).row.stamp
    BY <2>t, <2>3, LatestExists
  <2>5. PICK n \in Nat : n = Latest(scan.found).row.stamp
    BY <2>3, <2>4
  <2>6. b.row.stamp \in Nat /\ f.row.stamp \in Nat
    BY <2>t DEF Item, Row
  <2>7. QED  BY <2>2, <2>4, <2>5, <2>6
<1>2. QED  BY <1>1, ScanInvHolds, PTL
=============================================================================
