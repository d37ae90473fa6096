------------------------------ MODULE Predictions ------------------------------
(***************************************************************************)
(* The table churn_predictions between its writers and its reader: the     *)
(* predict stage of several executions (src/src/orchestrator/handlers/     *)
(* predict_handler.py) and the dashboard, which scans the table page by    *)
(* page (src/src/dashboard/data_source.py).                                *)
(*                                                                         *)
(* A score is what the model returns for a vector, in units of 1/100,000;  *)
(* a prediction keeps it rounded to four digits, and its risk tier.  Each  *)
(* try of the stage loads the model and computes the predictions again,    *)
(* saves them as one object in S3 and then writes a row per user.  The     *)
(* scan is eventually consistent: a page may come from a replica that      *)
(* lacks the last writes.                                                  *)
(***************************************************************************)
EXTENDS Naturals, Sequences, SequencesExt

CONSTANTS
    Executions,  \* executions of the pipeline in predict mode
    Users,       \* subscribers
    Members,     \* the users of each execution, those with a feature vector
    Scores,      \* the models, by the scores they give the users' vectors
    MaxTries,    \* tries of the stage: 1 and the Retry's MaxAttempts (2)
    MaxFaults,   \* faults of invocations and of the table (a bound of the model)
    ScanOrders,  \* the order of the keys in a scan, that of their hashes
    Queries,     \* what the dashboard asks for
    MaxScans     \* scans of the dashboard (a bound of the model)

\* The keys of the table: execution_id and user_id.
Keys == {k \in Executions \X Users : k[2] \in Members[k[1]]}

\* A score of 1, and RISK_THRESHOLDS: the upper ends of the lower tiers.
One == 100000
LowEnd == 30000
MediumEnd == 60000

(* Halves of the fourth digit are left out: which way they are rounded     *)
(* depends on the binary representation of the score.                      *)
ASSUME PredictionsAssumption ==
    /\ Members \in [Executions -> SUBSET Users]
    /\ Scores \subseteq [Keys -> {s \in 0 .. One : s % 10 # 5}]
    /\ MaxTries \in Nat \ {0}
    /\ MaxFaults \in Nat
    /\ ScanOrders \subseteq Seq(Keys)
    /\ \A o \in ScanOrders : IsInjective(o) /\ Keys = {o[i] : i \in DOMAIN o}
    /\ Users \cap {"all", "Low", "Medium", "High"} = {}
    /\ Queries \subseteq [of : {"all", "Low", "Medium", "High"} \cup Users,
                          since : Nat, until : Nat]
    /\ \A q \in Queries : q.of \in Users => q.since = 0 /\ q.until = 0
    /\ MaxScans \in Nat

VARIABLES
    faults,   \* faults still to come
    pc,       \* where the stage of an execution stands
    tries,    \* its tries that failed
    made,     \* the predictions its invocation has computed
    pending,  \* users whose row the invocation has still to write
    results,  \* predictions/{execution_id}/results.json
    rows,     \* churn_predictions
    replica,  \* the same, as a lagging replica has it
    clock,    \* the time of the last prediction
    scan      \* the dashboard's scan

stageVars == <<faults, pc, tries, made, pending, results, clock>>
vars == <<stageVars, rows, replica, scan>>

-----------------------------------------------------------------------------
(* Scores and tiers                                                        *)

Tiers == {"Low", "Medium", "High"}

\* _classify_risk; the ends belong to their tiers.
Tier(s) ==
    IF s <= LowEnd THEN "Low" ELSE IF s <= MediumEnd THEN "Medium" ELSE "High"

\* round(score, 4), in units of 1/10,000.
Rounded(s) == (s + 5) \div 10

(* The tier is that of the score, not of the rounded score.                *)
Prediction(s, t) == [prob |-> Rounded(s), tier |-> Tier(s), stamp |-> t]

NoPrediction == [prob |-> 0, tier |-> "none", stamp |-> 0]

(* validate_risk_tier_consistency, on the rounded probability.             *)
Consistent(p) == p.tier = Tier(10 * p.prob)

NoPredictions == [u \in Users |-> NoPrediction]

-----------------------------------------------------------------------------
(* The scan of the dashboard                                               *)

\* A query without filters; an end of 0 is a period without an end.
Everything == [of |-> "all", since |-> 0, until |-> 0]

\* period_start and period_end: the timestamp of a row, both ends included.
InPeriod(q, r) == q.since <= r.stamp /\ (q.until = 0 \/ r.stamp <= q.until)

\* The FilterExpression; rows that are not there match nothing.
Matches(q, k, r) ==
    /\ r # NoPrediction
    /\ q.of = "all" \/ q.of = r.tier \/ q.of = k[2]
    /\ InPeriod(q, r)

(* The items of a page with the keys K that is read from the given table.  *)
Found(q, K, table) ==
    {f \in [key : K, row : {table[k[1]][k[2]] : k \in K}] :
        f.row = table[f.key[1]][f.key[2]] /\ Matches(q, f.key, f.row)}

NoScan == [at |-> "idle", query |-> Everything, unread |-> <<>>,
           found |-> {}, before |-> {}, count |-> 0]

-----------------------------------------------------------------------------

Init ==
    /\ faults \in 0 .. MaxFaults
    /\ pc = [e \in Executions |-> "scheduled"]
    /\ tries = [e \in Executions |-> 0]
    /\ made = [e \in Executions |-> NoPredictions]
    /\ pending = [e \in Executions |-> {}]
    /\ results = [e \in Executions |-> NoPredictions]
    /\ rows = [e \in Executions |-> NoPredictions]
    /\ replica = [e \in Executions |-> NoPredictions]
    /\ clock = 0
    /\ scan = NoScan

-----------------------------------------------------------------------------
(* The predict stage of an execution                                       *)

Go(e, p) == pc' = [pc EXCEPT ![e] = p]

(* A try of the stage ends with an error: the state machine starts the     *)
(* next one or gives up.                                                   *)
TryFails(e) ==
    /\ Go(e, IF tries[e] + 1 < MaxTries THEN "scheduled" ELSE "failed")
    /\ tries' = [tries EXCEPT ![e] = @ + 1]
    /\ made' = [made EXCEPT ![e] = NoPredictions]
    /\ pending' = [pending EXCEPT ![e] = {}]

(* Vectors and model are loaded by every try, and a training may have put  *)
(* another model in the place of the last one, whoever uses it: the scores *)
(* are those of any model.  All users get the same timestamp.              *)
Computed(e, score) ==
    [u \in Users |-> IF u \in Members[e]
                     THEN Prediction(score[<<e, u>>], clock + 1)
                     ELSE NoPrediction]

AllConsistent(e, score) ==
    \A u \in Members[e] : Consistent(Computed(e, score)[u])

Predict(e) ==
    /\ pc[e] = "scheduled"
    /\ clock' = clock + 1
    /\ \E score \in Scores :
          /\ AllConsistent(e, score)
          /\ made' = [made EXCEPT ![e] = Computed(e, score)]
    /\ Go(e, "save")
    /\ UNCHANGED <<faults, tries, pending, results, rows, replica, scan>>

(* A prediction the validator rejects raises, and no user gets one.        *)
PredictRejected(e) ==
    /\ pc[e] = "scheduled"
    /\ \E score \in Scores : ~AllConsistent(e, score)
    /\ TryFails(e)
    /\ UNCHANGED <<faults, results, clock, rows, replica, scan>>

\* Mutant: the rows come before the object.
SaveWithRows(e) ==
    /\ pc[e] = "save"
    /\ rows' = [rows EXCEPT ![e] = made[e]]
    /\ pending' = [pending EXCEPT ![e] = {}]
    /\ Go(e, "write")
    /\ UNCHANGED <<faults, tries, made, results, clock, replica, scan>>

SaveResults(e) ==
    /\ pc[e] = "save"
    /\ results' = [results EXCEPT ![e] = made[e]]
    /\ pending' = [pending EXCEPT ![e] = Members[e]]
    /\ Go(e, "write")
    /\ UNCHANGED <<faults, tries, made, clock, rows, replica, scan>>

(* The batch writer sends the rows in batches, and again what a batch left *)
(* unprocessed: the rows of a try land one by one, in any order.           *)
WriteRow(e, u) ==
    /\ pc[e] = "write"
    /\ u \in pending[e]
    /\ rows' = [rows EXCEPT ![e][u] = made[e][u]]
    /\ pending' = [pending EXCEPT ![e] = @ \ {u}]
    /\ UNCHANGED <<faults, pc, tries, made, results, clock, replica,
                   scan>>

\* Mutant: the batch is not flushed, its last rows are lost.
RowsUnflushed(e) ==
    /\ pc[e] = "write"
    /\ pending[e] # {}
    /\ pending' = [pending EXCEPT ![e] = {}]
    /\ UNCHANGED <<faults, pc, tries, made, results, clock, rows,
                   replica, scan>>

(* An error of the table is logged, the rows still to write are dropped.   *)
RowsFail(e) ==
    /\ faults > 0
    /\ faults' = faults - 1
    /\ pc[e] = "write"
    /\ pending[e] # {}
    /\ pending' = [pending EXCEPT ![e] = {}]
    /\ UNCHANGED <<pc, tries, made, results, clock, rows,
                   replica, scan>>

PredictReturns(e) ==
    /\ pc[e] = "write"
    /\ pending[e] = {}
    /\ Go(e, "returned")
    /\ UNCHANGED <<faults, tries, made, pending, results, clock, rows,
                   replica, scan>>

(* The invocation raises, times out or is killed before any of its writes. *)
PredictKilled(e) ==
    /\ faults > 0
    /\ faults' = faults - 1
    /\ pc[e] \in {"scheduled", "save", "write"}
    /\ TryFails(e)
    /\ UNCHANGED <<results, clock, rows, replica, scan>>

-----------------------------------------------------------------------------
(* DynamoDB: the replica of a partition, the rows of an execution, catches *)
(* up with what was written                                                *)

CatchUp(e) ==
    /\ replica[e] # rows[e]
    /\ replica' = [replica EXCEPT ![e] = rows[e]]
    /\ UNCHANGED <<stageVars, rows, scan>>

-----------------------------------------------------------------------------
(* The dashboard                                                           *)

StartScan(q) ==
    /\ scan.at # "reading"
    /\ scan.count < MaxScans
    /\ \E order \in ScanOrders :
          scan' = [at |-> "reading", query |-> q, unread |-> order,
                   found |-> {}, before |-> Found(q, Keys, replica),
                   count |-> scan.count + 1]
    /\ UNCHANGED <<stageVars, rows, replica>>

(* The items of a page of n keys, filtered after the reading.              *)
Page(n) ==
    LET K == {scan.unread[i] : i \in 1 .. n} IN
    {Found(scan.query, K, table) : table \in {rows, replica}}

Unread(n) == SubSeq(scan.unread, n + 1, Len(scan.unread))

\* Mutant: a page without items is taken for the last one.
LastUnlessItems(n, page) == Unread(n) = <<>> \/ page = {}

\* LastEvaluatedKey is missing from the page at the end of the table only.
LastPage(n, page) == Unread(n) = <<>>

(* A page may be empty and yet have a LastEvaluatedKey: the loop ends at   *)
(* the page without that key.                                              *)
ReadPage(n) ==
    /\ scan.at = "reading"
    /\ n \in DOMAIN scan.unread
    /\ \E page \in Page(n) :
          scan' = [scan EXCEPT !.unread = Unread(n), !.found = @ \cup page,
                               !.at = IF LastPage(n, page) THEN "done" ELSE @]
    /\ UNCHANGED <<stageVars, rows, replica>>

\* Mutant: sorted by timestamp, the first first.
LatestFirst(F) == CHOOSE f \in F : \A g \in F : f.row.stamp <= g.row.stamp

(* _get_latest_prediction_for_user: sorted by timestamp, the last first.   *)
Latest(F) == CHOOSE f \in F : \A g \in F : g.row.stamp <= f.row.stamp

-----------------------------------------------------------------------------

Stage(e) == Predict(e) \/ PredictRejected(e) \/ SaveResults(e)
              \/ PredictReturns(e) \/ \E u \in Users : WriteRow(e, u)

Next ==
    \/ \E e \in Executions : Stage(e) \/ RowsFail(e) \/ PredictKilled(e)
    \/ \E e \in Executions : CatchUp(e)
    \/ \E q \in Queries : StartScan(q)
    \/ \E n \in DOMAIN scan.unread : ReadPage(n)

Spec == Init /\ [][Next]_vars

(* Step Functions runs the stage of every execution until it ends.         *)
FairSpec == Spec /\ \A e \in Executions : WF_vars(Stage(e))

-----------------------------------------------------------------------------
(* Properties                                                              *)

Row == [prob : 0 .. Rounded(One), tier : Tiers \cup {"none"}, stamp : Nat]
Table == [Executions -> [Users -> Row]]

\* What a page shows: the key of a row and what the page says of it.
Item == [key : Keys, row : Row]

Scan == [at : {"idle", "reading", "done"}, query : {Everything} \cup Queries,
         unread : Seq(Keys), found : SUBSET Item, before : SUBSET Item,
         count : 0 .. MaxScans]

(* Type invariant.                                                         *)
TypeOK ==
    /\ faults \in 0 .. MaxFaults
    /\ pc \in [Executions -> {"scheduled", "save", "write", "returned", "failed"}]
    /\ tries \in [Executions -> 0 .. MaxTries]
    /\ made \in Table
    /\ pending \in [Executions -> SUBSET Users]
    /\ results \in Table
    /\ rows \in Table
    /\ replica \in Table
    /\ clock \in Nat
    /\ scan \in Scan

(* R17.4: a row of the table is the one S3 holds for the user, or an older *)
(* one, left behind by a try that failed after it: never a row of a try    *)
(* whose object was not saved, nor one of an object since overwritten by   *)
(* the same try, whichever model the tries have used.                      *)
TableFollowsResults ==
    \A e \in Executions, u \in Users :
        rows[e][u] \notin {NoPrediction, results[e][u]} =>
            /\ rows[e][u].stamp < results[e][u].stamp
            /\ tries[e] > 0

(* The tier of a row and its timestamp change when it is written again: a  *)
(* filter on the tier or with an end may lose a row it once matched.       *)
MayLose(q) == q.of \in Tiers \/ q.until # 0

(* R14.3: what a finished scan shows contains every prediction that every  *)
(* replica had when the scan began and that matches the filter, whatever   *)
(* the executions wrote meanwhile, and nothing that does not match.  Only  *)
(* a tier or the end of a period can lose one, and only a row that a later *)
(* try has written again: it may be in another tier and is certainly later.*)
ScanIsComplete ==
    scan.at = "done" =>
        /\ \A b \in scan.before :
              \/ \E f \in scan.found : f.key = b.key
              \/ /\ MayLose(scan.query)
                 /\ b.row.stamp < rows[b.key[1]][b.key[2]].stamp
        /\ \A f \in scan.found : Matches(scan.query, f.key, f.row)

(* R14.4: the prediction the dashboard shows of a subscriber is at least   *)
(* as new as every one that all replicas had when it began to look.        *)
LatestIsLatest ==
    (scan.at = "done" /\ scan.query.of \in Users /\ scan.found # {}) =>
        \A b \in scan.before : b.row.stamp <= Latest(scan.found).row.stamp

(* Without faults every execution whose predictions the model accepts      *)
(* ends with an object and a row for every user.                           *)
QuietPredictDelivers ==
    \A e \in Executions :
        (faults = 0 /\ pc[e] = "save")
            ~> (pc[e] = "returned" /\ rows[e] = results[e])

-----------------------------------------------------------------------------
(* What a document of the repository says and the code does not do         *)

(* R8.3: what fails for an individual user does not fail the stage.        *)
StageOutlivesAUser ==
    MaxFaults = 0 => \A e \in Executions : pc[e] # "failed"
=============================================================================
