------------------------------- MODULE Training -------------------------------
(***************************************************************************)
(* One call of SageMakerMLPipeline.train (src/src/ml/sagemaker_pipeline.py)*)
(* with the two SageMaker jobs it starts: the training job and the batch   *)
(* transform that evaluates the model on the test set.                     *)
(*                                                                         *)
(* The jobs run beside the call, which polls them; the call may raise at   *)
(* any point and leaves behind what it wrote and started.  All names carry *)
(* the call's own version id, so calls share nothing but the group of      *)
(* registered models (module ModelRegistry, action RegisterModel).  A set  *)
(* of records is abstracted to its number of churned (pos) and active      *)
(* (neg) users, the only thing the split and the metrics depend on.        *)
(***************************************************************************)
EXTENDS Integers, FiniteSets

CONSTANTS
    Datasets,  \* possible contents of the training data
    MayFail    \* may calls, jobs and the transform's output fail?

Counts == [pos : Nat, neg : Nat]

ASSUME TrainingAssumption ==
    /\ Datasets \subseteq Counts
    /\ MayFail \subseteq BOOLEAN

VARIABLES
    data,        \* the records of training_data_s3
    faulty,      \* may anything go wrong in the environment of this call?
    pc,          \* where train() stands
    split,       \* the splits it holds in memory
    objects,     \* S3 objects of this version
    job,         \* TrainingJobStatus
    trial,       \* TransformJobStatus of the evaluation
    lines,       \* predictions in the transform's output
    scored,      \* the labels the metrics were computed from
    registered   \* is there a package with these metrics in the group?

held == <<data, faulty, split>>
vars == <<held, pc, objects, job, trial, lines, scored, registered>>

Size(d) == d.pos + d.neg

Nothing == [pos |-> 0, neg |-> 0]

NoSplit == [train |-> Nothing, validation |-> Nothing, test |-> Nothing]

-----------------------------------------------------------------------------
(* _stratified_split                                                       *)

(* train_test_split(d, stratify=labels) into n records and the rest raises *)
(* unless every class has two members and a place in both parts.           *)
Stratifiable(d, n) ==
    LET classes == Cardinality({l \in {"pos", "neg"} : d[l] > 0})
    IN  /\ classes > 0
        /\ d.pos # 1 /\ d.neg # 1
        /\ n >= classes
        /\ Size(d) - n >= classes

Distance(a, b) == IF a > b THEN a - b ELSE b - a

(* The first part gets of each class its share of n, rounded to the        *)
(* nearest number; the random state decides a tie.                         *)
Cuts(d, n) ==
    {c \in [pos : 0 .. d.pos, neg : 0 .. d.neg] :
        /\ Stratifiable(d, n)
        /\ Size(c) = n
        /\ 2 * Distance(c.pos * Size(d), n * d.pos) <= Size(d)}

Rest(d, c) == [pos |-> d.pos - c.pos, neg |-> d.neg - c.neg]

(* 30% (rounded up) are kept from training; half of them (rounded up) is   *)
(* the test set.                                                           *)
TrainCuts(d) == Cuts(d, (7 * Size(d)) \div 10)

ValidationCuts(r) == Cuts(r, Size(r) \div 2)

\* Mutant: the second split is not stratified.
SplitsUnstratified(d) ==
    UNION {{[train |-> t, validation |-> v, test |-> Rest(Rest(d, t), v)] :
              v \in {c \in [pos : 0 .. d.pos - t.pos, neg : 0 .. d.neg - t.neg] :
                        Size(c) = Size(Rest(d, t)) \div 2}} :
           t \in TrainCuts(d)}

Splits(d) ==
    UNION {{[train |-> t, validation |-> v, test |-> Rest(Rest(d, t), v)] :
              v \in ValidationCuts(Rest(d, t))} : t \in TrainCuts(d)}

SplitMayRaise(d) ==
    \/ TrainCuts(d) = {}
    \/ \E t \in TrainCuts(d) : ValidationCuts(Rest(d, t)) = {}

-----------------------------------------------------------------------------
(* Where train() may stand: a step named for an object uploads it.         *)

Uploads == {"train", "validation", "test", "features", "metrics",
            "hyperparameters"}

Ended == {"returned", "raised"}

Pcs == {"load", "createJob", "pollJob", "createTrial", "pollTrial", "score",
        "register"} \cup Uploads \cup Ended

After(p) ==
    CASE p = "train"      -> "validation"
      [] p = "validation" -> "test"
      [] p = "test"       -> "createJob"
      [] p = "features"   -> "createTrial"
      [] p = "metrics"    -> "hyperparameters"
      [] OTHER            -> "returned"

JobStatus == {"none", "InProgress", "Completed", "Failed", "Stopped"}

Init ==
    /\ data \in Datasets
    /\ faulty \in MayFail
    /\ pc = "load"
    /\ split = NoSplit
    /\ objects = {}
    /\ job = "none"
    /\ trial = "none"
    /\ lines = 0
    /\ scored = Nothing
    /\ registered = FALSE

-----------------------------------------------------------------------------
(* train()                                                                 *)

(* The dataset is read and split.                                          *)
LoadAndSplit ==
    /\ pc = "load"
    /\ split' \in Splits(data)
    /\ pc' = "train"
    /\ UNCHANGED <<data, faulty, objects, job, trial, lines, scored,
                   registered>>

SplitRaises ==
    /\ pc = "load"
    /\ SplitMayRaise(data)
    /\ pc' = "raised"
    /\ UNCHANGED <<held, objects, job, trial, lines, scored, registered>>

Upload ==
    /\ pc \in Uploads
    /\ objects' = objects \cup {pc}
    /\ pc' = After(pc)
    /\ UNCHANGED <<held, job, trial, lines, scored, registered>>

CreateJob ==
    /\ pc = "createJob"
    /\ job' = "InProgress"
    /\ pc' = "pollJob"
    /\ UNCHANGED <<held, objects, trial, lines, scored, registered>>

\* Mutant: only "Failed" ends the polling of a job without a model.
PollJobForEver ==
    /\ pc = "pollJob"
    /\ \/ job = "Completed" /\ pc' = "features"
       \/ job = "Failed" /\ pc' = "raised"
    /\ UNCHANGED <<held, objects, job, trial, lines, scored, registered>>

\* Mutant: the call goes on as soon as the job has been created.
PollJobAtOnce ==
    /\ pc = "pollJob"
    /\ pc' = "features"
    /\ UNCHANGED <<held, objects, job, trial, lines, scored, registered>>

(* _wait_for_training_job: it sleeps and asks again while the job runs.    *)
PollJob ==
    /\ pc = "pollJob"
    /\ \/ job = "Completed" /\ pc' = "features"
       \/ job \in {"Failed", "Stopped"} /\ pc' = "raised"
    /\ UNCHANGED <<held, objects, job, trial, lines, scored, registered>>

(* _create_batch_transform_job: a model of the artifact, and its transform.*)
CreateTrial ==
    /\ pc = "createTrial"
    /\ trial' = "InProgress"
    /\ pc' = "pollTrial"
    /\ UNCHANGED <<held, objects, job, lines, scored, registered>>

PollTrial ==
    /\ pc = "pollTrial"
    /\ \/ trial = "Completed" /\ pc' = "score"
       \/ trial \in {"Failed", "Stopped"} /\ pc' = "raised"
    /\ UNCHANGED <<held, objects, job, trial, lines, scored, registered>>

\* Mutant: the last line of the output is dropped as if it were empty.
ScoreWithoutLast ==
    /\ pc = "score"
    /\ \E c \in [pos : 0 .. split.test.pos, neg : 0 .. split.test.neg] :
          /\ Size(c) = lines - 1
          /\ \/ scored' = c /\ pc' = "register" /\ Size(c) > 0
             \/ 0 \in {c.pos, c.neg} /\ pc' = "raised" /\ UNCHANGED scored
    /\ UNCHANGED <<held, objects, job, trial, lines, registered>>

(* The metrics are those of the labels the output reaches, of which class  *)
(* ever they are.  roc_auc_score raises if there are none, and depending   *)
(* on its release raises or returns nan if they are all of one class.      *)
Score ==
    /\ pc = "score"
    /\ \E c \in [pos : 0 .. split.test.pos, neg : 0 .. split.test.neg] :
          /\ Size(c) = lines
          /\ \/ scored' = c /\ pc' = "register" /\ Size(c) > 0
             \/ 0 \in {c.pos, c.neg} /\ pc' = "raised" /\ UNCHANGED scored
    /\ UNCHANGED <<held, objects, job, trial, lines, registered>>

(* _register_model: the package names the artifact and holds the metrics.  *)
Register ==
    /\ pc = "register"
    /\ registered' = TRUE
    /\ pc' = "metrics"
    /\ UNCHANGED <<held, objects, job, trial, lines, scored>>

(* Any call to S3 or SageMaker may raise; if the call took effect and only *)
(* its answer was lost, the next step's failure looks the same.            *)
Fails ==
    /\ pc \notin Ended
    /\ faulty
    /\ pc' = "raised"
    /\ UNCHANGED <<held, objects, job, trial, lines, scored, registered>>

-----------------------------------------------------------------------------
(* The jobs at SageMaker; MaxRuntimeInSeconds stops one that takes long.   *)

JobEnds ==
    /\ job = "InProgress"
    /\ job' \in IF faulty THEN {"Completed", "Failed", "Stopped"}
                          ELSE {"Completed"}
    /\ objects' = IF job' = "Completed" THEN objects \cup {"model"} ELSE objects
    /\ UNCHANGED <<held, pc, trial, lines, scored, registered>>

(* A faulty transform may complete with an output that is too short.       *)
TrialEnds ==
    /\ trial = "InProgress"
    /\ \/ /\ trial' = "Completed"
          /\ lines' \in IF faulty THEN 0 .. Size(split.test)
                                  ELSE {Size(split.test)}
          /\ objects' = objects \cup {"output"}
       \/ /\ faulty
          /\ trial' \in {"Failed", "Stopped"}
          /\ UNCHANGED <<lines, objects>>
    /\ UNCHANGED <<held, pc, job, scored, registered>>

-----------------------------------------------------------------------------

Train == LoadAndSplit \/ SplitRaises \/ Upload \/ CreateJob \/ PollJob
           \/ CreateTrial \/ PollTrial \/ Score \/ Register

Next == Train \/ Fails \/ JobEnds \/ TrialEnds

Spec == Init /\ [][Next]_vars

(* The process that called train() keeps running, and every job ends; that *)
(* a call to AWS ever fails is not assumed.                                *)
FairSpec ==
    Spec /\ WF_vars(Train) /\ WF_vars(JobEnds) /\ WF_vars(TrialEnds)

-----------------------------------------------------------------------------
(* Properties                                                              *)

(* Type invariant; no part of a split holds a negative count.              *)
TypeOK ==
    /\ data \in Counts
    /\ faulty \in BOOLEAN
    /\ pc \in Pcs
    /\ split \in [train : Counts, validation : Counts, test : Counts]
    /\ objects \subseteq Uploads \cup {"model", "output"}
    /\ job \in JobStatus
    /\ trial \in JobStatus
    /\ lines \in Nat
    /\ scored \in Counts
    /\ registered \in BOOLEAN

(* R10.7, R10.8: rounding and stratification leave no split of a dataset   *)
(* with both classes without one of them, however few churned users there  *)
(* are: either the split raises, or ROC AUC is defined on the test set.    *)
SplitsKeepBothClasses ==
    (split # NoSplit /\ data.pos > 0 /\ data.neg > 0) =>
        \A part \in {"train", "validation", "test"} :
            split[part].pos > 0 /\ split[part].neg > 0

(* R10.7: a registered model was trained by a job that completed on splits *)
(* in S3, and the metrics in its package are those of that model on as     *)
(* many of the test set's records as the completed transform answered.     *)
PackageIsBacked ==
    registered => /\ job = "Completed" /\ trial = "Completed"
                  /\ {"train", "validation", "test", "model", "features",
                      "output"} \subseteq objects
                  /\ scored.pos <= split.test.pos
                  /\ scored.neg <= split.test.neg
                  /\ Size(scored) = lines /\ lines > 0

(* R10.10: when train() returns, the package, the model file, the metrics  *)
(* and the hyperparameters are all there; metrics are in S3 only of a      *)
(* registered model, also when train() raised in between.                  *)
ReturnedIsComplete ==
    /\ pc = "returned" => registered /\ Uploads \cup {"model"} \subseteq objects
    /\ "metrics" \in objects => registered

(* train() ends, although its polling loops have no limit of their own: it *)
(* understands every way in which a job can end.                           *)
TrainingEnds == <>(pc \in Ended)

(* Without faults, a dataset of both classes that can be split leads to a  *)
(* registered model whose metrics are about the whole test set.            *)
QuietTrainingRegisters ==
    (~faulty /\ data.pos > 0 /\ data.neg > 0 /\ ~SplitMayRaise(data))
        ~> (pc = "returned" /\ registered /\ scored = split.test)
=============================================================================
