------------------------------- MODULE Pipeline -------------------------------
(***************************************************************************)
(* One execution of the churn pipeline as ChurnPredictionStack deploys it: *)
(* the state machine PIPELINE_DEFINITION (src/src/orchestrator/            *)
(* step_functions.py) with the Lambda handlers of src/src/orchestrator/    *)
(* handlers as its tasks.                                                  *)
(*                                                                         *)
(* The states pass an event along; a handler's changes to the event count  *)
(* only if it returns.  What a handler writes to S3 and DynamoDB stays,    *)
(* even if the invocation then fails and the state is retried.  An action  *)
(* is the part of a handler up to and including its next external write,   *)
(* and the execution may break down between any two of them.               *)
(*                                                                         *)
(* Sessions, feature vectors, predictions and explanations are abstracted  *)
(* to the set of users they are about.  The keys of the S3 objects and of  *)
(* the prediction rows contain the execution id, so that two executions    *)
(* share only the Feature Store (module FeatureStore).                     *)
(***************************************************************************)
EXTENDS Naturals, FiniteSets

CONSTANTS
    Users,        \* subscribers
    None,         \* an S3 object that does not exist
    Triggers,     \* how the execution may be started, see TriggerKinds
    Carried,      \* what a manual start may pass as vectors or predictions
    MaxValidIds,  \* MAX_VALID_IDS of the ingestion (50,000 in the code)
    StoreCopies,  \* versions one store() may leave: one per attempt of it (3)
    PayloadIds,   \* ids a state's event can hold (256 KB in Step Functions)
    MayFail       \* may invocations fail or time out: TRUE, FALSE or both

(* "s3": a list uploaded under input/; "schedule": the weekly rule;        *)
(* "manual": start_execution() with an input of the caller's making.       *)
TriggerKinds == {"s3", "schedule", "manual"}

(* What the data alone may make a handler raise, without any fault.        *)
(* "list": ingest_user_ids() refuses the list (no valid id, more of them   *)
(* than MAX_VALID_IDS, no user_id column, a CSV row too short for its      *)
(* dates).  "scores": the validator of PredictionResult refuses a score    *)
(* whose tier changes when it is rounded (module Predictions).             *)
RejectionKinds == {"list", "scores"}

ASSUME PipelineAssumption ==
    /\ IsFiniteSet(Users)
    /\ \A S \in SUBSET Users : S # None
    /\ Triggers \subseteq TriggerKinds
    /\ Carried \subseteq SUBSET Users
    /\ MaxValidIds \in Nat
    /\ StoreCopies \in Nat \ {0}
    /\ PayloadIds \in Nat
    /\ MayFail \subseteq BOOLEAN

VARIABLES
    trigger,     \* what started the execution
    mode,        \* $.mode
    faulty,      \* do invocations of this execution fail or time out?
    rejects,     \* what of its data is refused, see RejectionKinds
    state,       \* current state of the state machine
    retries,     \* retries of the current state
    event,       \* the event the current state was entered with
    step,        \* where the current invocation stands
    todo,        \* what its loop has still to treat
    mem,         \* the users whose data it holds
    raw,         \* users with an object under raw_data/{execution_id}/
    features,    \* features/{execution_id}/feature_vectors.json
    versions,    \* versions the execution added to the Feature Store
    predObj,     \* predictions/{execution_id}/results.json
    predTable,   \* users with a row of this execution in churn_predictions
    explObj,     \* explanations/{execution_id}/shap_results.json
    bedrockObj,  \* predictions/{execution_id}/explanations.json
    reports      \* report files uploaded

context == <<trigger, mode, faulty, rejects>>
local   == <<step, todo, mem>>
stores  == <<raw, features, versions, predObj, predTable, explObj,
             bedrockObj, reports>>
vars    == <<context, state, retries, event, local, stores>>

-----------------------------------------------------------------------------
(* The state machine                                                       *)

PredictStates == {"Training", "EvaluateModel", "RegisterModel", "BatchPredict"}

TaskStates ==
    {"Ingestion", "Extraction", "FeatureEngineering", "StoreFeatures",
     "Explainability", "BedrockExplanations", "GenerateReports"}
    \cup PredictStates

FinalStates == {"Succeeded", "PipelineFailed", "DataLimitExceeded"}

(* MaxAttempts of the state's Retry: retries after the first attempt.      *)
MaxAttempts(s) ==
    CASE s = "StoreFeatures" -> 5
      [] s \in {"Training", "RegisterModel", "BatchPredict"} -> 1
      [] s = "BedrockExplanations" -> 2
      [] OTHER -> 3

(* Next of the state; StoreFeatures leads to the Choice state ChooseMode.  *)
NextState(s) ==
    CASE s = "Ingestion" -> "Extraction"
      [] s = "Extraction" -> "FeatureEngineering"
      [] s = "FeatureEngineering" -> "StoreFeatures"
      [] s = "StoreFeatures" ->
            IF mode = "train" THEN "Training" ELSE "BatchPredict"
      [] s = "Training" -> "EvaluateModel"
      [] s = "EvaluateModel" -> "RegisterModel"
      [] s = "BatchPredict" -> "Explainability"
      [] s = "Explainability" -> "BedrockExplanations"
      [] s = "BedrockExplanations" -> "GenerateReports"
      [] OTHER -> "Succeeded"

ReportFiles == 1 .. 3  \* executive JSON, executive Markdown, high-risk JSON

Object == (SUBSET Users) \cup {None}

Event == [valid : SUBSET Users, withData : SUBSET Users,
          vectors : SUBSET Users, predictions : SUBSET Users,
          fvKey : BOOLEAN, fvCount : Nat,
          predKey : BOOLEAN, predCount : Nat,
          explKey : BOOLEAN, explCount : Nat]

StartEvent(V, P) ==
    [valid |-> {}, withData |-> {}, vectors |-> V, predictions |-> P,
     fvKey |-> FALSE, fvCount |-> 0, predKey |-> FALSE, predCount |-> 0,
     explKey |-> FALSE, explCount |-> 0]

(* The payload in ids: a lower bound, vectors and predictions are longer.  *)
Payload(e) == Cardinality(e.valid) + Cardinality(e.withData)
                + Cardinality(e.vectors) + Cardinality(e.predictions)

CarriedBy(t) == IF t = "manual" THEN Carried ELSE {{}}

ModesOf(t) == IF t = "manual" THEN {"train", "predict"} ELSE {"predict"}

(* Where invocations fail anyway, what is refused adds no failure.         *)
RejectionsOf(f) == IF f THEN {{}} ELSE SUBSET RejectionKinds

Init ==
    /\ trigger \in Triggers
    /\ mode \in ModesOf(trigger)
    /\ faulty \in MayFail
    /\ rejects \in RejectionsOf(faulty)
    /\ \E V, P \in CarriedBy(trigger) : event = StartEvent(V, P)
    /\ state = "Ingestion"
    /\ retries = 0
    /\ step = "start" /\ todo = {} /\ mem = {}
    /\ raw = {}
    /\ features = None
    /\ versions = [u \in Users |-> 0]
    /\ predObj = None
    /\ predTable = {}
    /\ explObj = None
    /\ bedrockObj = None
    /\ reports = {}

Fresh == step' = "start" /\ todo' = {} /\ mem' = {}

(* The handler returns e and the state machine moves on.  An event that is *)
(* too large ends the execution: no Retry or Catch sees that error.        *)
Return(e) ==
    /\ event' = e
    /\ state' = IF Payload(e) <= PayloadIds THEN NextState(state)
                ELSE "DataLimitExceeded"
    /\ retries' = 0
    /\ Fresh
    /\ UNCHANGED context

(* The current state has been entered and its invocation stands at p.      *)
At(s, p) == state = s /\ step = p

\* What a step inside a handler leaves alone.
Inside == UNCHANGED <<context, state, retries, event>>

-----------------------------------------------------------------------------
(* ingest_handler                                                          *)

(* The scheduled input names no list: its source, the string "scheduled",  *)
(* is neither JSON nor CSV, and the handler raises IngestionError.         *)
ListRefused == trigger = "schedule" \/ "list" \in rejects

(* The valid ids of a list that is not refused.                            *)
IngestReturns(V) ==
    /\ At("Ingestion", "start")
    /\ ~ListRefused
    /\ V # {}
    /\ Cardinality(V) <= MaxValidIds
    /\ Return([event EXCEPT !.valid = V])
    /\ UNCHANGED stores

-----------------------------------------------------------------------------
(* extract_handler: the users one after the other, then their objects      *)

BeginExtract ==
    /\ At("Extraction", "start")
    /\ step' = "extract"
    /\ todo' = event.valid
    /\ UNCHANGED mem
    /\ Inside
    /\ UNCHANGED stores

(* The user has sessions, or has none, or the extraction raised, which the *)
(* handler takes for no sessions, an authentication error included.        *)
ExtractUser(u) ==
    /\ At("Extraction", "extract")
    /\ u \in todo
    /\ todo' = todo \ {u}
    /\ mem' \in {mem, mem \cup {u}}
    /\ UNCHANGED step
    /\ Inside
    /\ UNCHANGED stores

ExtractedAll ==
    /\ At("Extraction", "extract")
    /\ todo = {}
    /\ step' = "persist"
    /\ todo' = mem
    /\ UNCHANGED mem
    /\ Inside
    /\ UNCHANGED stores

PersistSessions(u) ==
    /\ At("Extraction", "persist")
    /\ u \in todo
    /\ raw' = raw \cup {u}
    /\ todo' = todo \ {u}
    /\ UNCHANGED <<step, mem>>
    /\ Inside
    /\ UNCHANGED <<features, versions, predObj, predTable, explObj,
                   bedrockObj, reports>>

ExtractReturns ==
    /\ At("Extraction", "persist")
    /\ todo = {}
    /\ Return([event EXCEPT !.withData = mem])
    /\ UNCHANGED stores

-----------------------------------------------------------------------------
(* feature_handler                                                         *)

(* F: the users whose object can be read and has sessions enough.          *)
LoadAndCompute(F) ==
    /\ At("FeatureEngineering", "start")
    /\ F \subseteq event.withData \cap raw
    /\ mem' = F
    /\ step' = "put"
    /\ UNCHANGED todo
    /\ Inside
    /\ UNCHANGED stores

PutFeatures ==
    /\ At("FeatureEngineering", "put")
    /\ features' = mem
    /\ step' = "return"
    /\ UNCHANGED <<todo, mem>>
    /\ Inside
    /\ UNCHANGED <<raw, versions, predObj, predTable, explObj, bedrockObj,
                   reports>>

\* Mutant: the key is removed together with the heavy fields.
FeatureReturnsNoKey ==
    /\ At("FeatureEngineering", "return")
    /\ Return([event EXCEPT !.valid = {}, !.withData = {}])
    /\ UNCHANGED stores

(* The vectors themselves stay out of the event, only their key goes on.   *)
FeatureReturns ==
    /\ At("FeatureEngineering", "return")
    /\ Return([event EXCEPT !.fvKey = TRUE, !.fvCount = Cardinality(mem),
                            !.valid = {}, !.withData = {}])
    /\ UNCHANGED stores

-----------------------------------------------------------------------------
(* store_handler: the vectors in the event, not those behind the key       *)

BeginStore ==
    /\ At("StoreFeatures", "start")
    /\ step' = "store"
    /\ todo' = event.vectors
    /\ UNCHANGED mem
    /\ Inside
    /\ UNCHANGED stores

(* store() returns a version or raises, with or without having stored the  *)
(* vector, and lost answers make it store copies, one per attempt at most  *)
(* (see StoreFeatures!CopiesPerTry); the loop goes on in either case.      *)
StoreVector(u) ==
    /\ At("StoreFeatures", "store")
    /\ u \in todo
    /\ todo' = todo \ {u}
    /\ \/ /\ \E n \in 1 .. StoreCopies :
                versions' = [versions EXCEPT ![u] = @ + n]
          /\ mem' \in {mem, mem \cup {u}}
       \/ UNCHANGED <<versions, mem>>
    /\ UNCHANGED step
    /\ Inside
    /\ UNCHANGED <<raw, features, predObj, predTable, explObj, bedrockObj,
                   reports>>

StoreReturns ==
    /\ At("StoreFeatures", "store")
    /\ todo = {}
    /\ Return([event EXCEPT !.vectors = mem])
    /\ UNCHANGED stores

-----------------------------------------------------------------------------
(* predict_handler, the task of all four PredictStates                     *)

InPredict(p) == state \in PredictStates /\ step = p

VectorsToPredict ==
    IF event.vectors # {} \/ ~event.fvKey THEN event.vectors ELSE features

LoadVectors ==
    /\ InPredict("start")
    /\ VectorsToPredict # {}
    /\ mem' = VectorsToPredict
    /\ step' = "put"
    /\ UNCHANGED todo
    /\ Inside
    /\ UNCHANGED stores

\* Mutant: no vectors, and the empty result is written like any other.
PredictNothingStored ==
    /\ InPredict("start")
    /\ VectorsToPredict = {}
    /\ predObj' = {}
    /\ Return([event EXCEPT !.predKey = FALSE, !.predCount = 0,
                            !.vectors = {}, !.fvKey = FALSE])
    /\ UNCHANGED <<raw, features, versions, predTable, explObj, bedrockObj,
                   reports>>

PredictNothing ==
    /\ InPredict("start")
    /\ VectorsToPredict = {}
    /\ Return([event EXCEPT !.predKey = FALSE, !.predCount = 0,
                            !.vectors = {}, !.fvKey = FALSE])
    /\ UNCHANGED stores

(* The model was loaded and the scores computed anew in this invocation:   *)
(* what is put in place of an earlier object is about the same users, with *)
(* new timestamps and perhaps other scores (module Predictions).           *)
PutPredictions ==
    /\ InPredict("put")
    /\ predObj' = mem
    /\ step' = "rows"
    /\ todo' = mem
    /\ UNCHANGED mem
    /\ Inside
    /\ UNCHANGED <<raw, features, versions, predTable, explObj, bedrockObj,
                   reports>>

\* Mutant: the rows are written before the object.
PutRowFirst(u) ==
    /\ InPredict("put")
    /\ u \in mem
    /\ predTable' = predTable \cup {u}
    /\ UNCHANGED <<step, todo, mem>>
    /\ Inside
    /\ UNCHANGED <<raw, features, versions, predObj, explObj, bedrockObj,
                   reports>>

PutRow(u) ==
    /\ InPredict("rows")
    /\ u \in todo
    /\ predTable' = predTable \cup {u}
    /\ todo' = todo \ {u}
    /\ UNCHANGED <<step, mem>>
    /\ Inside
    /\ UNCHANGED <<raw, features, versions, predObj, explObj, bedrockObj,
                   reports>>

(* An error of the table is logged, the rows still to do are dropped.      *)
PredictReturns ==
    /\ InPredict("rows")
    /\ Return([event EXCEPT !.predKey = TRUE, !.predCount = Cardinality(mem),
                            !.vectors = {}, !.fvKey = FALSE])
    /\ UNCHANGED stores

-----------------------------------------------------------------------------
(* shap_handler: always the object of the execution, whatever was predicted*)

SkipShap ==
    /\ At("Explainability", "start")
    /\ Return([event EXCEPT !.explKey = FALSE, !.explCount = 0])
    /\ UNCHANGED stores

\* Mutant: the vectors are taken from the event, which predict emptied.
ComputeShapFromEvent ==
    /\ At("Explainability", "start")
    /\ features # None
    /\ mem' = event.vectors
    /\ step' = "put"
    /\ UNCHANGED todo
    /\ Inside
    /\ UNCHANGED stores

ComputeShap ==
    /\ At("Explainability", "start")
    /\ features # None
    /\ mem' = features
    /\ step' = "put"
    /\ UNCHANGED todo
    /\ Inside
    /\ UNCHANGED stores

PutShap ==
    /\ At("Explainability", "put")
    /\ explObj' = mem
    /\ step' = "return"
    /\ UNCHANGED <<todo, mem>>
    /\ Inside
    /\ UNCHANGED <<raw, features, versions, predObj, predTable, bedrockObj,
                   reports>>

\* Mutant: the key is put into the event before the object is there.
ShapReturnsUnsaved ==
    /\ At("Explainability", "put")
    /\ Return([event EXCEPT !.explKey = TRUE, !.explCount = Cardinality(mem)])
    /\ UNCHANGED stores

ShapReturns ==
    /\ At("Explainability", "return")
    /\ Return([event EXCEPT !.explKey = TRUE, !.explCount = Cardinality(mem)])
    /\ UNCHANGED stores

-----------------------------------------------------------------------------
(* bedrock_handler: the predictions in the event                           *)

PutExplanations ==
    /\ At("BedrockExplanations", "start")
    /\ bedrockObj' = event.predictions
    /\ step' = "return"
    /\ UNCHANGED <<todo, mem>>
    /\ Inside
    /\ UNCHANGED <<raw, features, versions, predObj, predTable, explObj,
                   reports>>

BedrockReturns ==
    /\ At("BedrockExplanations", "return")
    /\ Return(event)
    /\ UNCHANGED stores

-----------------------------------------------------------------------------
(* report_handler: the predictions in the event, three files in this order *)

BeginReports ==
    /\ At("GenerateReports", "start")
    /\ mem' = event.predictions
    /\ todo' = ReportFiles
    /\ step' = "upload"
    /\ Inside
    /\ UNCHANGED stores

UploadReport(f) ==
    /\ At("GenerateReports", "upload")
    /\ f \in todo
    /\ \A g \in todo : f <= g
    /\ reports' = reports \cup {f}
    /\ todo' = todo \ {f}
    /\ UNCHANGED <<step, mem>>
    /\ Inside
    /\ UNCHANGED <<raw, features, versions, predObj, predTable, explObj,
                   bedrockObj>>

ReportReturns ==
    /\ At("GenerateReports", "upload")
    /\ todo = {}
    /\ Return(event)
    /\ UNCHANGED stores

-----------------------------------------------------------------------------
(* Failures                                                                *)

(* What raises without a fault of the environment: a list that is refused, *)
(* a score that is (each try loads the model again, so it may, not must),  *)
(* and SHAP values of no vectors at all.                                   *)
MustOrMayRaise ==
    \/ At("Ingestion", "start") /\ ListRefused
    \/ InPredict("start") /\ VectorsToPredict # {} /\ "scores" \in rejects
    \/ At("Explainability", "put") /\ mem = {}

(* The invocation raises, times out or is killed.  Retry starts it again   *)
(* with the event of the state; when the retries are used up, Catch leads  *)
(* to PipelineFailed.                                                      *)
TaskFails ==
    /\ state \in TaskStates
    /\ faulty \/ MustOrMayRaise
    /\ IF retries < MaxAttempts(state)
       THEN retries' = retries + 1 /\ UNCHANGED state
       ELSE retries' = 0 /\ state' = "PipelineFailed"
    /\ Fresh
    /\ UNCHANGED <<context, event, stores>>

-----------------------------------------------------------------------------

Extract == BeginExtract \/ ExtractedAll \/ ExtractReturns
             \/ \E u \in Users : ExtractUser(u) \/ PersistSessions(u)

Engineer == \/ \E F \in SUBSET Users : LoadAndCompute(F)
            \/ PutFeatures
            \/ FeatureReturns

Store == BeginStore \/ StoreReturns \/ \E u \in Users : StoreVector(u)

Predict == LoadVectors \/ PredictNothing \/ PutPredictions \/ PredictReturns
             \/ \E u \in Users : PutRow(u)

Explain == SkipShap \/ ComputeShap \/ PutShap \/ ShapReturns
             \/ PutExplanations \/ BedrockReturns

Report == BeginReports \/ ReportReturns
            \/ \E f \in ReportFiles : UploadReport(f)

Next ==
    \/ \E V \in SUBSET Users : IngestReturns(V)
    \/ Extract
    \/ Engineer
    \/ Store
    \/ Predict
    \/ Explain
    \/ Report
    \/ TaskFails

Spec == Init /\ [][Next]_vars

(* Step Functions runs an execution until it ends: an invocation goes on   *)
(* or its Lambda timeout makes it fail.                                    *)
FairSpec == Spec /\ WF_vars(Next)

-----------------------------------------------------------------------------
(* Properties                                                              *)

Steps == {"start", "extract", "persist", "put", "return", "store", "rows",
          "upload"}

(* Type invariant.                                                         *)
TypeOK ==
    /\ trigger \in Triggers
    /\ mode \in {"train", "predict"}
    /\ faulty \in BOOLEAN
    /\ rejects \subseteq RejectionKinds
    /\ state \in TaskStates \cup FinalStates
    /\ retries \in Nat
    /\ event \in Event
    /\ step \in Steps
    /\ todo \in (SUBSET Users) \cup (SUBSET ReportFiles)
    /\ mem \in SUBSET Users
    /\ raw \in SUBSET Users
    /\ features \in Object
    /\ versions \in [Users -> Nat]
    /\ predObj \in Object
    /\ predTable \in SUBSET Users
    /\ explObj \in Object
    /\ bedrockObj \in Object
    /\ reports \in SUBSET ReportFiles

Stored(object, count) == object # None /\ Cardinality(object) = count

(* R17.4: whenever the event names an object, or the users whose sessions  *)
(* are stored, these objects exist and hold as much as the event counts,   *)
(* whatever attempts broke down before.                                    *)
EventPointsToStored ==
    /\ event.withData \subseteq raw
    /\ event.fvKey => Stored(features, event.fvCount)
    /\ event.predKey => Stored(predObj, event.predCount)
    /\ event.explKey => Stored(explObj, event.explCount)

(* A row of the predictions table always has its prediction in S3 too:     *)
(* the dashboard, which reads the table, shows nothing S3 does not hold.   *)
TableNeverAhead == predTable # {} => predObj # None /\ predTable \subseteq predObj

(* R17.5: unless the start brought its own vectors, predictions and SHAP   *)
(* explanations are about exactly the users in the feature object, and     *)
(* those all have their sessions stored.                                   *)
Provenance ==
    (trigger # "manual" /\ features # None) =>
        /\ features \subseteq raw
        /\ predObj \in {None, features}
        /\ explObj \in {None, features}

(* R17.4: predictions and SHAP values, once in S3, are never lost, and the *)
(* users they are about stay the same.  They may be computed anew, but only*)
(* by a retry of the state that put them: neither a later state, which in  *)
(* train mode runs the predict handler again, nor a first try replaces an  *)
(* object.                                                                 *)
ResultsAreKept ==
    [][ /\ predObj # None =>
              /\ predObj' = predObj
              /\ InPredict("put") /\ step' = "rows" => retries > 0
        /\ explObj # None =>
              /\ explObj' = explObj
              /\ At("Explainability", "put") /\ step' = "return" => retries > 0
      ]_vars

(* Without faults an uploaded list leads to predictions for every user     *)
(* with features and to all three reports, or to no prediction at all.     *)
(* That is so only where no user has features, where the list is refused   *)
(* (then nothing is stored either) or a score is (then no user gets a      *)
(* prediction, however good the other scores); besides, the event may      *)
(* outgrow what a state can carry.                                         *)
QuietUploadDelivers ==
    (trigger = "s3" /\ ~faulty)
        ~> \/ /\ state = "Succeeded"
              /\ predObj = features
              /\ reports = ReportFiles
           \/ /\ state \in FinalStates /\ predObj = None /\ predTable = {}
              /\ \/ features = {}
                 \/ state = "PipelineFailed" /\ "list" \in rejects /\ raw = {}
                 \/ state = "PipelineFailed" /\ "scores" \in rejects
           \/ state = "DataLimitExceeded" /\ Payload(event) > PayloadIds

-----------------------------------------------------------------------------
(* What a document of the repository says and the code does not do         *)

(* R9.1, store_handler.py:4: the vectors are in the Feature Store before   *)
(* the inference that uses them.                                           *)
StoredBeforePrediction ==
    (state = "BatchPredict" /\ step # "start") =>
        \A u \in mem : versions[u] > 0
=============================================================================
