----------------------------- MODULE MCLocalStages -----------------------------
(* The stages that work on data of their own, each a machine that runs     *)
(* alone: one of them is started, the others stay as they are.             *)
EXTENDS Ingestion, PipelineRunner, Explanations, FeatureEngineer

VARIABLE started

localVars == <<started, ingestVars, runVars, explVars, engineVars>>

-----------------------------------------------------------------------------
(* Ingestion: lists of up to three rows                                    *)

CONSTANTS upper, lower, other, third, ill

LowerCase == [s \in Spellings |-> IF s = upper THEN lower ELSE s]

Dates1 == {NoDate, "2024-01-01"}
Dates2 == {NoDate, "2024-06-30"}

SomeRows ==
    [id : {upper, lower, other}, from : Dates1, to : Dates2]
        \cup {[id |-> third, from |-> NoDate, to |-> NoDate],
              [id |-> ill, from |-> "2024-02-01", to |-> NoDate],
              [id |-> NoId, from |-> "2024-02-01", to |-> "2024-02-01"],
              [id |-> lower, from |-> Null, to |-> Null]}

UpToThreeRows == UNION {[1 .. n -> SomeRows] : n \in 0 .. 3}

EventDates == {[from |-> NoDate, to |-> NoDate],
               [from |-> NoDate, to |-> "2024-12-31"],
               [from |-> "2023-12-31", to |-> "2024-12-31"]}

-----------------------------------------------------------------------------
(* The runner: STAGE_DATA_CONTRACT and handlers that break it in one place *)

TrainOrder == <<"ingestion", "extraction", "feature-engineering",
                "store-features">>

PredictOrder == TrainOrder \o <<"ml-inference", "explainability",
                                "bedrock-explanation", "report-generation">>

CodeOrder == [m \in {"train", "predict"} |->
                IF m = "train" THEN TrainOrder ELSE PredictOrder]

StageNames == {PredictOrder[i] : i \in DOMAIN PredictOrder}

CodeRequires ==
    [s \in StageNames |->
        CASE s = "ingestion" -> {"source"}
          [] s = "extraction" -> {"valid_user_ids", "execution_id"}
          [] s = "feature-engineering" -> {"extracted_sessions", "execution_id"}
          [] s = "store-features" -> {"feature_vectors", "execution_id"}
          [] s = "ml-inference" -> {"feature_vectors", "execution_id"}
          [] s = "explainability" ->
                {"predictions", "feature_vectors", "execution_id"}
          [] s = "bedrock-explanation" ->
                {"predictions", "explainability_results", "feature_vectors",
                 "execution_id"}
          [] s = "report-generation" ->
                {"predictions", "explainability_results", "explanations",
                 "execution_id"}]

CodeProduces ==
    [s \in StageNames |-> {"stage_completed"} \cup
        CASE s = "ingestion" -> {"valid_user_ids", "execution_id"}
          [] s = "extraction" ->
                {"extracted_sessions", "extracted_data_s3_prefix",
                 "users_extracted"}
          [] s = "feature-engineering" ->
                {"feature_vectors", "users_with_features"}
          [] s = "store-features" -> {"stored_feature_versions", "users_stored"}
          [] s = "ml-inference" ->
                {"predictions", "predictions_count", "model_version_used"}
          [] s = "explainability" ->
                {"explainability_results", "shap_success_count"}
          [] s = "bedrock-explanation" ->
                {"explanations", "explanation_success_count"}
          [] s = "report-generation" -> {"report_s3_paths"}]

FieldNames == {"source"} \cup UNION {CodeProduces[s] : s \in StageNames}

Keeping == [s \in StageNames |->
              [adds |-> CodeProduces[s], drops |-> {}, raises |-> FALSE]]

(* The handlers of the repository: extraction, feature engineering,        *)
(* inference and explainability keep to S3 what the contract names.        *)
RealHandlers ==
    [s \in StageNames |->
        [adds |-> CodeProduces[s] \ {"extracted_sessions", "feature_vectors",
                                     "predictions", "explainability_results"},
         drops |-> CASE s = "feature-engineering" -> {"valid_user_ids"}
                     [] s = "ml-inference" -> {"feature_vectors"}
                     [] OTHER -> {},
         raises |-> FALSE]]

SomeHandlers ==
    {Keeping, RealHandlers}
      \cup {[s \in StageNames \ {t} |-> Keeping[s]] : t \in StageNames}
      \cup {[Keeping EXCEPT ![s].raises = TRUE] : s \in StageNames}
      \cup {[Keeping EXCEPT ![s].adds = @ \ {f}] : s \in StageNames, f \in FieldNames}
      \cup {[Keeping EXCEPT ![s].drops = {f}] : s \in StageNames, f \in FieldNames}

SomeInputs == {{"execution_id"}, {"execution_id", "source"}}

-----------------------------------------------------------------------------
(* Bedrock: up to three predictions                                        *)

ThreeTiers == UNION {[1 .. n -> {"Low", "Medium", "High"}] : n \in 1 .. 3}

SmallBatches ==
    {[tiers |-> t, shap |-> s] : t \in ThreeTiers,
        s \in UNION {[1 .. n -> {"a", Failed, Broken}] : n \in 0 .. 2}}

FittingBatches == {b \in SmallBatches : Len(b.shap) <= Len(b.tiers)}

-----------------------------------------------------------------------------
(* Features: six sessions that end around the ends of weeks, in seconds    *)

Never == -1

Day == 86400
Hour == 3600

Monday == 3 * Day + 23 * Hour

(* After the first session: at once, just before and at the end of a week, *)
(* in weeks 1 and 2, 27 days and two hours after it (28 dates later), just *)
(* before and at the end of the fourth week, and in the sixth.             *)
SomeTimes == {Never} \cup {Monday + t : t \in {0, 7 * Day - 1, 7 * Day, 8 * Day,
                 20 * Day, 27 * Day + 2 * Hour, 28 * Day - 1, 28 * Day, 42 * Day}}

InOrder(n) == {t \in [1 .. n -> SomeTimes] : \A i \in 1 .. n - 1 : t[i] <= t[i + 1]}

Contents == {<<"EPISODE", "EPISODE", "SPORT", "SPORT", "LIVE", "SHOW">>,
             <<"LIVE", "SHOW", "LIVE", "MOVIE", "SPORT", "MOVIE">>,
             <<"MOVIE", "MOVIE", "MOVIE", "MOVIE", "MOVIE", "MOVIE">>}

Ordinary ==
    {[i \in 1 .. n |-> [end |-> t[i], zoned |-> TRUE, content |-> c[i], odd |-> FALSE]] :
        c \in Contents, <<n, t>> \in {<<4, x>> : x \in InOrder(4)} \cup
                                     {<<6, x>> : x \in InOrder(6)}}

(* Texts without a zone from some session on, and a field of another type. *)
Irregular ==
    {[i \in 1 .. 6 |-> [end |-> IF i = u THEN Never ELSE Monday + i * 6 * Day,
                       zoned |-> i < z, content |-> "LIVE", odd |-> i = o]] :
        u \in 0 .. 6, z \in 1 .. 7, o \in 0 .. 6}

SomeSubscribers == Ordinary \cup Irregular

-----------------------------------------------------------------------------
(* What the machines are that are not started                              *)

IngestIdle ==
    /\ file = <<>> /\ format = "csv" /\ given = Undated /\ line = 1
    /\ ids = <<>> /\ dates = [s \in Spellings |-> Undated] /\ taken = 0 /\ at = "parse"
    /\ valid = <<>> /\ global = Undated /\ asked = <<>>

RunIdle ==
    /\ runMode = "train" /\ input = {} /\ handlers = Keeping /\ fields = {}
    /\ next = 1 /\ checked = FALSE /\ results = <<>> /\ outcome = "running"

ExplIdle ==
    /\ batch = [tiers |-> <<>>, shap |-> <<>>] /\ killable = TRUE
    /\ bpc = "loop" /\ texts = <<>> /\ calls = 0 /\ good = 0 /\ bad = 0
    /\ tried = 0 /\ saved = Unsaved

EngineIdle == sessions = <<>> /\ vector = NoVector /\ computed = "no"

LocalInit ==
    \/ started = "ingest" /\ IngestInit /\ RunIdle /\ ExplIdle /\ EngineIdle
    \/ started = "run" /\ RunInit /\ IngestIdle /\ ExplIdle /\ EngineIdle
    \/ started = "bedrock" /\ ExplInit /\ IngestIdle /\ RunIdle /\ EngineIdle
    \/ started = "engine" /\ EngineInit /\ IngestIdle /\ RunIdle /\ ExplIdle

IngestStep ==
    /\ started = "ingest"
    /\ IngestNext
    /\ UNCHANGED <<started, runVars, explVars, engineVars>>

RunStep ==
    /\ started = "run"
    /\ RunNext
    /\ UNCHANGED <<started, ingestVars, explVars, engineVars>>

BedrockStep ==
    /\ started = "bedrock"
    /\ ExplStep
    /\ UNCHANGED <<started, ingestVars, runVars, engineVars>>

BedrockFault ==
    /\ started = "bedrock"
    /\ BedrockKilled
    /\ UNCHANGED <<started, ingestVars, runVars, engineVars>>

EngineStep ==
    /\ started = "engine"
    /\ EngineNext
    /\ UNCHANGED <<started, ingestVars, runVars, explVars>>

LocalNext == IngestStep \/ RunStep \/ BedrockStep \/ BedrockFault \/ EngineStep

LocalSpec == LocalInit /\ [][LocalNext]_localVars /\ WF_localVars(BedrockStep)
=============================================================================
