# A formal model of the churn prediction system

TLA+ modules that model the core of this repository, TLC configurations that
check them on small instances, and TLAPS proofs of the properties that matter
most for every value of the constants. Paths below are relative to the
repository; the Python package is `src/`.

The program predicts which subscribers will cancel: it takes a list of user
ids, extracts their viewing sessions from the NPAW API, computes feature
vectors, stores them, predicts, explains and reports. It is deployed
(`infra/app.py` deploys `ChurnPredictionStack` only) as a Step Functions state
machine with one Lambda handler per stage. `src/ml/` is a library beside it for
SageMaker training, batch inference and the model registry; no deployed handler
calls it.

## 1. Inventory

| Component (source) | State it keeps | Operations | Meets | Hard behaviour | What makes it correct |
|---|---|---|---|---|---|
| Feature Store (`store/feature_store.py`) | DynamoDB items (user_id, version) | store, get_history, get_latest, get_version | store_handler; other Lambdas on the same table | no lock, optimistic retry over eventually consistent queries, lost answers, paging beside writers | versions 1, 2, 3… without gap, never overwritten; the returned version is the caller's; a history lists the versions it looks for, none skipped or twice |
| NPAW extractor (`extractors/npaw_extractor.py`) | tasks, semaphore, rate lock, counters, results | extract_user_sessions, extract_batch | NPAW API, extract_handler | asyncio interleavings, retries, cancellation in any await, offset paging over a growing list | request spacing, bounded parallelism, an authentication error aborts everything, no session skipped, complete accounting |
| State machine (`orchestrator/step_functions.py`, `infra/stacks/churn_prediction_stack.py`) | state, retries, event | start, Retry, Catch, Choice | all handlers, S3 and schedule triggers | retried invocations, lost local state, payload limit | ends; event names only what is stored; results stay about the same users |
| Lambda handlers (`orchestrator/handlers/`) | S3 objects, rows, report files; nothing in memory survives | one `handler` each | S3, DynamoDB, Bedrock, the stores | breaking down between two writes; fields one stage drops and the next one reads | outputs of a stage agree with each other and with what was stored before |
| Ingestion (`extractors/ingestion.py`) | none | parse, validate, deduplicate | ingest_handler, extract_handler (dates per user) | boundaries (50,000 ids), mixed case, one user in several rows | every well-formed id once, and its own period |
| Feature engineering (`features/feature_engineer.py`) | none | compute, trends, abandonment | feature_handler | rounding, ends of weeks, weeks without sessions | trends compare the ends of the period; no user is lost to rounding |
| Model Registry (`ml/model_registry.py`) | SageMaker package statuses | approve, reject, rollback, delete, list, get_active | batch inference, predictions table | several calls per operation, no transaction | an approved model always remains; models in use stay |
| Batch inference (`ml/batch_inference.py`) | prediction rows | process | SageMaker, predictions table | the active model changes meanwhile; short output; partial writes | rows name the model that ran |
| Training (`ml/sagemaker_pipeline.py`) | jobs, packages, metadata in S3 | train, predict_batch, get_active_model | SageMaker, S3 | failure between two of its steps, unbounded polling, splits of few churned users | both classes in every split; a registered model has its data, its artifact and metrics of its own |
| Explanations (`explainability/`, `explanations/`) | none | SHAP, Bedrock with retries | their handlers | throttling, matching by position | each explanation is its user's |
| Reports (`reports/report_generator.py`) | three files | generate, upload | report_handler | partial upload | report about the predicted users |
| Local runner (`orchestrator/pipeline.py`) | stage results | run, validate stage data | the handlers | contracts of a stage against what the previous one returns | stages fit together |
| Dashboard (`dashboard/`) | none | scans, filters | predictions table | pages of a filtered, eventually consistent scan while rows are written | what was there is shown; the latest is the latest |
| Config, logging, monitoring (`common/`) | none | validate, emit | all | rounding at the tier boundaries | tier and probability agree |

Every hazard found in this code, with its line and the properties that cover
it, is in `PROJECT.json` under "hazards".

## 2. The modules

```
AppendOnlyLog                         NPAWExtractor
   ^ refined by                           |
FeatureStore                              | abstracted to one step per user
   ^ refined by      \                    |
StoreFeatures         \ one step per      v
(handlers over one     `-- vector --->  Pipeline  <-- extended by --  ExecutionWatch
 store)                                   |          a caller that polls it
                                          | its stages, each with the data
                                          v it abstracts from:
        Ingestion   FeatureEngineer   Predictions (and Dashboard)   Explanations

PipelineRunner   the same stages in one process, held to a data contract

Training  -- abstracted to one step, RegisterModel -->  ModelRegistry (with
                                                        batch inference)
```

`MCLocalStages` puts `Ingestion`, `PipelineRunner`, `Explanations` and
`FeatureEngineer` side by side in one run: four machines that share nothing, of
which a behaviour starts one.

Each `X_proofs` module extends `X` with theorems, `LocalStages_proofs` the four modules
of `MCLocalStages`, and `Pipeline_proofs` also `ExecutionWatch`; each `MCX` module adds
the small definitions its `.cfg` files need. `PROJECT.json` maps every definition that
models code to its lines. Definitions commented "Mutant:" are deliberately broken forms
of the action that follows. They belong to no specification: each shows that a property
would notice that bug, and `PROJECT.json` pairs them.

### FeatureStore and AppendOnlyLog

`items` is the table; a `Writer` is one Lambda invocation in `store()`.
`QueryNextVersion` is `_get_next_version()`; with `StaleReads` it may see any
earlier state of the partition, because the code never asks for
`ConsistentRead`. `PutAccepted` and `PutRejected` are the two outcomes of
`put_item` under `attribute_not_exists`, the latter going back to the query or
giving up at `MaxAttempts`. `PutAnswerLost` is the case nobody tests: the put
takes effect, its answer is lost, and the SDK's repetition then meets the
writer's own item. `StoreError` is any other error or the end of the Lambda.
`StartHistory`/`ReadPage` are `get_history()` with its `from_date` and its
`LastEvaluatedKey`: every page may come from another replica, is filtered after it
was read, so that it may be empty without being the last, and is appended to the list
`got`. `lost`, `lagged`, `base` and `floor` are history variables. A vector is abstracted
to the identity of the call that stores it and the date it was generated (`Generated`),
which need not follow the order of the versions.

`AppendOnlyLog` is the promise of Requirement 9: per user a sequence that only
grows at its end. `FeatureStore!Log` is the refinement mapping, and
`ImplementsLog` that every step appends one entry or none. Serialisation to
Decimal is not modelled.

### StoreFeatures

`store_handler` of several executions over the one `FeatureStore`, which it extends: a
`Writer` is an execution's StoreFeatures state, `CallStore` starts
`FeatureStore!StartStore` for the vector the loop has come to, `StoreProceeds` lets
`store()` take one of its own steps, `VectorStored` and `VectorFailed` are what the
handler does with its return or its exception. `HandlerKilled` ends the Lambda at any
point; what it stored stays, and the Retry of the state starts the list again. The code
stores one vector after the other, so an execution has one call at a time. Nothing
checks that a list names a subscriber once: `stored` keeps the version of the last
vector (`WithVersion`). `sent` is a history variable that says which vector a call was
given. This module replaces the estimate `StoreCopies` of `Pipeline` by the real thing:
`CopiesPerTry` is where that bound comes from.

### NPAWExtractor

asyncio switches tasks only at an await, so an action is what a task does between two
awaits. `pc[u]` says where a task waits: for a permit, for the rate lock, in the sleep
under that lock, for an answer, in a back-off, or for the HTTP session to close. `main`
is `extract_batch()` around `gather()`. A task under cancellation takes no step but
`TaskCancelled`, wherever it stands. The API's list of a user's sessions grows at its
head (`SessionEnds`), which shifts the offsets of later pages. A 200 answer whose body
holds no sessions (`EmptyAnswer`) is an empty page to `_parse_sessions`, and an empty
page is the last: the extraction ends early and counts as a success (`outcome = "cut"`).
Time is counted in ticks, only as far as the rate limit needs it; back-off lengths are
left open, which allows every duration.

### Pipeline

One execution of the deployed state machine. `state`, `retries` and `event` are
what Step Functions keeps; `step`, `todo` and `mem` what the running invocation
holds in memory; the other variables are the S3 objects, table rows and
versions it leaves behind. A handler is cut at its external writes, and
`TaskFails` may strike between any two: the invocation's memory and its changes
to the event are gone, its writes are not, and the state is entered again with
its old event until `MaxAttempts(state)` is used up. `Return(e)` moves on and
ends the execution if the event exceeds the payload limit. Data is abstracted
to the set of users it is about, which is what the stages can lose or mix up.

Where the handlers are surprising the model follows them: `store_handler`
stores `event["feature_vectors"]`, which the stage before left out of the
event; `bedrock_handler` and `report_handler` read `event["predictions"]`, which
no stage sends; one handler serves the four prediction states; the extraction
catches every exception; the weekly rule's input holds no list. Executions
started by hand (`trigger = "manual"`) may carry vectors and predictions of
their own, so that those paths are exercised as well. `rejects` says what of an
execution's data the code refuses: the list (no valid id, too many, no `user_id`
column, a CSV row too short) or the scores (the validator of `PredictionResult`, which
`Predictions` has in numbers).

The per-user extraction is one step with three outcomes (what `NPAWExtractor`
shows of `extract_user_sessions`; the handler calls it one user at a time),
`store()` one step that may leave up to `StoreCopies` versions, whether it
returns or raises (what `StoreFeatures!CopiesPerTry` shows). Two executions share
no key except in the Feature Store and in the dashboard's scans, which
`StoreFeatures` and `Predictions` are about, so one is enough here.

`ExecutionWatch` extends the execution with a caller in
`PipelineOrchestrator.wait_for_completion()`: it looks at the time, asks for the
status, sleeps, and returns, raises `TimeoutError`, or passes on the error of
`get_execution_status()`. The execution takes its steps in between. Time is
what the loop sees of it, whether the deadline has passed, which may become true
between any two steps.

### Predictions

`predict_handler` with the numbers `Pipeline` leaves out: a score is an integer
in units of 1/100,000, the probability it is saved with is `round(score, 4)`, the
tier is that of the unrounded score, and `Consistent` is the validator of
`PredictionResult`. A try loads the model, whichever
there is by then (`Scores`), and computes all predictions with one timestamp (`Predict`,
or `PredictRejected` if the validator refuses one of them), puts the object,
writes the rows one by one, and may be killed before any of these; an error of
the table is only logged. Beside two such executions the dashboard scans the table
(`data_source.py`) for a tier, a user or a period (`Queries`): a page is read from the
table or from a replica that lags, is filtered after the reading, and may be empty
without being the last. Scores
whose fifth digit is a 5 are left out (`PredictionsAssumption`): which way Python
rounds them depends on their binary representation.

### Ingestion, PipelineRunner, Explanations, FeatureEngineer

* `Ingestion` goes through the rows of an uploaded list as `_parse_csv` and
  `_parse_json` do, then through the ids it read (`TakeId`: the code's two loops, which
  deduplicate and validate, in one), limits their number, and follows the dates of the
  rows into the event and into the periods `extract_handler` asks for. An id is a
  spelling with a normal form, as `.lower()` gives it.
* `PipelineRunner` is `run()` for any contract, input and handlers: an event is
  the set of its fields, a handler what it adds, drops or whether it raises; one may
  be missing. TLC takes `STAGE_DATA_CONTRACT` as it is in the code, handlers that break
  it in one place, and what the repository's own handlers return.
* `Explanations` is `bedrock_handler` around `generate_explanation()`, call by
  call, with its `MAX_RETRIES` and the state's Retry around both. A text is the SHAP
  entry it was asked with, so that a text for another position would show. An entry may be
  missing or one `FeatureContribution` cannot be built from (`Broken`), which raises
  where only the `try` around the whole handler catches it, to raise it again (`RebuildRaises`). The code looks entries up by
  position and never compares their user; so does the model.
* `FeatureEngineer` is `compute()` where it depends on the calendar and on
  counts: the minimum of sessions, the period, weeks counted from the instant of the first
  session, the trend, and the percentages of content in units of 1/10,000 with the
  validator of `FeatureVector`. Times are instants in a unit left open (`WeekLength` of
  them make a week), as the code divides `total_seconds()` and rounds no day. `Unfit` are
  the sessions `compute()` raises on: times with and without a zone, which do not
  compare, and fields of a type it does not expect.

### ModelRegistry

`status` is SageMaker's approval status of each package, numbered by creation.
`call[o]` is the `ModelRegistry` operation an operator is in, one step per
service call: `rollback` is check, list, describe, check again, approve, check
the old one, reject. `batch[b]` is one `BatchInferenceProcessor.process()`,
`rows` the predictions table. `RegisterModel` is the end of training.
`ScanPredictions` models `Limit=1` as DynamoDB applies it: one row is evaluated,
then filtered. Rows are written in any order, as `batch_writer` puts
unprocessed items back at the end of its buffer. `PipelineRow` is a row of the
deployed pipeline, whose `model_version` is an S3 key and names no package.

### Training

One call of `SageMakerMLPipeline.train()`. `pc` says where the call stands: each
step is one call to S3 or SageMaker, `Upload` the next `put_object` in the order
`After`, and `Fails` the exception any of them may raise. The training job and
the batch transform of the evaluation run beside the call (`JobEnds`,
`TrialEnds`), also when it has raised. All names contain the call's version id, so
that two calls share only the group of packages, where `ModelRegistry` takes the
whole of `train()` as `RegisterModel`.

A set of records is a pair of numbers, its churned and its active users.
`Stratifiable` and `Cuts` say what the code's use of scikit-learn's
`train_test_split(stratify=...)` rests on: a class of one, or a part smaller than
the number of classes, raises; otherwise the first part has of each class its
share rounded to the nearest number, and the random state decides a tie. A transform that
completes with too few lines is evaluated on the first labels of the test set,
as the code does (`Score`), whatever class they are of.

## 3. What the runs show

| Run (module) | Properties | What it shows |
|---|---|---|
| `FeatureStore` | ReturnedVersionIsOwn, ConflictsAreContention, HistoryIsWhole, ImplementsLog, EveryCallEnds | Concurrent store() calls, over queries that are eventually consistent or not, with lost answers and crashes and a get_history() beside them, implement an append-only log, and end. Each conflict of a call has a cause of its own: a version of another call, a lost answer or a query that lagged. A history, from a date or whole, lists the versions it looks for in order, skips none and repeats none, and with consistent queries holds all that was stored before it. |
| `StoreFeatures` | OutputIsStored, OutputIsNewestCopy, CopiesPerTry | Two executions store lists with a subscriber in common, or named twice in one list, and are killed and retried at any point: the versions their events carry on are their own newest copies, and copies are bounded by the tries. |
| `NPAW` | BatchAccounting, NothingSkipped, ExactWhenQuiet, BatchEnds, AuthErrorAborts, RateLimited, NoRequestAfterAbort | Tasks, semaphore, rate lock, retries, paging, cancellation and foreign errors interleave: accounting, spacing and the abort are right; paging while sessions arrive skips none and is exact when none arrive, except that a body without sessions ends it early; every batch ends, and an authentication error leads to the abort. |
| `Pipeline` | EventPointsToStored, TableNeverAhead, Provenance, ResultsAreKept | Executions from every trigger with failures and retries at every point keep the stored data consistent with the event. |
| `PipelineLive` (`MCExecutionWatch`) | QuietUploadDelivers, WatchEnds | Executions reach a final state whatever fails, and a caller polling one ends and is told only its outcome; without faults an uploaded list ends in predictions for every user with features and in all reports, or in none at all where the list or a score is refused, nobody has features, or the event exceeds the payload limit. |
| `Registry` | RowsAreTraceable, RowsMatchOutput, RollbackKeepsAModel | Two operators and a batch interleave with failures: rows name the model that ran, only what the transform answered gets a row, and a rollback nobody interferes with, failing anywhere, leaves an approved model. |
| `Training` | SplitsKeepBothClasses, PackageIsBacked, TrainingEnds, QuietTrainingRegisters | `train()` on datasets of up to 10 churned and 24 active users, failing anywhere: splits keep both classes, a registered package is backed by its jobs and objects, and the call ends. |
| `Predictions` | TableFollowsResults, ScanIsComplete, LatestIsLatest, QuietPredictDelivers | Two executions write predictions of a subscriber they share, fail and are retried with another model while the dashboard scans: a row is the one S3 holds or an older one of a failed try, and a scan misses only what left its filter, a tier or the end of a period, by being written again. |
| `LocalStages` | IngestedExactly, PeriodIsOwn, BreachFoundWhereMade, ExplanationsAccountedFor, DegradesGracefully, TrendComparesTheEnds, NobodyLostToRounding | Every list of up to three rows, breach of the contract, failure of Bedrock and constellation of sessions around the ends of weeks, to the second: ids and periods are right; a stage is refused for its event only if a handler dropped a field a later one needs, or the wiring or the input is wrong; texts stand at the position of their SHAP entry and counters add up; only an entry that cannot be rebuilt ends the explanation stage; trends compare what they should, and no user is lost to rounded percentages. |

| Violated | Property | What the counterexample shows |
|---|---|---|
| `PipelineUnstored` | StoredBeforePrediction | Predictions are made for vectors that were never stored in the Feature Store. |
| `RegistryUsedModel` | UsedModelsStay | A model with prediction rows is deleted, without failures or races. |
| `PredictionRounding` | StageOutlivesAUser | One user's score just above 0.30, which rounds to 0.30 but is Medium, makes the validator raise and the stage fail for all users, in every try. |

"Violated" runs check one sentence of the repository's own documents that the
code does not keep; `PROJECT.json` quotes it under "findings". Those properties
are not expected to hold and have no theorem.

Other divergences met while modelling, which have no run of their own; the
models follow the code in each of them:

* `report_handler.py:61` reports `event["predictions"]`, which no earlier handler
  writes, so the report of a deployed execution is about nobody; its docstring
  (line 42) lists it as an input.
* `extract_handler.py:118` takes `NPAWAuthenticationError` for a user without
  sessions; its docstring (line 52) says the handler raises it.
* `extract_handler.py:129` persists nothing until every user is extracted;
  Requirement 8 asks to preserve what was processed before a failure.
* `churn_prediction_stack.py:339` starts the weekly execution with an input that
  the ingestion rejects.
* `ingestion.py:130`: a CSV row that is too short makes the whole ingestion fail with
  an AttributeError (`RowBreaks`); a `null` date of a JSON list becomes the text
  "None" and is sent to the API as a date (`DateText`).
* `extract_handler.py:84`: a `to_date` given without a `from_date`, with no dates in
  the list, is overwritten by today (`ChoosePeriod`).
* `npaw_extractor.py:297`: a 200 answer whose body holds no sessions cuts an extraction
  short, and `extract_user_sessions()` reports it as complete (`EmptyAnswer`).
* `store_handler.py:53`: a list that names a subscriber twice stores both vectors, and
  the event gives both the version of the last one (`WithVersion`).
* `feature_engineer.py:505`: the weeks a trend compares are the first and last
  that have sessions, counted from the first session; Requirement 3.4
  (`requirements.md:77`) speaks of the first and last two weeks of the period. Even
  where all weeks have sessions the last may have hardly begun: over a span of just 28
  days, weeks 0 and 1 are compared with week 3 and the one instant of week 4
  (`TrendComparesTheEnds` says what is compared, and where it is the ends).
* `feature_engineer.py:123-134`: an `end_at` that is no text, or dates with a zone beside
  dates without, raise out of `compute()`; `feature_handler.py:86` catches and logs it and
  counts the user among those with too little data (`ComputeRaises`).
* `predict_handler.py:141`: a retry loads the model again and replaces `results.json` with
  new timestamps and maybe other scores: what is kept is about whom they are
  (`ResultsAreKept`), and that the rows follow (`TableFollowsResults`).
* `data_source.py:149`: a row that such a retry writes again leaves the tier or the period
  a scan is filtering by, and the scan may miss it under its old and its new values
  (`MayLose`).
* `predict_handler.py` prefers the vectors an event brings, `shap_handler.py` reads the
  feature object: an execution started by hand with vectors may explain other users than
  it predicts, and `Provenance` leaves it out.
* `pipeline.py`: with its default handlers the local runner always fails at the
  extraction, whose handler does not return the `extracted_sessions` of
  `STAGE_DATA_CONTRACT`; nor are `feature_vectors`, `predictions` and
  `explainability_results` returned by theirs (`RealHandlers` in `MCLocalStages`).
* `bedrock_handler.py:62` reads `predictions` and `explainability_results`, which no
  deployed stage sends, so that it explains nobody; it also saves only at its end,
  so that a Lambda timeout loses every text of the try (`BedrockKilled`).
* `bedrock_handler.py:104`: `FeatureContribution(**fc)` is outside what catches errors of a text, so that one
  entry it cannot be built from ends the stage in every try (`RebuildRaises`). The entries
  are matched with predictions by position: in another order, users would get the
  explanations of others, and nothing would say so. Besides, `shap_handler.py` calls the
  contributions `top_factors`, and this handler reads `top_features`.
* `predict_handler.py:160`: the formula of the confidence contradicts the comment
  beside it; no other code reads the confidence.
* Nothing writes `churn_executions`, which the dashboard polls for its automatic
  refresh (`requirements.md:220`); rows of predictions carry no feature version: the
  dashboard shows 0, and they do not rebuild as the `PredictionRow` of `models.py:111`.
* `model_registry.py:271`: two rollbacks at once, one to the active model and one
  away from it, reject each other's target and leave no approved model; the
  docstring of `rollback()` (line 252) does not restrict callers. `RollbackKeepsAModel`
  holds for a rollback nobody else interferes with, and only for that.
* `model_registry.py:271`: `get_active_model()` gives `None` when the active model cannot be
  described; `rollback()` then approves its target, rejects nothing and returns
  (`RollbackSwitches` has the premise).
* `model_registry.py:316`: a batch may write rows of a model between the check
  of the predictions table and the deletion of its package.
* `ingest_handler.py:81` puts all ids into the event: 50,000 of them are far beyond
  the 256 KB a state may pass on (`PayloadIds`).
* `npaw_extractor.py:483` catches `NPAWExtractorError` only; any other exception
  leaves `extract_batch()` while its other tasks run on (`RaiseOther`).
* `model_registry.py:285`: with two approved models newer than its target a
  rollback rejects the newest, and the second becomes the active one.
* `step_functions.py:394` looks at the time before the status, so an execution
  that finished during the last sleep is reported by `TimeoutError`; the
  docstring (line 378) has it for an execution that did not finish.
* `sagemaker_pipeline.py:229` uploads metrics and hyperparameters after the
  registration: if that fails, `train()` raises and the package stays, with its
  metrics in its own metadata only (`ReturnedIsComplete` says what holds
  in spite of it).
* `sagemaker_pipeline.py:748` evaluates in the container image of
  `self.algorithm`, also when `train(algorithm=...)` trained with another.
* `sagemaker_pipeline.py:406`: with one to four churned users among many the
  second stratified split always finds a single one left and raises, with five it
  may, and nothing is trained; no document sets a minimum.

### Bounds, and why they are enough

* **FeatureStore.** Two writers and a reader on one user (stale and consistent queries,
  a lost answer per call, three attempts): a writer can be overtaken, conflict with its
  own lost put and run out of attempts, and the reader's pages of one item are overtaken
  by the writers. Vectors of one writer are younger than those of the other, and the
  reader asks for all or for the younger ones, so that a page may be empty. Users are
  independent partitions. Contiguity, ownership and immutability are proved for any
  number of each.
* **StoreFeatures.** Two executions with two tries; their lists have up to two vectors,
  a subscriber in common or named twice, and a malformed vector; two attempts per call
  and one lost answer. The retry then meets its own copies and those of the other.
  `MaxCalls` covers every vector in every try.
* **NPAWExtractor.** Two users for one permit or two, so that one waits for a
  permit, the lock or an answer when the abort comes; one retry is enough to tell
  counted from uncounted; two or six sessions in pages of two and a limit of five:
  one full page followed by an empty one, and a last page cut by the limit; an arrival
  shifts the offset of the next page and makes it a short one; any request may be answered
  without sessions. `RateTicks` bounds
  `age`, which only matters up to the interval.
* **Pipeline.** Two users tell "nobody", "some" and "all" apart. The retry
  counters are the code's. `StoreCopies` is 3 in the code (its attempts) and 2
  in the run with carried vectors. `PayloadIds` stands for 256 KB: an event may
  carry two lists of all users, and exceeds it with more. `MayFail` gives the
  environments to consider; `PipelineLive` has executions with and without faults.
* **ModelRegistry.** Two models and two operators; `MaxCalls` allows an approval, a
  rollback and a deletion to meet. The theorems have no bound. The transform's output may be
  any prefix of two vectors.
* **ExecutionWatch.** One caller, as callers only read. The timeout and the
  interval have no length: the deadline may pass at any time or never.
* **Predictions.** Two executions of one and two users with one in common; two models,
  between which any try may find the other: scores at the end of a tier, just above it,
  and in another tier; one fault, two tries, one scan with pages of every length, for a
  user, for the tier a retry may change, or for a period it leaves. One order of the
  keys, as the pages and the writers come in every order. `PredictionsAssumption` allows
  any.
* **LocalStages.** Lists of up to three rows, with one id in two spellings, dates
  on either side, null and ill-formed ids, and a limit of two valid ones, so that the
  list may exceed it. The contract and both orders of stages are the code's. Up to three
  predictions, two calls, two tries. SHAP entries are there, missing or cannot be rebuilt.
  Four or six sessions at nine instants, to the second, around the ends of weeks 1 and 4
  (28 days being the minimum, 27 days and two hours reaching another date only) and
  between, with three mixtures of content; six sessions of which one has no time, one
  an odd field, and those before some session alone name their zone.
* **Training.** All datasets of 0 to 10 churned and 0 to 24 active users: one of
  the classes missing, single, too small for the second split, and every
  remainder of the divisions by ten and two. The theorems have no bound.

Symmetry is declared only for sets whose elements no constant or `CHOOSE`
distinguishes, and never in runs with liveness properties.

### Fairness

* **FeatureStore**: weak fairness of each writer's step or its error: a running
  Lambda goes on, or its timeout ends it. Nothing is assumed about who wins a
  race, so that `EveryCallEnds` rests on the attempt counter alone.
* **NPAWExtractor**: weak fairness of each task (the event loop runs ready
  tasks), of `extract_batch()` and of time. Requests end because the client has
  a timeout of 60 s, but no particular answer is assumed. The rate lock and the
  semaphore need no strong fairness: a task that waits is let in because every
  batch has finitely many requests.
* **Pipeline**: weak fairness of the next step as a whole: Step Functions takes
  an execution on until it ends and each Lambda has a timeout. Failures are part of
  that step, so no success is assumed.
* **ExecutionWatch**: weak fairness of the execution and of the caller's loop;
  not of the deadline, so that `WatchEnds` rests on the execution's end.
* **Training**: weak fairness of the steps of `train()` other than `Fails`, and of
  both jobs, which SageMaker stops at `MaxRuntimeInSeconds` or its own
  limit. That the polling loops end is not assumed: they must recognise every status a job
  can end with.
* **Predictions**: weak fairness of the stage of each execution: Step Functions
  runs it until it ends. Faults are not part of it and none is assumed absent, except
  by the premise of `QuietPredictDelivers`.
* **Explanations**: weak fairness of the handler's next step; a call ends with an
  answer or the client's timeout, and no answer is assumed.
* **ModelRegistry** has no fairness: operators and batches may stop anywhere.

Deadlock checking is off because every system modelled ends: a batch returns, an
execution ends, the bounds on calls are used up. That they end only where
they should is what `EveryCallEnds`, `BatchEnds`, `WatchEnds`, `TrainingEnds` and
`DegradesGracefully` say.

## 4. What is proved

All theorems hold for every value of the constants that satisfies the module's
named assumption (`StoreAssumption`, `ExtractorAssumption`, `PipelineAssumption`,
`RegistryAssumption`, `TrainingAssumption`, `ListAssumption`, `RunnerAssumption`,
`PredictionsAssumption`, `IngestionAssumption`, `ExplanationsAssumption`,
`EngineerAssumption`), which only say that bounds are numbers, fault and operation names
are known ones, datasets are counts, lists are sequences of the rows, sessions or vectors
they are about (a list of vectors may name a subscriber any number of times), a week has
a length, spellings that differ only in case are the same id for the
validation too, scores are in range, and null values are nothing else. TLC
evaluates each of them in the runs.

In each module an invariant is inductive: `Init => IInv` and
`IInv /\ [Next]_vars => IInv'` are proved action by action. Where later theorems need
to know more, a second invariant is built on the first (`KInv`, `CopyInv`,
`DataInv`, `ScanInv`, `ProvInv`). **Every invariant and action property a passing run
checks is also a theorem**, and so is the refinement of the append-only log.

* **FeatureStore_proofs**: `TypeCorrect`, `NoGaps`, `ReturnsOwnVersion`,
  `Immutability`. `Contiguous` is not inductive: a writer between its
  query and its put could hold any number. `PutReady` says what it knows: the
  version below its number exists. That the answer was stale does not matter,
  because items stay; a number that is too low is then rejected by the condition.
  `ConflictsExplained`, `HistoryComplete` and `ImplementsAppendOnlyLog` rest on one fact
  more: the versions of a user are the interval 1 to n (`VersionsAreInterval`), so a
  put is the entry after the last (`PutIsNext`), a page the next part of the interval,
  and the set of items a sequence, `AbstractLog`. `KInv` adds that a key has one item
  (`KeyUnique`), that what a history has collected is what it wants of the versions up to
  its cursor, in order (`ReadSoFar`), that each conflict of a call stands for one more
  version above `base` or one query that lagged (`Overtaken`), and that of those versions
  at most one per lost answer is the call's own (`CopiesCounted`). `SinceTheCallBegan` puts
  the last two together: the rest are versions of other calls.
* **StoreFeatures_proofs**: `StageImplementsStore`, the refinement
  `StageSpec => Spec`: every step of the handlers is a step of the store or leaves
  it alone, so that all that is proved of the store holds below the handlers too;
  and from it `OutputHoldsOwnVectors`. `Sending` says that the running call was given
  the vector the loop has come to; what it returns is then the key of that
  vector (`ReturnsOwnVersion`), and items stay (`StoredAreOwn`). `OutputIsNewest`, for lists
  that name a subscriber any number of times: a
  put is newer than all the user had, so what a call returns is newer than every copy
  of an earlier try (`NewestIsReturned`); an entry of `stored` is that of the last vector
  of its subscriber the loop has passed (`StoredAreNewest`). `RetriesAreBounded`:
  `CopiesBounded` counts a vector's copies against the tries that have passed it, and
  those of the running call against its lost answers.
* **NPAWExtractor_proofs**: `SemaphoreIsRight`, `AbortCompletes`,
  `RequestsAreSpaced`, `AbortStopsRequests`. The spacing needs `LockInv`: only
  the holder of the lock sleeps, and its remaining sleep plus the time since the last
  request is the interval. Permits are counted with cardinalities of the set of
  users in progress. `NothingIsSkipped` and `ExactResult` need `PagingInv`, which says
  for every place of a task what has been collected: all sessions the user had at the
  start down to the depth the offset has reached (`Covered`). An arrival moves sessions to
  later offsets, so that the next page repeats some and skips none; a short page is the
  last, and an extraction cut by a body without sessions has the whole pages before it
  (`EmptyKeeps`). `BatchAccounts` ties the counters and the results to the tasks.
* **Pipeline_proofs**: `TypeCorrect`, `EventIsBacked`, `TableIsBacked`,
  `ResultsSurvive`. What is put twice must be about the same users: `LocalInv` ties the
  invocation's memory to the object it put or will put, and `OrderInv` says that a
  retried state, or the predict handler when it runs for the next of its states, is
  given either the same vectors or none. Both are needed: a retry of the prediction
  after its object was written would otherwise be free to replace it by one about
  others. `PutOnce` adds that only a retry puts again: the first try of the next state
  finds no vectors in the event. What a retry computes of the same users may differ,
  which is the matter of `Predictions`. `ResultsHaveSessions` adds that an execution
  nobody started by hand carries no vectors in its event, so that what is predicted is
  the feature object. `WatchOnlyReads` is the refinement `WatchSpec => Spec`: all of
  this holds while a caller polls. `StatusIsOutcome`: no step leaves a final state
  (`FinalStatesAreFinal`), so that what `wait_for_completion()` returns stays true.
* **ModelRegistry_proofs**: `TypeCorrect`, `Traceability`, `RowsMatch`,
  `JustifiedRefusals` for any number of operators and batches; `RollbackIsSafe` and
  `RollbackDoesSwitch` for rollbacks during which nobody else has used the registry
  (`Alone`, a premise of the two properties). The premise is necessary, as two
  rollbacks can take the last approved model away. `RollbackDoesSwitch` has another: that
  the rollback found and could describe the model that was active, as the code leaves it
  approved otherwise. `SerialInv` is what a lone
  rollback can rely on: between its approval and its rejection the target is
  still approved.
* **Training_proofs**: `TypeCorrect`, `SplitsKeepClasses`, `PackageBacked`,
  `ReturnedComplete`, for every dataset. A cut gives a class of p of N users
  n·p/N of the n places up to a half. With p at least 2 and n at least (N-1)/2
  that is more than a half, so one at least (`ShareIsPositive`); the other part has three
  tenths of the records or more, and the same bound leaves one there
  (`RestIsPositive`). That these hold for both cuts, the 70% and then the half of the
  rest, is arithmetic on their sizes; the second cut needs two users of each class
  in the rest, which `Stratifiable` demands or else raises. The invariant
  says for every `pc` which objects are in S3 and how far the jobs are; the jobs
  go on after the call raised, so it speaks of `job` and `trial` and not of `pc` alone.
* **Predictions_proofs**: `TypeCorrect`, `RowsHaveResults`, for any models the tries may
  use. What a try computes is later than all that was saved before (`Computing`), an
  object is complete before the first row of it (`Saved`), and a try writes a row once
  (`Pending`): a row is that of its object or older (`Follow`), and older only after a
  try that failed (`FirstTry`). `ScansAreComplete` and `ShowsTheLatest`: rows are
  replaced by later ones only, in the table and in the replica (`RowsGrow`,
  `ReplicaGrows`), so that every page shows the row to be found or a later one of its
  key (`PageShows`); the later one matches as well unless the filter is on the tier or
  has an end (`MayLose`). `ReadInv` says of each key that it is unread, found, or left
  the filter.
* **LocalStages_proofs**, whose four parts share nothing but arithmetic:
  * `NoIdIsLost`, `PeriodsAreOwn`, for lists of any length. `RowsRead` is a
    strictly growing map from the ids read to their rows; `Selected` says that the valid ids
    are those mentioned so far, and that of two of them the one before was
    mentioned when the other was not. The first mention of an id is then the row
    `IngestedExactly` chooses. `OwnDates` gives each id the dates of its last dated row.
  * `CountersAddUp`: a text stands at the position of its own SHAP entry
    (`InPlace`), and the counters are cardinalities of the positions so far.
  * `RoundingIsHarmless`: a rounded share is within half a unit of the true one
    (`RoundedShare`), so that four of them are within two units of a hundred percent
    (`FourShares`), and the validator allows a hundred (`PercentagesAccepted`). The numbers
    of sessions are arbitrary; the premise is that `compute()` can work with them (`Unfit`).
  * `TrendIsOfTheEnds`, for any unit of time: if weeks 0 and 1 have sessions they are
    the two least (`TwoFirst`), if the last two have, the two greatest (`TwoLast`), and
    a session is in a week exactly if it lies between its instants (`Bracket`).
  * `WiringSuffices`, for every contract, input and handlers: if
    `validate_stage_wiring()` finds no problem, the input satisfies the first stage and
    no handler drops a field that a later stage requires (`DropsNothingRequired`), then
    no stage is refused for its event. The premise is about the handlers, which the
    wiring check cannot see: the repository's own feature and predict handlers do drop
    such fields (`RealHandlers`), and a run of them is refused. `Supply` is the
    invariant: a required field that the input brought or an earlier stage produced is
    still in the event.

The type invariants of the components that have theorems of that name, and `Contiguous`,
`PermitsConserved`, `AbortIsComplete`, `ReturnedIsComplete`, `Immutable`,
`RefusalsAreJustified`, `RollbackSwitches` and `ReturnedIsOutcome`, are proved and have
no run: the theorems cover what a run could show.

No theorem speaks of the outcome of a recursive definition. What looks like induction
over data is done without it: the steps of a state machine are the induction (a list is
read row by row, an id taken one at a time), sums over sets are cardinalities, and the
least element of a set of naturals comes from their well-foundedness (`LeastNat`).

### Only model-checked

* Liveness (`EveryCallEnds`, `BatchEnds`, `AuthErrorAborts`, `WatchEnds`,
  `QuietUploadDelivers`, `TrainingEnds`, `QuietTrainingRegisters`, `QuietPredictDelivers`,
  `DegradesGracefully`): fairness and ENABLED are outside the prover's reach.
* That the per-user step of `Pipeline` stands for `NPAWExtractor`, its `StoreCopies`
  for `StoreFeatures`, and `RegisterModel` of `ModelRegistry` for `Training`: these are
  abstractions by hand, each backed by the properties of the detailed module and
  not by a refinement.

## 5. What is not modelled

* **get_latest, get_version, list_versions, get_model_artifacts_s3_path**: single reads.
* **Numbers** other than scores, tiers and percentages: averages, the linear fit of
  viewing time, SHAP values, statistics. An average of pauses or seeks below zero,
  which the API would have to deliver, makes `FeatureVector` reject its user.
* **Whose SHAP entry it is**: entries are matched by position in the code and in
  `Explanations`; no property relates an entry to its user, as nothing in the code does.
* **SHAP explainer library** (`explainability/`): the deployed handler does not use it;
  it computes and keeps no state.
* **Presentation**: report layout, prompts, the dashboard's pages (`app.py`,
  whose period filter compares local times with UTC), logging, metrics, alarms.
* **Configuration**: the validation of environment values (`common/config.py`).
* **Infrastructure** other than triggers, states and keys: roles, alarms, hosting,
  and `orchestration_stack.py`, `dashboard_stack.py`, which no application deploys.
* **Vendored and generated files**: `infra/layers`, `docs/npaw`, `.hypothesis`.
  `infra/layers` is a copy of third-party Python packages and more than nine tenths
  of the lines in the repository, so that the share of all lines modelled is small;
  of the program's own code it is a little more than a third.

## 6. Plan

In the order of what the system depends on most:

1. done: `AppendOnlyLog`, `FeatureStore` and proofs; `NPAWExtractor` and proofs.
2. done: `Pipeline` and proofs; composes the stages; `ExecutionWatch`.
3. done: `ModelRegistry` with batch inference and proofs; `Training` and proofs.
4. done: `StoreFeatures` and proofs, the store stage over the real store.
5. done: `Predictions` and proofs, with tiers, rounding and the dashboard's scans.
6. done: `Ingestion`, `PipelineRunner`, `Explanations`, `FeatureEngineer` and proofs.
7. open: the three uploads of `upload_model_artifacts()`, the aggregates of the
   reports, the abandonment metrics. They are short and sequential.

Proofs next: the safety part of the abstractions by hand named in section 4, where a
mapping can be stated (one user's extraction as a step of `Pipeline`, a whole `train()`
as `RegisterModel`).

## 7. Running it

`tlc -config X.cfg MCX.tla` checks a run (`PROJECT.json` lists which module each
configuration belongs to); `tlapm X_proofs.tla` checks the proofs.
