---------------------------- MODULE Pipeline_proofs ----------------------------
(***************************************************************************)
(* Machine-checked proofs about Pipeline, for any set of users, any        *)
(* triggers and carried inputs, any limits and with or without failures.   *)
(*                                                                         *)
(* The argument: a handler puts an object before it returns the event that *)
(* names it (LocalInv), the features are fixed when the state machine      *)
(* leaves FeatureEngineering, and the event gives a state that is retried, *)
(* or runs the predict handler again, either the same vectors or none      *)
(* (OrderInv); so what is put twice is put for the same users, and, as a   *)
(* first try finds no object or no vectors (PutOnce), by a retry only.     *)
(* Where the start brought no vectors, none ever enter the event, and the  *)
(* predict handler can only load the feature object (ProvInv).             *)
(*                                                                         *)
(* All of this holds for an execution that is polled (ExecutionWatch), as  *)
(* the caller only reads; and as no step leaves a final state, what the    *)
(* caller is told is how the execution ended.                              *)
(***************************************************************************)
EXTENDS ExecutionWatch, FiniteSetTheorems, TLAPS

BeforeStore == {"Ingestion", "Extraction", "FeatureEngineering"}

BeforePredict == BeforeStore \cup {"StoreFeatures"}

BeforeShap == BeforePredict \cup PredictStates

(* What the handlers hold in memory agrees with what they have stored.     *)
LocalInv ==
    /\ At("Extraction", "persist") => mem \subseteq raw \cup todo
    /\ At("FeatureEngineering", "return") => features = mem
    /\ (InPredict("put") \/ InPredict("rows")) =>
          mem = VectorsToPredict /\ mem # {}
    /\ InPredict("rows") => predObj = mem /\ todo \subseteq mem
    /\ At("Explainability", "put") => features # None /\ mem = features
    /\ At("Explainability", "return") => mem = features /\ explObj = mem

(* What does not exist yet while the state machine is in its early states, *)
(* and what an attempt that is repeated finds from the one before.         *)
OrderInv ==
    /\ state \in BeforeStore => ~event.fvKey
    /\ state \in BeforePredict => ~event.predKey /\ predObj = None
    /\ state \in BeforeShap => explObj = None
    /\ state \in BeforeShap \cup {"Explainability"} => ~event.explKey
    /\ event.predKey => event.vectors = {} /\ ~event.fvKey
    /\ (state \in PredictStates /\ predObj # None) =>
          VectorsToPredict \in {{}, predObj}
    /\ explObj \in {None, features}

IInv == TypeOK /\ EventPointsToStored /\ TableNeverAhead /\ LocalInv /\ OrderInv

-----------------------------------------------------------------------------

(* The counts in the event are natural numbers.                            *)
LEMMA CountsAreNat == \A S \in SUBSET Users : Cardinality(S) \in Nat
BY PipelineAssumption, FS_Subset, FS_CardinalityType

(* None is no set of users.                                                *)
LEMMA NoneIsNoSet == None \notin SUBSET Users
BY PipelineAssumption

(* Next of each task state, as a table.                                    *)
LEMMA NextStates ==
    /\ NextState("Ingestion") = "Extraction"
    /\ NextState("Extraction") = "FeatureEngineering"
    /\ NextState("FeatureEngineering") = "StoreFeatures"
    /\ NextState("StoreFeatures") \in {"Training", "BatchPredict"}
    /\ NextState("Training") = "EvaluateModel"
    /\ NextState("EvaluateModel") = "RegisterModel"
    /\ NextState("RegisterModel") = "Succeeded"
    /\ NextState("BatchPredict") = "Explainability"
    /\ NextState("Explainability") = "BedrockExplanations"
    /\ NextState("BedrockExplanations") = "GenerateReports"
    /\ NextState("GenerateReports") = "Succeeded"
BY DEF NextState

(* A handler that returns hands on its event and leaves no local state.    *)
LEMMA ReturnEffect ==
    ASSUME NEW e, Return(e)
    PROVE  /\ event' = e
           /\ state' \in {NextState(state), "DataLimitExceeded"}
           /\ retries' = 0
           /\ step' = "start" /\ todo' = {} /\ mem' = {}
           /\ trigger' = trigger /\ mode' = mode /\ faulty' = faulty
           /\ rejects' = rejects
BY DEF Return, Fresh, context

-----------------------------------------------------------------------------

(* Every execution starts in the invariant.                                *)
LEMMA InitInv == ASSUME Init PROVE IInv
<1>1. TypeOK
  <2>1. event \in Event
    <3>1. PICK V, P \in CarriedBy(trigger) : event = StartEvent(V, P)
      BY DEF Init
    <3>2. V \in SUBSET Users /\ P \in SUBSET Users
      BY <3>1, PipelineAssumption DEF CarriedBy
    <3>3. QED
      BY <3>1, <3>2 DEF Event, StartEvent
  <2>2. mode \in {"train", "predict"}
    BY DEF Init, ModesOf
  <2>3. rejects \subseteq RejectionKinds
    BY DEF Init, RejectionsOf
  <2>4. QED
    BY <2>1, <2>2, <2>3, PipelineAssumption
       DEF Init, TypeOK, Object, TaskStates, FinalStates, Steps, ReportFiles
<1>2. EventPointsToStored /\ TableNeverAhead
  BY DEF Init, EventPointsToStored, TableNeverAhead, StartEvent
<1>3. LocalInv /\ OrderInv
  BY DEF Init, LocalInv, OrderInv, StartEvent, At, InPredict, BeforeStore,
         BeforePredict, BeforeShap, PredictStates
<1>4. QED
  BY <1>1, <1>2, <1>3 DEF IInv

(* The ingestion fills the event with ids and touches no store.            *)
LEMMA IngestKeeps ==
    ASSUME IInv, NEW V \in SUBSET Users, IngestReturns(V)
    PROVE  IInv'
<1> DEFINE e == [event EXCEPT !.valid = V]
<1>1. /\ state = "Ingestion" /\ Return(e) /\ UNCHANGED stores
  BY DEF IngestReturns, At
<1>2. state' \in {"Extraction", "DataLimitExceeded"}
  BY <1>1, ReturnEffect, NextStates
<1>3. TypeOK'
  BY <1>1, <1>2, ReturnEffect
     DEF IInv, TypeOK, Event, Object, TaskStates, FinalStates, Steps, stores
<1>4. EventPointsToStored' /\ TableNeverAhead'
  BY <1>1, ReturnEffect
     DEF IInv, TypeOK, Event, EventPointsToStored, TableNeverAhead, Stored, stores
<1>5. LocalInv' /\ OrderInv'
  BY <1>1, <1>2, ReturnEffect
     DEF IInv, TypeOK, Event, LocalInv, OrderInv, At, InPredict, BeforeStore,
         BeforePredict, BeforeShap, PredictStates, stores, VectorsToPredict
<1>6. QED
  BY <1>3, <1>4, <1>5 DEF IInv

(* An action that stays inside a state of the state machine and writes to  *)
(* no object but raw and versions keeps what concerns the event.           *)
LEMMA InsideKeeps ==
    ASSUME IInv, Inside, raw \subseteq raw',
           UNCHANGED <<features, predObj, predTable, explObj>>
    PROVE  /\ EventPointsToStored' /\ TableNeverAhead' /\ OrderInv'
           /\ VectorsToPredict' = VectorsToPredict
BY DEF IInv, Inside, EventPointsToStored, TableNeverAhead, OrderInv, Stored,
       VectorsToPredict

(* Extraction: what is about to be announced is in raw or still to do.     *)
LEMMA ExtractKeeps == ASSUME IInv, Extract PROVE IInv'
<1>1. CASE BeginExtract
  <2>1. Inside /\ UNCHANGED stores
    BY <1>1 DEF BeginExtract
  <2>2. TypeOK'
    BY <1>1, <2>1
       DEF BeginExtract, IInv, TypeOK, Event, Steps, Inside, context, stores
  <2>3. LocalInv'
    BY <1>1, <2>1 DEF BeginExtract, Inside, LocalInv, At, InPredict, PredictStates
  <2>4. QED
    BY <2>1, <2>2, <2>3, InsideKeeps DEF IInv, stores
<1>2. ASSUME NEW u \in Users, ExtractUser(u) PROVE IInv'
  <2>1. Inside /\ UNCHANGED stores
    BY <1>2 DEF ExtractUser
  <2>2. TypeOK'
    BY <1>2, <2>1
       DEF ExtractUser, IInv, TypeOK, Inside, context, stores
  <2>3. LocalInv'
    BY <1>2, <2>1 DEF ExtractUser, Inside, LocalInv, At, InPredict, PredictStates
  <2>4. QED
    BY <2>1, <2>2, <2>3, InsideKeeps DEF IInv, stores
<1>3. CASE ExtractedAll
  <2>1. Inside /\ UNCHANGED stores
    BY <1>3 DEF ExtractedAll
  <2>2. TypeOK'
    BY <1>3, <2>1
       DEF ExtractedAll, IInv, TypeOK, Steps, Inside, context, stores
  <2>3. LocalInv'
    BY <1>3, <2>1 DEF ExtractedAll, Inside, LocalInv, At, InPredict, PredictStates
  <2>4. QED
    BY <2>1, <2>2, <2>3, InsideKeeps DEF IInv, stores
<1>4. ASSUME NEW u \in Users, PersistSessions(u) PROVE IInv'
  <2>1. TypeOK'
    BY <1>4 DEF PersistSessions, IInv, TypeOK, Inside, context
  <2>2. LocalInv'
    BY <1>4
       DEF PersistSessions, Inside, IInv, LocalInv, At, InPredict, PredictStates
  <2>3. QED
    BY <1>4, <2>1, <2>2, InsideKeeps DEF IInv, PersistSessions
<1>5. CASE ExtractReturns
  <2> DEFINE e == [event EXCEPT !.withData = mem]
  <2>1. /\ At("Extraction", "persist") /\ todo = {} /\ Return(e)
        /\ UNCHANGED stores
    BY <1>5 DEF ExtractReturns
  <2>2. state' \in {"FeatureEngineering", "DataLimitExceeded"}
    BY <2>1, ReturnEffect, NextStates DEF At
  <2>3. TypeOK'
    BY <2>1, <2>2, ReturnEffect
       DEF IInv, TypeOK, Event, TaskStates, FinalStates, Steps, stores
  <2>4. mem \subseteq raw
    BY <2>1 DEF IInv, LocalInv
  <2>5. EventPointsToStored' /\ TableNeverAhead'
    BY <2>1, <2>4, ReturnEffect
       DEF IInv, TypeOK, Event, EventPointsToStored, TableNeverAhead, Stored,
           stores
  <2>6. LocalInv' /\ OrderInv'
    BY <2>1, <2>2, ReturnEffect
       DEF IInv, TypeOK, Event, LocalInv, OrderInv, At, InPredict, BeforeStore,
           BeforePredict, BeforeShap, PredictStates, stores, VectorsToPredict
  <2>7. QED
    BY <2>3, <2>5, <2>6 DEF IInv
<1>6. QED
  BY <1>1, <1>2, <1>3, <1>4, <1>5 DEF Extract

(* Feature engineering: the object is put, then its key is returned; no    *)
(* later state puts it again.                                              *)
LEMMA EngineerKeeps == ASSUME IInv, Engineer PROVE IInv'
<1>1. ASSUME NEW F \in SUBSET Users, LoadAndCompute(F) PROVE IInv'
  <2>1. Inside /\ UNCHANGED stores
    BY <1>1 DEF LoadAndCompute
  <2>2. TypeOK'
    BY <1>1, <2>1
       DEF LoadAndCompute, IInv, TypeOK, Steps, Inside, context, stores
  <2>3. LocalInv'
    BY <1>1, <2>1 DEF LoadAndCompute, Inside, LocalInv, At, InPredict, PredictStates
  <2>4. QED
    BY <2>1, <2>2, <2>3, InsideKeeps DEF IInv, stores
<1>2. CASE PutFeatures
  <2>1. TypeOK'
    BY <1>2 DEF PutFeatures, IInv, TypeOK, Object, Steps, Inside, context
  <2>2. /\ ~event.fvKey /\ ~event.predKey /\ ~event.explKey
        /\ predObj = None /\ explObj = None
    BY <1>2 DEF PutFeatures, At, IInv, OrderInv, BeforeStore, BeforePredict, BeforeShap
  <2>3. EventPointsToStored' /\ TableNeverAhead'
    BY <1>2, <2>2
       DEF PutFeatures, Inside, IInv, EventPointsToStored, TableNeverAhead
  <2>4. LocalInv' /\ OrderInv'
    BY <1>2, <2>2
       DEF PutFeatures, Inside, IInv, LocalInv, OrderInv, At, InPredict,
           PredictStates
  <2>5. QED
    BY <2>1, <2>3, <2>4 DEF IInv
<1>3. CASE FeatureReturns
  <2> DEFINE e == [event EXCEPT !.fvKey = TRUE, !.fvCount = Cardinality(mem),
                                !.valid = {}, !.withData = {}]
  <2>1. /\ At("FeatureEngineering", "return") /\ Return(e)
        /\ UNCHANGED stores
    BY <1>3 DEF FeatureReturns
  <2>2. state' \in {"StoreFeatures", "DataLimitExceeded"}
    BY <2>1, ReturnEffect, NextStates DEF At
  <2>3. Cardinality(mem) \in Nat
    BY CountsAreNat DEF IInv, TypeOK
  <2>4. /\ e \in Event
        /\ e.fvKey /\ e.fvCount = Cardinality(mem) /\ e.withData = {}
        /\ e.predKey = event.predKey /\ e.explKey = event.explKey
    BY <2>3 DEF IInv, TypeOK, Event
  <2>5. TypeOK'
    BY <2>1, <2>2, <2>4, ReturnEffect
       DEF IInv, TypeOK, TaskStates, FinalStates, Steps, stores
  <2>6. features = mem /\ ~event.predKey /\ ~event.explKey /\ features # None
    BY <2>1, NoneIsNoSet
       DEF At, IInv, TypeOK, LocalInv, OrderInv, BeforePredict, BeforeStore,
           BeforeShap
  <2>7. EventPointsToStored' /\ TableNeverAhead'
    <3> HIDE DEF e
    <3>1. QED
      BY <2>1, <2>4, <2>6, ReturnEffect
         DEF IInv, EventPointsToStored, TableNeverAhead, Stored, stores
  <2>8. LocalInv' /\ OrderInv'
    <3> HIDE DEF e
    <3>1. QED
      BY <2>1, <2>2, <2>4, <2>6, ReturnEffect
         DEF IInv, LocalInv, OrderInv, At, InPredict, BeforeStore,
             BeforePredict, BeforeShap, PredictStates, stores
  <2>9. QED
    BY <2>5, <2>7, <2>8 DEF IInv
<1>4. QED
  BY <1>1, <1>2, <1>3 DEF Engineer

(* The Feature Store: no object of the event is touched.                   *)
LEMMA StoreKeeps == ASSUME IInv, Store PROVE IInv'
<1>1. CASE BeginStore
  <2>1. Inside /\ UNCHANGED stores
    BY <1>1 DEF BeginStore
  <2>2. TypeOK'
    BY <1>1, <2>1
       DEF BeginStore, IInv, TypeOK, Event, Steps, Inside, context, stores
  <2>3. LocalInv'
    BY <1>1, <2>1 DEF BeginStore, Inside, LocalInv, At, InPredict, PredictStates
  <2>4. QED
    BY <2>1, <2>2, <2>3, InsideKeeps DEF IInv, stores
<1>2. ASSUME NEW u \in Users, StoreVector(u) PROVE IInv'
  <2>1. TypeOK'
    BY <1>2 DEF StoreVector, IInv, TypeOK, Inside, context
  <2>2. LocalInv'
    BY <1>2 DEF StoreVector, Inside, LocalInv, At, InPredict, PredictStates
  <2>3. QED
    BY <1>2, <2>1, <2>2, InsideKeeps DEF IInv, StoreVector
<1>3. CASE StoreReturns
  <2> DEFINE e == [event EXCEPT !.vectors = mem]
  <2>1. /\ At("StoreFeatures", "store") /\ Return(e)
        /\ UNCHANGED stores
    BY <1>3 DEF StoreReturns
  <2>2. state' \in {"Training", "BatchPredict", "DataLimitExceeded"}
    BY <2>1, ReturnEffect, NextStates DEF At
  <2>3. TypeOK'
    BY <2>1, <2>2, ReturnEffect
       DEF IInv, TypeOK, Event, TaskStates, FinalStates, PredictStates, Steps,
           stores
  <2>4. EventPointsToStored' /\ TableNeverAhead'
    BY <2>1, ReturnEffect
       DEF IInv, TypeOK, Event, EventPointsToStored, TableNeverAhead, Stored,
           stores
  <2>5. LocalInv' /\ OrderInv'
    BY <2>1, <2>2, ReturnEffect
       DEF IInv, TypeOK, Event, LocalInv, OrderInv, At, InPredict, BeforeStore,
           BeforePredict, BeforeShap, PredictStates, stores, VectorsToPredict
  <2>6. QED
    BY <2>3, <2>4, <2>5 DEF IInv
<1>4. QED
  BY <1>1, <1>2, <1>3 DEF Store

(* The predict handler: the second object, if a retry or another state     *)
(* puts one, is the first one again.                                       *)
LEMMA PredictKeeps == ASSUME IInv, Predict PROVE IInv'
<1>1. CASE LoadVectors
  <2>1. Inside /\ UNCHANGED stores
    BY <1>1 DEF LoadVectors
  <2>2. VectorsToPredict \in SUBSET Users
    BY DEF VectorsToPredict, IInv, TypeOK, Event, Object, EventPointsToStored,
           Stored
  <2>3. TypeOK'
    BY <1>1, <2>1, <2>2
       DEF LoadVectors, IInv, TypeOK, Steps, Inside, context, stores
  <2>4. LocalInv'
    BY <1>1, <2>1, InsideKeeps
       DEF LoadVectors, Inside, LocalInv, At, InPredict, PredictStates, stores
  <2>5. QED
    BY <2>1, <2>3, <2>4, InsideKeeps DEF IInv, stores
<1>2. CASE PredictNothing
  <2> DEFINE e == [event EXCEPT !.predKey = FALSE, !.predCount = 0,
                                !.vectors = {}, !.fvKey = FALSE]
  <2>1. /\ InPredict("start") /\ Return(e) /\ UNCHANGED stores
    BY <1>2 DEF PredictNothing
  <2>2. state' \in {"EvaluateModel", "RegisterModel", "Succeeded",
                    "Explainability", "DataLimitExceeded"}
    BY <2>1, ReturnEffect, NextStates DEF InPredict, PredictStates
  <2>3. /\ e \in Event
        /\ ~e.fvKey /\ ~e.predKey /\ e.vectors = {}
        /\ e.withData = event.withData /\ e.explKey = event.explKey
        /\ e.explCount = event.explCount
    BY DEF IInv, TypeOK, Event
  <2>4. QED
    <3> HIDE DEF e
    <3>1. TypeOK'
      BY <2>1, <2>2, <2>3, ReturnEffect
         DEF IInv, TypeOK, TaskStates, FinalStates, PredictStates, Steps, stores
    <3>2. EventPointsToStored' /\ TableNeverAhead'
      BY <2>1, <2>3, ReturnEffect
         DEF IInv, EventPointsToStored, TableNeverAhead, Stored, stores
    <3>3. LocalInv' /\ OrderInv'
      BY <2>1, <2>2, <2>3, ReturnEffect
         DEF IInv, LocalInv, OrderInv, At, InPredict, BeforeStore,
             BeforePredict, BeforeShap, PredictStates, stores, VectorsToPredict
    <3>4. QED
      BY <3>1, <3>2, <3>3 DEF IInv
<1>3. CASE PutPredictions
  <2>1. /\ mem = VectorsToPredict /\ mem # {} /\ predObj \in {None, mem}
        /\ ~event.predKey /\ state \in PredictStates
    BY <1>3
       DEF PutPredictions, InPredict, IInv, LocalInv, OrderInv, VectorsToPredict
  <2>2. TypeOK'
    BY <1>3 DEF PutPredictions, IInv, TypeOK, Object, Steps, Inside, context
  <2>3. EventPointsToStored' /\ TableNeverAhead'
    BY <1>3, <2>1
       DEF PutPredictions, Inside, IInv, EventPointsToStored, TableNeverAhead,
           Stored
  <2>4. LocalInv'
    BY <1>3, <2>1
       DEF PutPredictions, Inside, LocalInv, At, InPredict, PredictStates,
           VectorsToPredict
  <2>5. OrderInv'
    BY <1>3, <2>1
       DEF PutPredictions, Inside, IInv, OrderInv, BeforeStore, BeforePredict,
           BeforeShap, PredictStates, VectorsToPredict
  <2>6. QED
    BY <2>2, <2>3, <2>4, <2>5 DEF IInv
<1>4. ASSUME NEW u \in Users, PutRow(u) PROVE IInv'
  <2>1. predObj = mem /\ todo \subseteq mem
    BY <1>4 DEF PutRow, IInv, LocalInv
  <2>2. TypeOK'
    BY <1>4 DEF PutRow, IInv, TypeOK, Inside, context
  <2>3. EventPointsToStored' /\ TableNeverAhead'
    BY <1>4, <2>1, NoneIsNoSet
       DEF PutRow, Inside, IInv, TypeOK, EventPointsToStored, TableNeverAhead,
           Stored
  <2>4. LocalInv' /\ OrderInv'
    BY <1>4, <2>1
       DEF PutRow, Inside, IInv, LocalInv, OrderInv, At, InPredict,
           VectorsToPredict
  <2>5. QED
    BY <2>2, <2>3, <2>4 DEF IInv
<1>5. CASE PredictReturns
  <2> DEFINE e == [event EXCEPT !.predKey = TRUE,
                                !.predCount = Cardinality(mem),
                                !.vectors = {}, !.fvKey = FALSE]
  <2>1. /\ InPredict("rows") /\ Return(e) /\ UNCHANGED stores
    BY <1>5 DEF PredictReturns
  <2>2. state' \in {"EvaluateModel", "RegisterModel", "Succeeded",
                    "Explainability", "DataLimitExceeded"}
    BY <2>1, ReturnEffect, NextStates DEF InPredict, PredictStates
  <2>3. Cardinality(mem) \in Nat
    BY CountsAreNat DEF IInv, TypeOK
  <2>4. /\ e \in Event
        /\ ~e.fvKey /\ e.vectors = {} /\ e.predCount = Cardinality(mem)
        /\ e.withData = event.withData /\ e.explKey = event.explKey
        /\ e.explCount = event.explCount
    BY <2>3 DEF IInv, TypeOK, Event
  <2>5. predObj = mem /\ predObj # None
    BY <2>1, NoneIsNoSet DEF IInv, TypeOK, LocalInv
  <2>6. QED
    <3> HIDE DEF e
    <3>1. TypeOK'
      BY <2>1, <2>2, <2>4, ReturnEffect
         DEF IInv, TypeOK, TaskStates, FinalStates, PredictStates, Steps, stores
    <3>2. EventPointsToStored' /\ TableNeverAhead'
      BY <2>1, <2>4, <2>5, ReturnEffect
         DEF IInv, EventPointsToStored, TableNeverAhead, Stored, stores
    <3>3. LocalInv' /\ OrderInv'
      BY <2>1, <2>2, <2>4, ReturnEffect
         DEF IInv, LocalInv, OrderInv, At, InPredict, BeforeStore,
             BeforePredict, BeforeShap, PredictStates, stores, VectorsToPredict
    <3>4. QED
      BY <3>1, <3>2, <3>3 DEF IInv
<1>6. QED
  BY <1>1, <1>2, <1>3, <1>4, <1>5 DEF Predict

(* SHAP and Bedrock: the explanations are those of the feature object.     *)
LEMMA ExplainKeeps == ASSUME IInv, Explain PROVE IInv'
<1>1. CASE SkipShap
  <2> DEFINE e == [event EXCEPT !.explKey = FALSE, !.explCount = 0]
  <2>1. /\ At("Explainability", "start") /\ Return(e)
        /\ UNCHANGED stores
    BY <1>1 DEF SkipShap
  <2>2. state' \in {"BedrockExplanations", "DataLimitExceeded"}
    BY <2>1, ReturnEffect, NextStates DEF At
  <2>3. /\ e \in Event /\ ~e.explKey
        /\ e.withData = event.withData /\ e.vectors = event.vectors
        /\ e.fvKey = event.fvKey /\ e.fvCount = event.fvCount
        /\ e.predKey = event.predKey /\ e.predCount = event.predCount
    BY DEF IInv, TypeOK, Event
  <2>4. QED
    <3> HIDE DEF e
    <3>1. TypeOK'
      BY <2>1, <2>2, <2>3, ReturnEffect
         DEF IInv, TypeOK, TaskStates, FinalStates, Steps, stores
    <3>2. EventPointsToStored' /\ TableNeverAhead'
      BY <2>1, <2>3, ReturnEffect
         DEF IInv, EventPointsToStored, TableNeverAhead, Stored, stores
    <3>3. LocalInv' /\ OrderInv'
      BY <2>1, <2>2, <2>3, ReturnEffect
         DEF IInv, LocalInv, OrderInv, At, InPredict, BeforeStore,
             BeforePredict, BeforeShap, PredictStates, stores
    <3>4. QED
      BY <3>1, <3>2, <3>3 DEF IInv
<1>2. CASE ComputeShap
  <2>1. Inside /\ UNCHANGED stores
    BY <1>2 DEF ComputeShap
  <2>2. TypeOK'
    BY <1>2, <2>1
       DEF ComputeShap, IInv, TypeOK, Object, Steps, Inside, context, stores
  <2>3. LocalInv'
    BY <1>2, <2>1
       DEF ComputeShap, Inside, LocalInv, At, InPredict, PredictStates, stores
  <2>4. QED
    BY <2>1, <2>2, <2>3, InsideKeeps DEF IInv, stores
<1>3. CASE PutShap
  <2>1. mem = features /\ ~event.explKey /\ state = "Explainability"
    BY <1>3 DEF PutShap, At, IInv, LocalInv, OrderInv
  <2>2. TypeOK'
    BY <1>3 DEF PutShap, IInv, TypeOK, Object, Steps, Inside, context
  <2>3. EventPointsToStored' /\ TableNeverAhead'
    BY <1>3, <2>1
       DEF PutShap, Inside, IInv, EventPointsToStored, TableNeverAhead, Stored
  <2>4. LocalInv' /\ OrderInv'
    BY <1>3, <2>1
       DEF PutShap, Inside, IInv, LocalInv, OrderInv, At, InPredict,
           BeforeStore, BeforePredict, BeforeShap, PredictStates,
           VectorsToPredict
  <2>5. QED
    BY <2>2, <2>3, <2>4 DEF IInv
<1>4. CASE ShapReturns
  <2> DEFINE e == [event EXCEPT !.explKey = TRUE,
                                !.explCount = Cardinality(mem)]
  <2>1. /\ At("Explainability", "return") /\ Return(e)
        /\ UNCHANGED stores
    BY <1>4 DEF ShapReturns
  <2>2. state' \in {"BedrockExplanations", "DataLimitExceeded"}
    BY <2>1, ReturnEffect, NextStates DEF At
  <2>3. Cardinality(mem) \in Nat
    BY CountsAreNat DEF IInv, TypeOK
  <2>4. /\ e \in Event /\ e.explKey /\ e.explCount = Cardinality(mem)
        /\ e.withData = event.withData /\ e.vectors = event.vectors
        /\ e.fvKey = event.fvKey /\ e.fvCount = event.fvCount
        /\ e.predKey = event.predKey /\ e.predCount = event.predCount
    BY <2>3 DEF IInv, TypeOK, Event
  <2>5. explObj = mem /\ explObj # None
    BY <2>1, NoneIsNoSet DEF At, IInv, TypeOK, LocalInv
  <2>6. QED
    <3> HIDE DEF e
    <3>1. TypeOK'
      BY <2>1, <2>2, <2>4, ReturnEffect
         DEF IInv, TypeOK, TaskStates, FinalStates, Steps, stores
    <3>2. EventPointsToStored' /\ TableNeverAhead'
      BY <2>1, <2>4, <2>5, ReturnEffect
         DEF IInv, EventPointsToStored, TableNeverAhead, Stored, stores
    <3>3. LocalInv' /\ OrderInv'
      BY <2>1, <2>2, <2>4, ReturnEffect
         DEF IInv, LocalInv, OrderInv, At, InPredict, BeforeStore,
             BeforePredict, BeforeShap, PredictStates, stores
    <3>4. QED
      BY <3>1, <3>2, <3>3 DEF IInv
<1>5. CASE PutExplanations
  <2>1. /\ Inside /\ UNCHANGED <<raw, features, predObj, predTable, explObj>>
    BY <1>5 DEF PutExplanations
  <2>2. TypeOK'
    BY <1>5
       DEF PutExplanations, IInv, TypeOK, Event, Object, Steps, Inside, context
  <2>3. LocalInv'
    BY <1>5, <2>1
       DEF PutExplanations, Inside, LocalInv, At, InPredict, PredictStates
  <2>4. QED
    BY <2>1, <2>2, <2>3, InsideKeeps DEF IInv
<1>6. CASE BedrockReturns
  <2>1. /\ At("BedrockExplanations", "return") /\ Return(event)
        /\ UNCHANGED stores
    BY <1>6 DEF BedrockReturns
  <2>2. state' \in {"GenerateReports", "DataLimitExceeded"}
    BY <2>1, ReturnEffect, NextStates DEF At
  <2>3. TypeOK'
    BY <2>1, <2>2, ReturnEffect
       DEF IInv, TypeOK, TaskStates, FinalStates, Steps, stores
  <2>4. EventPointsToStored' /\ TableNeverAhead'
    BY <2>1, ReturnEffect
       DEF IInv, EventPointsToStored, TableNeverAhead, Stored, stores
  <2>5. LocalInv' /\ OrderInv'
    BY <2>1, <2>2, ReturnEffect
       DEF IInv, LocalInv, OrderInv, At, InPredict, BeforeStore,
           BeforePredict, BeforeShap, PredictStates, stores
  <2>6. QED
    BY <2>3, <2>4, <2>5 DEF IInv
<1>7. QED
  BY <1>1, <1>2, <1>3, <1>4, <1>5, <1>6 DEF Explain

(* The reports: nothing but the report files is written.                   *)
LEMMA ReportKeeps == ASSUME IInv, Report PROVE IInv'
<1>1. CASE BeginReports
  <2>1. Inside /\ UNCHANGED stores
    BY <1>1 DEF BeginReports
  <2>2. TypeOK'
    BY <1>1, <2>1
       DEF BeginReports, IInv, TypeOK, Event, Steps, Inside, context, stores
  <2>3. LocalInv'
    BY <1>1, <2>1 DEF BeginReports, Inside, LocalInv, At, InPredict, PredictStates
  <2>4. QED
    BY <2>1, <2>2, <2>3, InsideKeeps DEF IInv, stores
<1>2. ASSUME NEW f \in ReportFiles, UploadReport(f) PROVE IInv'
  <2>1. /\ Inside /\ UNCHANGED <<raw, features, predObj, predTable, explObj>>
    BY <1>2 DEF UploadReport
  <2>2. TypeOK'
    BY <1>2 DEF UploadReport, IInv, TypeOK, Inside, context
  <2>3. LocalInv'
    BY <1>2, <2>1 DEF UploadReport, Inside, LocalInv, At, InPredict, PredictStates
  <2>4. QED
    BY <2>1, <2>2, <2>3, InsideKeeps DEF IInv
<1>3. CASE ReportReturns
  <2>1. /\ At("GenerateReports", "upload") /\ Return(event)
        /\ UNCHANGED stores
    BY <1>3 DEF ReportReturns
  <2>2. state' \in {"Succeeded", "DataLimitExceeded"}
    BY <2>1, ReturnEffect, NextStates DEF At
  <2>3. TypeOK'
    BY <2>1, <2>2, ReturnEffect
       DEF IInv, TypeOK, TaskStates, FinalStates, Steps, stores
  <2>4. EventPointsToStored' /\ TableNeverAhead'
    BY <2>1, ReturnEffect
       DEF IInv, EventPointsToStored, TableNeverAhead, Stored, stores
  <2>5. LocalInv' /\ OrderInv'
    BY <2>1, <2>2, ReturnEffect
       DEF IInv, LocalInv, OrderInv, At, InPredict, BeforeStore,
           BeforePredict, BeforeShap, PredictStates, stores
  <2>6. QED
    BY <2>3, <2>4, <2>5 DEF IInv
<1>4. QED
  BY <1>1, <1>2, <1>3 DEF Report

(* A failure loses the local state only.                                   *)
LEMMA FailureKeeps == ASSUME IInv, TaskFails PROVE IInv'
<1>1. /\ state' \in {state, "PipelineFailed"} /\ state \in TaskStates
      /\ retries' \in Nat
      /\ step' = "start" /\ todo' = {} /\ mem' = {}
      /\ UNCHANGED <<trigger, mode, faulty, rejects, event, stores>>
  BY DEF TaskFails, Fresh, context, IInv, TypeOK
<1>2. TypeOK'
  BY <1>1 DEF IInv, TypeOK, FinalStates, Steps, stores
<1>3. EventPointsToStored' /\ TableNeverAhead'
  BY <1>1 DEF IInv, EventPointsToStored, TableNeverAhead, Stored, stores
<1>4. LocalInv' /\ OrderInv'
  BY <1>1
     DEF IInv, LocalInv, OrderInv, At, InPredict, BeforeStore, BeforePredict,
         BeforeShap, PredictStates, stores, VectorsToPredict
<1>5. QED
  BY <1>2, <1>3, <1>4 DEF IInv

(* Steps that change nothing.                                              *)
LEMMA StutterKeeps == ASSUME IInv, UNCHANGED vars PROVE IInv'
<1>1. TypeOK'
  BY DEF vars, context, local, stores, IInv, TypeOK
<1>2. EventPointsToStored' /\ TableNeverAhead'
  BY DEF vars, stores, IInv, EventPointsToStored, TableNeverAhead, Stored
<1>3. LocalInv' /\ OrderInv'
  BY DEF vars, local, stores, IInv, LocalInv, OrderInv, At, InPredict,
         VectorsToPredict
<1>4. QED
  BY <1>1, <1>2, <1>3 DEF IInv

-----------------------------------------------------------------------------

(* The strengthened invariant holds in every state of every execution.     *)
THEOREM InductiveInvariant == Spec => []IInv
<1>1. Init => IInv
  BY InitInv
<1>2. IInv /\ [Next]_vars => IInv'
  BY IngestKeeps, ExtractKeeps, EngineerKeeps, StoreKeeps, PredictKeeps,
     ExplainKeeps, ReportKeeps, FailureKeeps, StutterKeeps DEF Next
<1>3. QED
  BY <1>1, <1>2, PTL DEF Spec

(* The variables keep their types.                                         *)
THEOREM TypeCorrect == Spec => []TypeOK
<1>1. IInv => TypeOK
  BY DEF IInv
<1>2. QED
  BY <1>1, InductiveInvariant, PTL

(* R17.4: the event never names an object that is missing or has another   *)
(* number of users, however many attempts failed on the way.               *)
THEOREM EventIsBacked == Spec => []EventPointsToStored
<1>1. IInv => EventPointsToStored
  BY DEF IInv
<1>2. QED
  BY <1>1, InductiveInvariant, PTL

(* Every row of the predictions table has its prediction in S3.            *)
THEOREM TableIsBacked == Spec => []TableNeverAhead
<1>1. IInv => TableNeverAhead
  BY DEF IInv
<1>2. QED
  BY <1>1, InductiveInvariant, PTL

-----------------------------------------------------------------------------
(* What is put twice                                                       *)

(* In the first try of a state whose object exists there is nothing to put:*)
(* the state before it has taken the vectors out of the event.             *)
PutOnce ==
    /\ (state \in PredictStates /\ predObj # None /\ retries = 0 /\ step # "rows")
          => VectorsToPredict = {}
    /\ (state = "Explainability" /\ explObj # None /\ retries = 0)
          => step = "return"

(* A handler returns: the state it leads to finds no object of its own, or *)
(* no vectors.                                                             *)
LEMMA ReturnKeepsPutOnce ==
    ASSUME IInv, NEW e, Return(e), UNCHANGED stores,
           NextState(state) \in PredictStates =>
               predObj = None \/ (e.vectors = {} /\ ~e.fvKey),
           NextState(state) = "Explainability" => explObj = None
    PROVE  PutOnce'
<1>1. /\ event' = e /\ step' = "start"
      /\ state' \in {NextState(state), "DataLimitExceeded"}
      /\ UNCHANGED <<predObj, explObj, features>>
  BY ReturnEffect DEF stores
<1>2. state' \in PredictStates /\ predObj' # None => VectorsToPredict' = {}
  BY <1>1 DEF VectorsToPredict, PredictStates
<1>3. state' = "Explainability" => explObj' = None
  BY <1>1
<1>4. QED  BY <1>2, <1>3 DEF PutOnce

(* A step inside a handler that puts neither object.                       *)
LEMMA InsideKeepsPutOnce ==
    ASSUME PutOnce, Inside, UNCHANGED <<predObj, explObj>>,
           state = "FeatureEngineering" \/ features' = features,
           state \in PredictStates /\ step = "rows" => step' = "rows",
           state = "Explainability" => step # "return"
    PROVE  PutOnce'
BY DEF PutOnce, Inside, VectorsToPredict, PredictStates

(* Every step keeps it.                                                    *)
LEMMA PutOnceKept == ASSUME IInv, PutOnce, [Next]_vars PROVE PutOnce'
<1>e. event \in Event
  BY DEF IInv, TypeOK
<1>1. CASE \E V \in SUBSET Users : IngestReturns(V)
  <2>1. state = "Ingestion" /\ UNCHANGED stores /\ \E e : Return(e)
    BY <1>1 DEF IngestReturns, At
  <2>2. QED  BY <2>1, NextStates, ReturnKeepsPutOnce DEF PredictStates
<1>2. CASE Extract
  <2>1. CASE ExtractReturns
    <3>1. state = "Extraction" /\ UNCHANGED stores /\ \E e : Return(e)
      BY <2>1 DEF ExtractReturns, At
    <3>2. QED  BY <3>1, NextStates, ReturnKeepsPutOnce DEF PredictStates
  <2>2. CASE BeginExtract \/ ExtractedAll
             \/ \E u \in Users : ExtractUser(u) \/ PersistSessions(u)
    <3>1. /\ Inside /\ state = "Extraction"
          /\ UNCHANGED <<features, predObj, explObj>>
      BY <2>2 DEF BeginExtract, ExtractedAll, ExtractUser, PersistSessions, At, stores
    <3>2. QED  BY <3>1, InsideKeepsPutOnce DEF PredictStates
  <2>3. QED  BY <1>2, <2>1, <2>2 DEF Extract
<1>3. CASE Engineer
  <2>1. CASE FeatureReturns
    <3>1. state = "FeatureEngineering" /\ UNCHANGED stores /\ \E e : Return(e)
      BY <2>1 DEF FeatureReturns, At
    <3>2. QED  BY <3>1, NextStates, ReturnKeepsPutOnce DEF PredictStates
  <2>2. CASE PutFeatures \/ \E F \in SUBSET Users : LoadAndCompute(F)
    <3>1. /\ Inside /\ state = "FeatureEngineering"
          /\ UNCHANGED <<predObj, explObj>>
      BY <2>2 DEF PutFeatures, LoadAndCompute, At, stores
    <3>2. QED  BY <3>1, InsideKeepsPutOnce DEF PredictStates
  <2>3. QED  BY <1>3, <2>1, <2>2 DEF Engineer
<1>4. CASE Store
  <2>1. CASE StoreReturns
    <3>1. state = "StoreFeatures" /\ UNCHANGED stores /\ \E e : Return(e)
      BY <2>1 DEF StoreReturns, At
    <3>2. predObj = None
      BY <3>1 DEF IInv, OrderInv, BeforePredict
    <3>3. QED  BY <3>1, <3>2, NextStates, ReturnKeepsPutOnce
  <2>2. CASE BeginStore \/ \E u \in Users : StoreVector(u)
    <3>1. /\ Inside /\ state = "StoreFeatures"
          /\ UNCHANGED <<features, predObj, explObj>>
      BY <2>2 DEF BeginStore, StoreVector, At, stores
    <3>2. QED  BY <3>1, InsideKeepsPutOnce DEF PredictStates
  <2>3. QED  BY <1>4, <2>1, <2>2 DEF Store
<1>5. CASE Predict
  <2>1. CASE PredictNothing \/ PredictReturns
    <3>1. PICK k, c :
            /\ Return([event EXCEPT !.predKey = k, !.predCount = c,
                                    !.vectors = {}, !.fvKey = FALSE])
            /\ UNCHANGED stores /\ state \in PredictStates
      BY <2>1 DEF PredictNothing, PredictReturns, InPredict
    <3> DEFINE e == [event EXCEPT !.predKey = k, !.predCount = c,
                                  !.vectors = {}, !.fvKey = FALSE]
    <3>2. e.vectors = {} /\ ~e.fvKey
      BY <1>e DEF Event
    <3>3. explObj = None
      BY <3>1 DEF IInv, OrderInv, BeforeShap
    <3> HIDE DEF e
    <3>4. QED  BY <3>1, <3>2, <3>3, ReturnKeepsPutOnce DEF e
  <2>2. CASE LoadVectors \/ \E u \in Users : PutRow(u)
    <3>1. /\ Inside /\ state \in PredictStates
          /\ UNCHANGED <<features, predObj, explObj>>
          /\ step = "rows" => step' = "rows"
      BY <2>2 DEF LoadVectors, PutRow, InPredict, stores
    <3>2. QED  BY <3>1, InsideKeepsPutOnce DEF PredictStates
  <2>3. CASE PutPredictions
    BY <2>3 DEF PutPredictions, InPredict, Inside, PutOnce, PredictStates
  <2>4. QED  BY <1>5, <2>1, <2>2, <2>3 DEF Predict
<1>6. CASE Explain
  <2>1. CASE SkipShap \/ ShapReturns \/ BedrockReturns
    <3>1. /\ state \in {"Explainability", "BedrockExplanations"}
          /\ UNCHANGED stores /\ \E e : Return(e)
      BY <2>1 DEF SkipShap, ShapReturns, BedrockReturns, At
    <3>2. QED  BY <3>1, NextStates, ReturnKeepsPutOnce DEF PredictStates
  <2>2. CASE ComputeShap \/ PutExplanations
    <3>1. /\ Inside /\ UNCHANGED <<features, predObj, explObj>>
          /\ state = "Explainability" => step # "return"
          /\ state \notin PredictStates
      BY <2>2 DEF ComputeShap, PutExplanations, At, stores, PredictStates
    <3>2. QED  BY <3>1, InsideKeepsPutOnce
  <2>3. CASE PutShap
    BY <2>3 DEF PutShap, At, Inside, PutOnce, PredictStates
  <2>4. QED  BY <1>6, <2>1, <2>2, <2>3 DEF Explain
<1>7. CASE Report
  <2>1. CASE ReportReturns
    <3>1. state = "GenerateReports" /\ UNCHANGED stores /\ \E e : Return(e)
      BY <2>1 DEF ReportReturns, At
    <3>2. QED  BY <3>1, NextStates, ReturnKeepsPutOnce DEF PredictStates
  <2>2. CASE BeginReports \/ \E f \in ReportFiles : UploadReport(f)
    <3>1. /\ Inside /\ state = "GenerateReports"
          /\ UNCHANGED <<features, predObj, explObj>>
      BY <2>2 DEF BeginReports, UploadReport, At, stores
    <3>2. QED  BY <3>1, InsideKeepsPutOnce DEF PredictStates
  <2>3. QED  BY <1>7, <2>1, <2>2 DEF Report
<1>8. CASE TaskFails
  <2>1. retries' # 0 \/ state' = "PipelineFailed"
    BY <1>8 DEF TaskFails, IInv, TypeOK
  <2>2. QED  BY <2>1 DEF PutOnce, PredictStates
<1>9. CASE UNCHANGED vars
  BY <1>9 DEF vars, local, stores, PutOnce, VectorsToPredict
<1>10. QED
  BY <1>1, <1>2, <1>3, <1>4, <1>5, <1>6, <1>7, <1>8, <1>9 DEF Next

(* R17.4: a prediction or explanation object, once put, is never lost and  *)
(* stays about the same users; only a retry of the state that put it       *)
(* computes it anew.                                                       *)
THEOREM ResultsSurvive == Spec => ResultsAreKept
<1> DEFINE Kept == /\ predObj # None =>
                         /\ predObj' = predObj
                         /\ InPredict("put") /\ step' = "rows" => retries > 0
                   /\ explObj # None =>
                         /\ explObj' = explObj
                         /\ At("Explainability", "put") /\ step' = "return"
                               => retries > 0
<1>1. IInv /\ PutOnce /\ [Next]_vars => Kept
  <2> SUFFICES ASSUME IInv, PutOnce, [Next]_vars PROVE Kept
    OBVIOUS
  <2>1. predObj # None /\ InPredict("put") => retries > 0
    BY DEF InPredict, PutOnce, IInv, LocalInv, TypeOK
  <2>2. explObj # None /\ At("Explainability", "put") => retries > 0
    BY DEF At, PutOnce, IInv, TypeOK
  <2>3. (predObj # None => predObj' = predObj) /\ (explObj # None => explObj' = explObj)
    <3>1. CASE PutPredictions
      BY <3>1
         DEF PutPredictions, InPredict, IInv, LocalInv, OrderInv
    <3>2. CASE PutShap
      BY <3>2 DEF PutShap, At, IInv, LocalInv, OrderInv
    <3>3. CASE ~PutPredictions /\ ~PutShap
      <4>1. UNCHANGED <<predObj, explObj>>
        BY <3>3
           DEF Next, vars, stores, IngestReturns, Extract, BeginExtract,
               ExtractUser, ExtractedAll, PersistSessions, ExtractReturns,
               Engineer, LoadAndCompute, PutFeatures, FeatureReturns, Store,
               BeginStore, StoreVector, StoreReturns, Predict, LoadVectors,
               PredictNothing, PutRow, PredictReturns, Explain, SkipShap,
               ComputeShap, ShapReturns, PutExplanations, BedrockReturns,
               Report, BeginReports, UploadReport, ReportReturns, TaskFails
      <4>2. QED
        BY <4>1
    <3>4. QED
      BY <3>1, <3>2, <3>3
  <2>4. QED  BY <2>1, <2>2, <2>3
<1>2. Init => PutOnce
  BY DEF Init, PutOnce, PredictStates
<1>3. IInv /\ PutOnce /\ [Next]_vars => PutOnce'
  BY PutOnceKept
<1>4. QED
  BY <1>1, <1>2, <1>3, InductiveInvariant, PTL DEF Spec, ResultsAreKept

-----------------------------------------------------------------------------
(* Provenance                                                              *)

(* An execution no caller gave vectors to has none in its event, and what  *)
(* it predicts are the features it computed from stored sessions.          *)
ProvInv ==
    /\ step = "start" => mem = {}
    /\ trigger # "manual" =>
          /\ event.vectors = {}
          /\ At("StoreFeatures", "store") => mem = {} /\ todo = {}
          /\ At("FeatureEngineering", "put") => mem \subseteq raw
          /\ features # None => features \subseteq raw
          /\ predObj \in {None, features}

(* A handler that returns adds no vectors.                                 *)
LEMMA ReturnKeepsProv ==
    ASSUME ProvInv, NEW e, Return(e), UNCHANGED stores,
           trigger # "manual" => e.vectors = {}
    PROVE  ProvInv'
BY ReturnEffect DEF ProvInv, At, stores

(* A step inside a handler that stores no features and no predictions.     *)
LEMMA InsideKeepsProv ==
    ASSUME ProvInv, Inside, UNCHANGED <<features, predObj>>, raw \subseteq raw',
           step' # "start",
           At("StoreFeatures", "store")' /\ trigger # "manual" =>
               mem' = {} /\ todo' = {},
           At("FeatureEngineering", "put")' => mem' \subseteq raw
    PROVE  ProvInv'
BY DEF ProvInv, Inside, context

(* The two steps that put an object.                                       *)
LEMMA PutKeepsProv ==
    ASSUME IInv, ProvInv, PutFeatures \/ PutPredictions
    PROVE  ProvInv'
<1>1. CASE PutFeatures
  <2>1. predObj = None
    BY <1>1 DEF PutFeatures, At, IInv, OrderInv, BeforePredict, BeforeStore
  <2>2. /\ UNCHANGED <<trigger, state, event, raw, predObj>>
        /\ features' = mem /\ step' = "return" /\ At("FeatureEngineering", "put")
    BY <1>1 DEF PutFeatures, Inside, context
  <2>3. QED  BY <2>1, <2>2 DEF ProvInv, At
<1>2. CASE PutPredictions
  <2>1. /\ UNCHANGED <<trigger, state, event, raw, features>>
        /\ predObj' = mem /\ step' = "rows" /\ InPredict("put")
    BY <1>2 DEF PutPredictions, Inside, context
  <2>2. mem = VectorsToPredict /\ mem # {}
    BY <2>1 DEF IInv, LocalInv
  <2>3. trigger # "manual" => mem = features
    BY <2>2 DEF VectorsToPredict, ProvInv
  <2>4. QED  BY <2>1, <2>3 DEF ProvInv, At
<1>3. QED  BY <1>1, <1>2

(* Every step keeps the provenance.                                        *)
LEMMA ProvKept == ASSUME IInv, ProvInv, [Next]_vars PROVE ProvInv'
<1>e. event \in Event /\ state \in TaskStates \cup FinalStates
  BY DEF IInv, TypeOK
<1>1. ASSUME NEW V \in SUBSET Users, IngestReturns(V) PROVE ProvInv'
  <2> DEFINE e == [event EXCEPT !.valid = V]
  <2>1. Return(e) /\ UNCHANGED stores /\ e.vectors = event.vectors
    BY <1>1, <1>e DEF IngestReturns, Event
  <2> HIDE DEF e
  <2>2. QED  BY <2>1, ReturnKeepsProv DEF ProvInv
<1>2. CASE Extract
  <2>1. CASE ExtractReturns
    <3> DEFINE e == [event EXCEPT !.withData = mem]
    <3>1. Return(e) /\ UNCHANGED stores /\ e.vectors = event.vectors
      BY <2>1, <1>e DEF ExtractReturns, Event
    <3> HIDE DEF e
    <3>2. QED  BY <3>1, ReturnKeepsProv DEF ProvInv
  <2>2. CASE BeginExtract \/ ExtractedAll
             \/ \E u \in Users : ExtractUser(u) \/ PersistSessions(u)
    <3>1. /\ Inside /\ state = "Extraction" /\ step' # "start"
          /\ raw \subseteq raw' /\ UNCHANGED <<features, predObj>>
      BY <2>2 DEF BeginExtract, ExtractedAll, ExtractUser, PersistSessions, At, stores
    <3>2. state' = "Extraction"
      BY <3>1 DEF Inside
    <3>3. QED  BY <3>1, <3>2, InsideKeepsProv DEF At
  <2>3. QED  BY <1>2, <2>1, <2>2 DEF Extract
<1>3. CASE Engineer
  <2>1. ASSUME NEW F \in SUBSET Users, LoadAndCompute(F) PROVE ProvInv'
    <3>1. /\ Inside /\ state = "FeatureEngineering" /\ step' = "put"
          /\ UNCHANGED <<raw, features, predObj>> /\ mem' \subseteq raw
      BY <2>1 DEF LoadAndCompute, At, stores
    <3>2. state' = "FeatureEngineering"
      BY <3>1 DEF Inside
    <3>3. QED  BY <3>1, <3>2, InsideKeepsProv DEF At
  <2>2. CASE FeatureReturns
    <3> DEFINE e == [event EXCEPT !.fvKey = TRUE, !.fvCount = Cardinality(mem),
                                  !.valid = {}, !.withData = {}]
    <3>1. Return(e) /\ UNCHANGED stores /\ e.vectors = event.vectors
      BY <2>2, <1>e DEF FeatureReturns, Event
    <3> HIDE DEF e
    <3>2. QED  BY <3>1, ReturnKeepsProv DEF ProvInv
  <2>3. QED  BY <1>3, <2>1, <2>2, PutKeepsProv DEF Engineer
<1>4. CASE Store
  <2>1. CASE BeginStore
    <3>1. /\ Inside /\ state = "StoreFeatures" /\ step = "start" /\ step' = "store"
          /\ UNCHANGED <<raw, features, predObj, mem>> /\ todo' = event.vectors
      BY <2>1 DEF BeginStore, At, stores
    <3>2. state' = "StoreFeatures" /\ mem = {}
      BY <3>1 DEF Inside, ProvInv
    <3>3. trigger # "manual" => todo' = {}
      BY <3>1 DEF ProvInv
    <3>4. QED  BY <3>1, <3>2, <3>3, InsideKeepsProv DEF At
  <2>2. ASSUME NEW u \in Users, StoreVector(u) PROVE ProvInv'
    <3>1. /\ Inside /\ At("StoreFeatures", "store") /\ u \in todo
          /\ step' = "store" /\ UNCHANGED <<raw, features, predObj>>
      BY <2>2 DEF StoreVector, At
    <3>2. trigger = "manual"
      BY <3>1 DEF ProvInv
    <3>3. state' = "StoreFeatures"
      BY <3>1 DEF Inside, At
    <3>4. QED  BY <3>1, <3>2, <3>3, InsideKeepsProv DEF At
  <2>3. CASE StoreReturns
    <3> DEFINE e == [event EXCEPT !.vectors = mem]
    <3>1. Return(e) /\ UNCHANGED stores /\ e.vectors = mem
      BY <2>3, <1>e DEF StoreReturns, Event
    <3> HIDE DEF e
    <3>2. trigger # "manual" => mem = {}
      BY <2>3 DEF StoreReturns, ProvInv
    <3>3. QED  BY <3>1, <3>2, ReturnKeepsProv
  <2>4. QED  BY <1>4, <2>1, <2>2, <2>3 DEF Store
<1>5. CASE Predict
  <2>1. ASSUME NEW e \in Event, Return(e), UNCHANGED stores, e.vectors = {}
        PROVE  ProvInv'
    BY <2>1, ReturnKeepsProv
  <2>2. CASE PredictNothing \/ PredictReturns
    <3>1. PICK k \in BOOLEAN, c \in Nat :
            /\ Return([event EXCEPT !.predKey = k, !.predCount = c,
                                    !.vectors = {}, !.fvKey = FALSE])
            /\ UNCHANGED stores
      <4>1. Cardinality(mem) \in Nat
        BY CountsAreNat DEF IInv, TypeOK
      <4>2. QED  BY <2>2, <4>1 DEF PredictNothing, PredictReturns
    <3> DEFINE e == [event EXCEPT !.predKey = k, !.predCount = c,
                                  !.vectors = {}, !.fvKey = FALSE]
    <3>2. e \in Event /\ e.vectors = {}
      BY <1>e DEF Event
    <3> HIDE DEF e
    <3>3. QED  BY <2>1, <3>1, <3>2 DEF e
  <2>3. CASE LoadVectors \/ \E u \in Users : PutRow(u)
    <3>1. /\ Inside /\ state \in PredictStates /\ step' \in {"put", "rows"}
          /\ UNCHANGED <<raw, features, predObj>>
      BY <2>3 DEF LoadVectors, PutRow, InPredict, stores
    <3>2. state' \in PredictStates
      BY <3>1 DEF Inside
    <3>3. QED  BY <3>1, <3>2, InsideKeepsProv DEF At, PredictStates
  <2>4. QED  BY <1>5, <2>2, <2>3, PutKeepsProv DEF Predict
<1>6. CASE Explain
  <2>1. CASE SkipShap \/ ShapReturns \/ BedrockReturns
    <3>1. ASSUME NEW k, NEW c, UNCHANGED stores,
                 Return([event EXCEPT !.explKey = k, !.explCount = c])
          PROVE  ProvInv'
      <4> DEFINE e == [event EXCEPT !.explKey = k, !.explCount = c]
      <4>1. e.vectors = event.vectors /\ Return(e)
        BY <1>e, <3>1 DEF Event
      <4> HIDE DEF e
      <4>2. QED  BY <3>1, <4>1, ReturnKeepsProv DEF ProvInv
    <3>2. CASE SkipShap \/ ShapReturns
      BY <3>1, <3>2 DEF SkipShap, ShapReturns
    <3>3. CASE BedrockReturns
      BY <3>3, ReturnKeepsProv DEF BedrockReturns, ProvInv
    <3>4. QED  BY <2>1, <3>2, <3>3
  <2>2. CASE ComputeShap \/ PutShap \/ PutExplanations
    <3>1. /\ Inside /\ state \in {"Explainability", "BedrockExplanations"}
          /\ step' \in {"put", "return"} /\ UNCHANGED <<raw, features, predObj>>
      BY <2>2 DEF ComputeShap, PutShap, PutExplanations, At, stores
    <3>2. state' \in {"Explainability", "BedrockExplanations"}
      BY <3>1 DEF Inside
    <3>3. QED  BY <3>1, <3>2, InsideKeepsProv DEF At
  <2>3. QED  BY <1>6, <2>1, <2>2 DEF Explain
<1>7. CASE Report
  <2>1. CASE ReportReturns
    <3>1. Return(event) /\ UNCHANGED stores
      BY <2>1 DEF ReportReturns
    <3>2. QED  BY <3>1, ReturnKeepsProv DEF ProvInv
  <2>2. CASE BeginReports \/ \E f \in ReportFiles : UploadReport(f)
    <3>1. /\ Inside /\ state = "GenerateReports" /\ step' = "upload"
          /\ UNCHANGED <<raw, features, predObj>>
      BY <2>2 DEF BeginReports, UploadReport, At, stores
    <3>2. state' = "GenerateReports"
      BY <3>1 DEF Inside
    <3>3. QED  BY <3>1, <3>2, InsideKeepsProv DEF At
  <2>3. QED  BY <1>7, <2>1, <2>2 DEF Report
<1>8. CASE TaskFails
  BY <1>8 DEF TaskFails, Fresh, context, stores, ProvInv, At
<1>9. CASE UNCHANGED vars
  BY <1>9 DEF vars, local, context, stores, ProvInv, At
<1>10. QED
  BY <1>1, <1>2, <1>3, <1>4, <1>5, <1>6, <1>7, <1>8, <1>9 DEF Next

(* R17.5: predictions and SHAP values are about exactly the users in the   *)
(* feature object, and those all have their sessions stored, unless the    *)
(* start brought vectors of its own.                                       *)
THEOREM ResultsHaveSessions == Spec => []Provenance
<1>1. Init => ProvInv
  <2> SUFFICES ASSUME Init PROVE ProvInv
    OBVIOUS
  <2>1. PICK V, P \in CarriedBy(trigger) : event = StartEvent(V, P)
    BY DEF Init
  <2>2. trigger # "manual" => event.vectors = {}
    BY <2>1 DEF CarriedBy, StartEvent
  <2>3. QED  BY <2>2 DEF Init, ProvInv, At
<1>2. IInv /\ ProvInv /\ [Next]_vars => ProvInv'
  BY ProvKept
<1>3. IInv /\ ProvInv => Provenance
  BY DEF IInv, OrderInv, ProvInv, Provenance
<1>4. QED  BY <1>1, <1>2, <1>3, InductiveInvariant, PTL DEF Spec

-----------------------------------------------------------------------------
(* The caller that polls                                                   *)

(* wait_for_completion() does nothing to the execution it polls: what is   *)
(* proved of an execution holds for one that is watched.                   *)
THEOREM WatchOnlyReads == WatchSpec => Spec
<1>1. WatchInit => Init
  BY DEF WatchInit
<1>2. [WatchNext]_allVars => [Next]_vars
  BY DEF WatchNext, PipelineStep, BeginWatch, WatchStep, CheckDeadline, Describe,
         DescribeRaises, Awake, DeadlinePasses, allVars
<1>3. QED  BY <1>1, <1>2, PTL DEF WatchSpec, Spec

(* A step of the execution is taken in a task state, and only there.       *)
LEMMA FinalStatesAreFinal == ASSUME Next PROVE state \in TaskStates
<1>1. CASE \E V \in SUBSET Users : IngestReturns(V)
  BY <1>1 DEF IngestReturns, At, TaskStates
<1>2. CASE Extract
  BY <1>2 DEF Extract, BeginExtract, ExtractUser, ExtractedAll, PersistSessions,
              ExtractReturns, At, TaskStates
<1>3. CASE Engineer
  BY <1>3 DEF Engineer, LoadAndCompute, PutFeatures, FeatureReturns, At, TaskStates
<1>4. CASE Store
  BY <1>4 DEF Store, BeginStore, StoreVector, StoreReturns, At, TaskStates
<1>5. CASE Predict
  BY <1>5 DEF Predict, PredictNothing, LoadVectors, PutPredictions, PutRow,
              PredictReturns, InPredict, TaskStates
<1>6. CASE Explain
  BY <1>6 DEF Explain, SkipShap, ComputeShap, PutShap, ShapReturns,
              PutExplanations, BedrockReturns, At, TaskStates
<1>7. CASE Report
  BY <1>7 DEF Report, BeginReports, UploadReport, ReportReturns, At, TaskStates
<1>8. CASE TaskFails
  BY <1>8 DEF TaskFails
<1>9. QED
  BY <1>1, <1>2, <1>3, <1>4, <1>5, <1>6, <1>7, <1>8 DEF Next

(* The loop returns only when the execution has ended, and the status it   *)
(* returns is how it ended and stays so: never one it went through.        *)
THEOREM StatusIsOutcome == WatchSpec => []ReturnedIsOutcome
<1> DEFINE Told == watch = "returned" => state \notin TaskStates /\ seen = Status
<1>1. WatchInit => Told
  BY DEF WatchInit
<1>2. Told /\ [WatchNext]_allVars => Told'
  <2> SUFFICES ASSUME Told, [WatchNext]_allVars PROVE Told'
    OBVIOUS
  <2>1. CASE PipelineStep
    BY <2>1, FinalStatesAreFinal DEF PipelineStep, watchVars
  <2>2. CASE Describe
    <3>1. state \in TaskStates => Status \notin TerminalStatuses
      BY DEF Status, TerminalStatuses, TaskStates, PredictStates
    <3>2. state' = state /\ Status' = Status
      BY <2>2 DEF Describe, vars, Status
    <3>3. QED  BY <2>2, <3>1, <3>2 DEF Describe
  <2>3. CASE UNCHANGED vars /\ ~Describe
    <3>1. state' = state /\ Status' = Status
      BY <2>3 DEF vars, Status
    <3>2. watch' = "returned" => watch = "returned" /\ seen' = seen
      BY <2>3, FinalStatesAreFinal
         DEF WatchNext, BeginWatch, WatchStep, CheckDeadline, DescribeRaises, Awake,
             DeadlinePasses, PipelineStep, watchVars, allVars
    <3>3. QED  BY <3>1, <3>2
  <2>4. QED
    BY <2>1, <2>2, <2>3
       DEF WatchNext, BeginWatch, WatchStep, CheckDeadline, DescribeRaises, Awake,
           DeadlinePasses, allVars
<1>3. TypeOK /\ Told => ReturnedIsOutcome
  BY DEF ReturnedIsOutcome, TypeOK
<1>4. QED  BY <1>1, <1>2, <1>3, WatchOnlyReads, TypeCorrect, PTL DEF WatchSpec
=============================================================================
