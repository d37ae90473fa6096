------------------------------ MODULE Explanations ------------------------------
(***************************************************************************)
(* The stage BedrockExplanations: bedrock_handler (src/src/orchestrator/   *)
(* handlers) goes through the predictions and has BedrockExplainer         *)
(* (src/src/explanations/bedrock_explainer.py) ask for a text, with at     *)
(* most MaxCalls calls for each.  The texts are saved together when all    *)
(* are there; an invocation that is killed before leaves nothing.          *)
(*                                                                         *)
(* A text is the SHAP entry it was asked with, Failed the None of an       *)
(* explanation that is not there.                                          *)
(***************************************************************************)
EXTENDS Naturals, Sequences, FiniteSets

CONSTANTS
    Batches,   \* what the event may hold: [tiers, shap], see Batch
    Failed,    \* None
    Broken,    \* a SHAP entry FeatureContribution cannot be built from
    MaxCalls,  \* MAX_RETRIES: calls per prediction (2)
    MaxTries   \* tries of the stage: 1 and the Retry's MaxAttempts (3)

(* The tiers of the predictions, all of different users, and the SHAP      *)
(* entries, looked up by the position of the prediction and not by their   *)
(* user: an entry may be Failed or Broken, and there may be fewer of them  *)
(* than predictions.                                                       *)
Batch(b) ==
    /\ b.tiers \in Seq({"Low", "Medium", "High"})
    /\ Len(b.shap) <= Len(b.tiers)

ASSUME ExplanationsAssumption ==
    /\ \A b \in Batches : Batch(b)
    /\ Broken # Failed
    /\ MaxCalls \in Nat \ {0}
    /\ MaxTries \in Nat \ {0}

VARIABLES
    batch,    \* predictions and explainability_results of the event
    killable, \* may the invocation be killed or S3 fail?
    bpc,      \* "loop", "call", "put", "returned", "failed"
    texts,    \* explanations so far, in the order of the predictions
    calls,    \* calls of generate_explanation() for the current prediction
    good,     \* explanation_success_count
    bad,      \* explanation_failure_count
    tried,    \* tries of the stage that failed
    saved     \* predictions/{execution_id}/explanations.json

explVars == <<batch, killable, bpc, texts, calls, good, bad, tried, saved>>

Unsaved == <<Failed>>

ExplInit ==
    /\ batch \in Batches
    /\ killable \in BOOLEAN
    /\ bpc = "loop"
    /\ texts = <<>> /\ calls = 0 /\ good = 0 /\ bad = 0
    /\ tried = 0
    /\ saved = Unsaved

-----------------------------------------------------------------------------

Current == Len(texts) + 1

Tier(i) == batch.tiers[i]

Shap(i) == IF i \in DOMAIN batch.shap THEN batch.shap[i] ELSE Failed

Looping == bpc = "loop" /\ Current <= Len(batch.tiers)

Take(text) == texts' = Append(texts, text)

(* A low risk needs no explanation and counts as neither.                  *)
SkipLow ==
    /\ Looping
    /\ Tier(Current) = "Low"
    /\ Take(Failed)
    /\ UNCHANGED <<batch, killable, bpc, calls, good, bad, tried, saved>>

SkipUnexplained ==
    /\ Looping
    /\ Tier(Current) # "Low"
    /\ Shap(Current) = Failed
    /\ Take(Failed)
    /\ bad' = bad + 1
    /\ UNCHANGED <<batch, killable, bpc, calls, good, tried, saved>>

(* What an error that leaves the handler makes of the stage: the next try  *)
(* begins anew, if there is one left.                                      *)
StartOver ==
    /\ tried' = tried + 1
    /\ bpc' = IF tried + 1 < MaxTries THEN "loop" ELSE "failed"
    /\ texts' = <<>> /\ calls' = 0 /\ good' = 0 /\ bad' = 0
    /\ UNCHANGED <<batch, killable, saved>>

(* The contributions are rebuilt before the call, which is the first to    *)
(* catch anything: one that is not valid ends the try, and every try.      *)
RebuildRaises ==
    /\ Looping
    /\ Tier(Current) # "Low"
    /\ Shap(Current) = Broken
    /\ StartOver

BeginCalls ==
    /\ Looping
    /\ Tier(Current) # "Low"
    /\ Shap(Current) \notin {Failed, Broken}
    /\ bpc' = "call"
    /\ calls' = 0
    /\ UNCHANGED <<batch, killable, texts, good, bad, tried, saved>>

CallAnswers ==
    /\ bpc = "call"
    /\ Take(Shap(Current))
    /\ good' = good + 1
    /\ bpc' = "loop"
    /\ UNCHANGED <<batch, killable, calls, bad, tried, saved>>

\* Mutant: after the last call the counter starts anew.
CallFailsForEver ==
    /\ bpc = "call"
    /\ calls' = (calls + 1) % MaxCalls
    /\ UNCHANGED <<batch, killable, bpc, texts, good, bad, tried, saved>>

(* Whatever is raised, the call is repeated after a pause, or given up.    *)
CallFails ==
    /\ bpc = "call"
    /\ calls' = calls + 1
    /\ IF calls + 1 < MaxCalls
       THEN UNCHANGED <<bpc, texts, bad>>
       ELSE bpc' = "loop" /\ Take(Failed) /\ bad' = bad + 1
    /\ UNCHANGED <<batch, killable, good, tried, saved>>

PutExplanations ==
    /\ bpc = "loop"
    /\ Current > Len(batch.tiers)
    /\ saved' = texts
    /\ bpc' = "put"
    /\ UNCHANGED <<batch, killable, texts, calls, good, bad, tried>>

BedrockReturns ==
    /\ bpc = "put"
    /\ bpc' = "returned"
    /\ UNCHANGED <<batch, killable, texts, calls, good, bad, tried, saved>>

\* Mutant: the next try goes on with the counters of the last.
KilledKeepsCounters ==
    /\ killable
    /\ bpc \in {"loop", "call", "put"}
    /\ tried' = tried + 1
    /\ bpc' = IF tried + 1 < MaxTries THEN "loop" ELSE "failed"
    /\ texts' = <<>> /\ calls' = 0
    /\ UNCHANGED <<batch, killable, good, bad, saved>>

(* The Lambda timeout, which calls that hang for TIMEOUT_SECONDS reach     *)
(* after a few users, or an error of S3.                                   *)
BedrockKilled ==
    /\ killable
    /\ bpc \in {"loop", "call", "put"}
    /\ StartOver

ExplStep == SkipLow \/ SkipUnexplained \/ RebuildRaises \/ BeginCalls
              \/ CallAnswers \/ CallFails \/ PutExplanations \/ BedrockReturns

ExplNext == ExplStep \/ BedrockKilled

ExplSpec == ExplInit /\ [][ExplNext]_explVars

(* A call ends, with an answer or with the timeout of the client, and the  *)
(* handler goes on; that Bedrock ever answers is not assumed.              *)
ExplFairSpec == ExplSpec /\ WF_explVars(ExplStep)

-----------------------------------------------------------------------------
(* Properties                                                              *)

(* R12.3, R12.6: when the stage returns, every prediction has its entry in *)
(* the object that was saved, a text is about the SHAP entry at its own    *)
(* position and only there for Medium and High, and the two counters are   *)
(* those of this try: together the predictions that needed a text.         *)
ExplanationsAccountedFor ==
    bpc = "returned" =>
        LET needed == {i \in DOMAIN batch.tiers : Tier(i) # "Low"}
            present == {i \in DOMAIN saved : saved[i] # Failed}
        IN  /\ DOMAIN saved = DOMAIN batch.tiers
            /\ \A i \in present : i \in needed /\ saved[i] = Shap(i)
            /\ good = Cardinality(present)
            /\ good + bad = Cardinality(needed)

(* R12.6: as long as no invocation is killed, the stage returns, and with  *)
(* it the execution keeps its predictions, whatever becomes of the calls;  *)
(* it fails only for an entry that cannot be rebuilt where one is needed.  *)
DegradesGracefully ==
    ~killable ~> \/ bpc = "returned"
                 \/ /\ bpc = "failed"
                    /\ \E i \in DOMAIN batch.tiers : Tier(i) # "Low" /\ Shap(i) = Broken
=============================================================================
