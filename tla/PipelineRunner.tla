---------------------------- MODULE PipelineRunner ----------------------------
(***************************************************************************)
(* PipelineRunner of src/src/orchestrator/pipeline.py, which runs the      *)
(* stages in one process, each with the event the one before returned, and *)
(* holds them to a contract: the fields a stage needs in its event and     *)
(* those it has to add.  An event is the set of its fields, a handler what *)
(* it adds to that set and what it takes out, if it does not raise.        *)
(***************************************************************************)
EXTENDS Naturals, Sequences

CONSTANTS
    Stages,     \* names of stages
    Fields,     \* names of fields of an event
    Requires,   \* requires of STAGE_DATA_CONTRACT
    Produces,   \* produces of STAGE_DATA_CONTRACT
    Order,      \* all_stages, by mode
    Handlers,   \* what the handlers may be: functions from some stages
    Inputs      \* the fields of the input data

(* A handler: the fields it adds and drops, and whether it raises.         *)
Handler == [adds : SUBSET Fields, drops : SUBSET Fields, raises : BOOLEAN]

ASSUME RunnerAssumption ==
    /\ Requires \in [Stages -> SUBSET Fields]
    /\ Produces \in [Stages -> SUBSET Fields]
    /\ \A h \in Handlers :
          DOMAIN h \subseteq Stages /\ \A s \in DOMAIN h : h[s] \in Handler
    /\ Inputs \subseteq SUBSET Fields
    /\ DOMAIN Order = {"train", "predict"}
    /\ \A m \in DOMAIN Order : Order[m] \in Seq(Stages)
    /\ \A i \in DOMAIN Order["train"] :
          i \in DOMAIN Order["predict"] /\ Order["train"][i] = Order["predict"][i]

VARIABLES
    runMode,   \* the mode run() was called with
    input,     \* the fields of the input data, execution_id among them
    handlers,  \* the handlers of this run
    fields,    \* the fields of current_event
    next,      \* the next stage of Order[runMode]
    checked,   \* have the preconditions of the stage been checked?
    results,   \* what self.stages says: success or not, in order
    outcome    \* of run(): "running", "returned" or how it raised

runVars == <<runMode, input, handlers, fields, next, checked, results, outcome>>

RunInit ==
    /\ runMode \in DOMAIN Order
    /\ input \in Inputs
    /\ handlers \in Handlers
    /\ fields = input
    /\ next = 1
    /\ checked = FALSE
    /\ results = [i \in {} |-> TRUE]
    /\ outcome = "running"

-----------------------------------------------------------------------------
(* validate_stage_wiring()                                                 *)

Available(i) == UNION {Produces[Order["predict"][j]] : j \in 1 .. i - 1}

(* The stages, but the first, that require what none before them produces. *)
WiringProblems ==
    {i \in DOMAIN Order["predict"] :
        i > 1 /\ ~(Requires[Order["predict"][i]] \subseteq Available(i))}

-----------------------------------------------------------------------------
(* run()                                                                   *)

Entered == next \in DOMAIN Order[runMode]

Stage == Order[runMode][next]

Output == (fields \cup handlers[Stage].adds) \ handlers[Stage].drops

(* The preconditions are checked outside the try: a stage that fails them  *)
(* leaves no entry in self.stages.                                         *)
CheckPreconditions ==
    /\ outcome = "running"
    /\ Entered
    /\ ~checked
    /\ IF Requires[Stage] \subseteq fields
       THEN checked' = TRUE /\ UNCHANGED outcome
       ELSE outcome' = "unmet" /\ UNCHANGED checked
    /\ UNCHANGED <<runMode, input, handlers, fields, next, results>>

Record(success) == results' = [i \in 1 .. next |-> IF i = next THEN success
                                                   ELSE results[i]]

\* Mutant: what the handler returned is not held to the contract.
CallUnchecked ==
    /\ outcome = "running"
    /\ checked
    /\ Stage \in DOMAIN handlers
    /\ ~handlers[Stage].raises
    /\ fields' = Output
    /\ Record(TRUE)
    /\ next' = next + 1
    /\ checked' = FALSE
    /\ UNCHANGED <<runMode, input, handlers, outcome>>

CallHandler ==
    /\ outcome = "running"
    /\ checked
    /\ Stage \in DOMAIN handlers
    /\ ~handlers[Stage].raises
    /\ Produces[Stage] \subseteq Output
    /\ fields' = Output
    /\ Record(TRUE)
    /\ next' = next + 1
    /\ checked' = FALSE
    /\ UNCHANGED <<runMode, input, handlers, outcome>>

(* The handler raises, or lacks a field in what it returns: PipelineError. *)
HandlerFails ==
    /\ outcome = "running"
    /\ checked
    /\ Stage \in DOMAIN handlers
    /\ handlers[Stage].raises \/ ~(Produces[Stage] \subseteq Output)
    /\ Record(FALSE)
    /\ outcome' = "failed"
    /\ UNCHANGED <<runMode, input, handlers, fields, next, checked>>

(* Not recorded either: the lookup is outside the try, too.                *)
HandlerMissing ==
    /\ outcome = "running"
    /\ checked
    /\ Stage \notin DOMAIN handlers
    /\ outcome' = "failed"
    /\ UNCHANGED <<runMode, input, handlers, fields, next, checked, results>>

RunReturns ==
    /\ outcome = "running"
    /\ ~Entered
    /\ outcome' = "returned"
    /\ UNCHANGED <<runMode, input, handlers, fields, next, checked, results>>

RunNext ==
    CheckPreconditions \/ CallHandler \/ HandlerFails \/ HandlerMissing \/ RunReturns

RunSpec == RunInit /\ [][RunNext]_runVars

-----------------------------------------------------------------------------
(* Properties                                                              *)

InputSuffices ==
    1 \in DOMAIN Order[runMode] => Requires[Order[runMode][1]] \subseteq input

(* A field that a stage requires is dropped by none of the stages before.  *)
DropsNothingRequired ==
    \A i, k \in DOMAIN Order[runMode] :
        (i < k /\ Order[runMode][i] \in DOMAIN handlers) =>
            handlers[Order[runMode][i]].drops
                \cap Requires[Order[runMode][k]] = {}

(* R17.4: with a contract in which validate_stage_wiring() finds no        *)
(* problem, an input that the first stage accepts and handlers that drop   *)
(* nothing a later one needs, no stage is refused for its event: a handler *)
(* that leaves out what it has to add fails itself, however late the field *)
(* is needed.  A handler that drops a field a later stage needs, as that   *)
(* of ml-inference does, is found out only by the stage that needs it.     *)
BreachFoundWhereMade ==
    (WiringProblems = {} /\ InputSuffices /\ DropsNothingRequired)
        => outcome # "unmet"

(* The state of the runner; the failed stage stays the current one.        *)
RunnerTypeOK ==
    /\ runMode \in DOMAIN Order
    /\ input \in Inputs
    /\ handlers \in Handlers
    /\ fields \in SUBSET Fields
    /\ next \in Nat \ {0}
    /\ checked \in BOOLEAN
    /\ outcome \in {"running", "returned", "unmet", "failed"}
=============================================================================
