--------------------------- MODULE ExecutionWatch ---------------------------
(***************************************************************************)
(* A caller of PipelineOrchestrator.wait_for_completion (src/src/          *)
(* orchestrator/step_functions.py) beside the execution it polls (module   *)
(* Pipeline).  Time is what the loop sees of it: whether the deadline has  *)
(* passed, which may happen between any two steps of either.               *)
(***************************************************************************)
EXTENDS Pipeline

VARIABLES
    watch,     \* where wait_for_completion() stands
    deadline,  \* has the timeout elapsed since it began?
    seen       \* the status it returned

watchVars == <<watch, deadline, seen>>
allVars   == <<vars, watchVars>>

\* terminal_statuses; nothing in the model times out or aborts an execution.
TerminalStatuses == {"SUCCEEDED", "FAILED", "TIMED_OUT", "ABORTED"}

Waiting == {"check", "describe", "sleep"}

(* What describe_execution answers.                                        *)
Status == CASE state = "Succeeded"   -> "SUCCEEDED"
            [] state \in TaskStates -> "RUNNING"
            [] OTHER                -> "FAILED"

WatchInit ==
    /\ Init
    /\ watch = "idle"
    /\ deadline = FALSE
    /\ seen = "none"

BeginWatch ==
    /\ watch = "idle"
    /\ watch' = "check"
    /\ UNCHANGED <<vars, deadline, seen>>

(* The time is looked at before the status.                                *)
CheckDeadline ==
    /\ watch = "check"
    /\ watch' = IF deadline THEN "timedOut" ELSE "describe"
    /\ UNCHANGED <<vars, deadline, seen>>

\* Mutant: of the terminal statuses only success is known.
DescribeUntilSuccess ==
    /\ watch = "describe"
    /\ IF Status = "SUCCEEDED"
       THEN watch' = "returned" /\ seen' = Status
       ELSE watch' = "sleep" /\ UNCHANGED seen
    /\ UNCHANGED <<vars, deadline>>

Describe ==
    /\ watch = "describe"
    /\ IF Status \in TerminalStatuses
       THEN watch' = "returned" /\ seen' = Status
       ELSE watch' = "sleep" /\ UNCHANGED seen
    /\ UNCHANGED <<vars, deadline>>

(* get_execution_status turns any error of the call into RuntimeError,     *)
(* which the loop does not catch.                                          *)
DescribeRaises ==
    /\ watch = "describe"
    /\ faulty
    /\ watch' = "raised"
    /\ UNCHANGED <<vars, deadline, seen>>

Awake ==
    /\ watch = "sleep"
    /\ watch' = "check"
    /\ UNCHANGED <<vars, deadline, seen>>

DeadlinePasses ==
    /\ watch \in Waiting
    /\ ~deadline
    /\ deadline' = TRUE
    /\ UNCHANGED <<vars, watch, seen>>

WatchStep == CheckDeadline \/ Describe \/ DescribeRaises \/ Awake

PipelineStep == Next /\ UNCHANGED watchVars

WatchNext == PipelineStep \/ BeginWatch \/ WatchStep \/ DeadlinePasses

WatchSpec == WatchInit /\ [][WatchNext]_allVars

(* The execution and the waiting caller both go on; that the deadline ever *)
(* passes is not assumed.                                                  *)
WatchFairSpec ==
    WatchSpec /\ WF_allVars(PipelineStep) /\ WF_allVars(WatchStep)

-----------------------------------------------------------------------------
(* Properties                                                              *)

(* A status it returns is the outcome of the execution, which has ended,   *)
(* and stays so: never one the execution goes through.                     *)
ReturnedIsOutcome == watch = "returned" => state \in FinalStates /\ seen = Status

(* wait_for_completion() ends even if its deadline is never reached: from  *)
(* wherever it is called, the retries of the states run out, the execution *)
(* ends, whatever fails, and the loop knows each of the ends.  A status it *)
(* returns is the outcome of the execution, never one it goes through.     *)
WatchEnds ==
    watch = "check" ~> \/ watch \in {"timedOut", "raised"}
                       \/ watch = "returned" /\ state \in FinalStates
                                             /\ seen = Status
=============================================================================
