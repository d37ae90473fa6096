----------------------------- MODULE MCPredictions -----------------------------
(* Predictions for TLC: two executions that share a user, and two models   *)
(* that may replace each other.  One of them gives a user of the second    *)
(* execution a score that is above 0.30 only until it is rounded.          *)
EXTENDS Predictions

CONSTANTS e1, e2, u1, u2

SharedUser == [e \in Executions |-> IF e = e1 THEN {u1} ELSE {u1, u2}]

SpreadAndSplit ==
    {[k \in Keys |-> IF k[1] = e1 THEN 25000 ELSE 90000],
     [k \in Keys |-> IF k[1] = e1 THEN 60000
                     ELSE IF k[2] = u1 THEN 25000 ELSE 30003]}

ByExecution == {<< <<e2, u1>>, <<e2, u2>>, <<e1, u1>> >>}

(* A period that the later tries leave, a tier that a new model may move a *)
(* row out of, and a user, whose rows nothing moves out of the result.     *)
Filters == {[of |-> "all", since |-> 1, until |-> 2],
            [of |-> "Low", since |-> 0, until |-> 0],
            [of |-> u1, since |-> 0, until |-> 0]}
=============================================================================
