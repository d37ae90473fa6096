---------------------------- MODULE FeatureEngineer ----------------------------
(***************************************************************************)
(* FeatureEngineer.compute of src/src/features/feature_engineer.py, as far *)
(* as its results depend on the calendar and on counts: who gets a vector, *)
(* who gets trends, the frequency trend, and the percentages of content.   *)
(*                                                                         *)
(* A session is the instant it ended, end_at, in units since an epoch, or  *)
(* NoTime when end_at is missing or is a text that cannot be read; whether *)
(* that text names its zone; its content type; and whether a field has a   *)
(* type the code does not expect (end_at or content_type that is no text,  *)
(* effective_time that is no number).  The unit is left open: all that     *)
(* counts is how many make a week.  The trend of error rates takes the     *)
(* same weeks as that of the frequency; means of other fields, which the   *)
(* validator wants not negative, are left out.                             *)
(***************************************************************************)
EXTENDS Integers, Sequences, FiniteSets

CONSTANTS
    NoTrend,      \* the None of a trend
    NoTime,       \* a session without a usable end_at
    WeekLength,   \* units of time in seven days
    Subscribers,  \* what the engineer may be given: sequences of sessions
    MinSessions,  \* MIN_SESSIONS (5)
    MinWeeks      \* MIN_WEEKS_FOR_TRENDS (4)

ContentTypes == {"EPISODE", "SPORT", "LIVE", "SHOW"}

ASSUME EngineerAssumption ==
    /\ NoTrend \notin Int
    /\ NoTime \notin Nat
    /\ WeekLength \in Nat \ {0}
    /\ \A s \in Subscribers : s \in Seq([end : Nat \cup {NoTime}, zoned : BOOLEAN,
                                       content : STRING, odd : BOOLEAN])
    /\ MinSessions \in Nat \ {0}
    /\ MinWeeks \in Nat \ {0, 1}

VARIABLES
    sessions,  \* the sessions of a user
    vector,    \* the feature vector, if there is one
    computed   \* what compute() did: "no" (not yet), "none", "vector", "raised"

engineVars == <<sessions, vector, computed>>

NoVector == [trend |-> NoTrend, pct |-> [c \in ContentTypes |-> 0]]

EngineInit ==
    /\ sessions \in Subscribers
    /\ vector = NoVector
    /\ computed = "no"

-----------------------------------------------------------------------------

Times == {sessions[i].end : i \in DOMAIN sessions} \ {NoTime}

Earliest == CHOOSE t \in Times : \A u \in Times : t <= u
Latest == CHOOSE t \in Times : \A u \in Times : u <= t

(* total_seconds() over the length of a week, not rounded; without times   *)
(* the period counts as one week.                                          *)
LongEnough == Times # {} /\ Latest - Earliest >= WeekLength * MinWeeks

\* Mutant: the weeks are those of the calendar.
CalendarWeek(t) == t \div WeekLength

Week(t) == (t - Earliest) \div WeekLength

(* weekly_data: the sessions by week, for the weeks that have one.         *)
Weeks == {Week(t) : t \in Times}

SessionsIn(W) ==
    {i \in DOMAIN sessions : sessions[i].end # NoTime /\ Week(sessions[i].end) \in W}

(* sorted_weeks[:2] and sorted_weeks[-2:], which overlap if there are less *)
(* than four weeks with a session.                                         *)
FirstWeeks == {w \in Weeks : Cardinality({v \in Weeks : v < w}) < 2}
LastWeeks == {w \in Weeks : Cardinality({v \in Weeks : v > w}) < 2}

\* Twice the sessions per week of two weeks.
TwiceRate(W) == Cardinality(SessionsIn(W))

(* session_frequency_trend, in halves of a session per week.               *)
FrequencyTrend ==
    IF ~LongEnough THEN NoTrend
    ELSE IF Cardinality(Weeks) < 2 THEN 0
    ELSE TwiceRate(LastWeeks) - TwiceRate(FirstWeeks)

-----------------------------------------------------------------------------
(* Percentages, in units of 1/10,000 of a percent                          *)

Hundred == 1000000

Count(c) == Cardinality({i \in DOMAIN sessions : sessions[i].content = c})

Total(f) == f["EPISODE"] + f["SPORT"] + f["LIVE"] + f["SHOW"]

Known == Total([c \in ContentTypes |-> Count(c)])

\* round(x, 4) of n/of, in percent; halves upwards.
Percent(n, of) == (2 * Hundred * n + of) \div (2 * of)

\* Mutant: sessions of an unknown type count in the total.
PercentOfAll(c) ==
    IF Known > 0 THEN Percent(Count(c), Len(sessions)) ELSE Hundred \div 4

PercentOf(c) == IF Known > 0 THEN Percent(Count(c), Known) ELSE Hundred \div 4

(* The validator of FeatureVector: 100 percent, with a tolerance of 0.01.  *)
Accepted(pct) == Total(pct) - Hundred \in -100 .. 100

-----------------------------------------------------------------------------

TooFew ==
    /\ computed = "no"
    /\ Len(sessions) < MinSessions
    /\ computed' = "none"
    /\ UNCHANGED <<sessions, vector>>

(* Errors that nothing in compute() catches: a field of another type, and  *)
(* min() over times with and without a zone, which do not compare.         *)
Unfit ==
    \/ \E i \in DOMAIN sessions : sessions[i].odd
    \/ \E i, j \in DOMAIN sessions :
          /\ NoTime \notin {sessions[i].end, sessions[j].end}
          /\ sessions[i].zoned # sessions[j].zoned

Percentages == [c \in ContentTypes |-> PercentOf(c)]

(* The handler logs the error and counts the user as one with too little   *)
(* data; the same becomes of a vector that its validator refuses.          *)
ComputeRaises ==
    /\ computed = "no"
    /\ Len(sessions) >= MinSessions
    /\ Unfit \/ ~Accepted(Percentages)
    /\ computed' = "raised"
    /\ UNCHANGED <<sessions, vector>>

Compute ==
    /\ computed = "no"
    /\ Len(sessions) >= MinSessions
    /\ ~Unfit /\ Accepted(Percentages)
    /\ vector' = [trend |-> FrequencyTrend, pct |-> Percentages]
    /\ computed' = "vector"
    /\ UNCHANGED sessions

EngineNext == TooFew \/ ComputeRaises \/ Compute

EngineSpec == EngineInit /\ [][EngineNext]_engineVars

-----------------------------------------------------------------------------
(* Properties                                                              *)

(* R3.4: the trend compares the first and the last two weeks, counted from *)
(* the first session to the unit, if these four have sessions; where one   *)
(* of them has none the code takes a neighbour.  The last week is the one  *)
(* the last session is in and may have hardly begun: of a period of just   *)
(* 28 days it is the last instant, so that a week and an instant stand for *)
(* R3.4's two weeks.  R3.7: exactly a period below the minimum has none.   *)
TrendComparesTheEnds ==
    (computed = "vector" /\ Times # {}) =>
        LET span == Latest - Earliest
            last == span \div WeekLength
            Between(d, e) == Cardinality({i \in DOMAIN sessions :
                               /\ sessions[i].end # NoTime
                               /\ sessions[i].end - Earliest \in d .. e - 1})
            Full(w) == Between(WeekLength * w, WeekLength * (w + 1)) > 0
        IN  /\ vector.trend = NoTrend <=> span < WeekLength * MinWeeks
            /\ (vector.trend # NoTrend /\ Full(1) /\ Full(last - 1)) =>
                  vector.trend = Between(WeekLength * (last - 1), span + 1)
                                   - Between(0, 2 * WeekLength)

(* R3.3: whoever has sessions enough, and none that compute() cannot work  *)
(* with, has a vector: whatever content types there are and however they   *)
(* are rounded, the validator accepts them and the user is not lost for    *)
(* the prediction.                                                         *)
NobodyLostToRounding ==
    (computed # "no" /\ Len(sessions) >= MinSessions /\ ~Unfit) =>
        /\ computed = "vector"
        /\ \A c \in ContentTypes : vector.pct[c] \in 0 .. Hundred
=============================================================================
