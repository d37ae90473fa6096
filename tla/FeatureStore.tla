----------------------------- MODULE FeatureStore -----------------------------
(***************************************************************************)
(* The versioned Feature Store (src/src/store/feature_store.py) on its     *)
(* DynamoDB table with partition key user_id and sort key version.         *)
(*                                                                         *)
(* store() is an optimistic loop without a lock: query the newest version, *)
(* put the next one under attribute_not_exists, start over when the        *)
(* condition fails, raise after MaxAttempts.  Several Lambda invocations   *)
(* run it at once.  The query is eventually consistent (the code never     *)
(* asks for ConsistentRead), so it may answer from a replica that lags.    *)
(* When the answer to a put is lost, the SDK sends the same put again.     *)
(* get_history() reads the versions of one user page by page while the     *)
(* writers are at work.                                                    *)
(*                                                                         *)
(* The payload of a call is abstracted to the identity of the call, so     *)
(* that the properties can tell whose vector an item holds, and to the     *)
(* date the vector was generated, by which get_history() may filter.       *)
(***************************************************************************)
EXTENDS Naturals, Sequences, FiniteSets

CONSTANTS Users,        \* subscribers
          Writers,      \* Lambda invocations that call store()
          Readers,      \* calls of get_history()
          MaxAttempts,  \* max_retries of store() (3 in the code)
          PageSize,     \* items a query page holds (1 MB in DynamoDB)
          Generated,    \* generated_at of the vectors
          FromDates,    \* the from_date arguments; 0 for none
          StaleReads,   \* the values stale may take
          MaxCalls,     \* bound of the model: store() calls per writer
          MaxLost       \* bound of the model: lost put answers per call

\* The calls of store(): the writer and which of its calls it is.
VectorIds == Writers \X (1 .. MaxCalls)

ASSUME StoreAssumption ==
    /\ Users # {}
    /\ MaxAttempts \in Nat \ {0}
    /\ PageSize \in Nat \ {0}
    /\ Generated \in [VectorIds -> Nat]
    /\ FromDates \subseteq Nat
    /\ StaleReads \subseteq BOOLEAN
    /\ MaxCalls \in Nat
    /\ MaxLost \in Nat

VARIABLES
    items,        \* the table: records [user, version, vector]
    pc,           \* where each writer stands in store()
    calls,        \* store() calls each writer has begun
    user,         \* user_id of the writer's vector
    attempt,      \* attempts of the call that ended in a conflict
    nextVersion,  \* next_version of the current attempt
    lost,         \* put answers of this call that got lost
    lagged,       \* queries of this call a lagging replica has answered
    base,         \* versions the user had when the call began
    rpc,          \* where each reader stands in get_history()
    ruser,        \* the user whose history is read
    fromDate,     \* the date it is read from, 0 for all of it
    cursor,       \* last_evaluated_key of the reader
    got,          \* the list of items collected so far
    floor,        \* versions the user had when the read began
    stale         \* TRUE: queries may be answered by a lagging replica

storeVars  == <<pc, calls, user, attempt, nextVersion, lost, lagged, base>>
readerVars == <<rpc, ruser, fromDate, cursor, got, floor>>
vars == <<items, storeVars, readerVars, stale>>

-----------------------------------------------------------------------------

Item == [user : Users, version : Nat \ {0}, vector : VectorIds]

Vector(w) == <<w, calls[w]>>

VersionsOf(u) == {i.version : i \in {j \in items : j.user = u}}

KeyTaken(u, v) == \E i \in items : i.user = u /\ i.version = v

(* The newest version a query of u's partition may see; 0 for none.        *)
Visible(u) == {m \in {0} \cup VersionsOf(u) :
                  stale \/ \A v \in VersionsOf(u) : v <= m}

Init ==
    /\ items = {}
    /\ pc = [w \in Writers |-> "idle"]
    /\ calls = [w \in Writers |-> 0]
    /\ user = [w \in Writers |-> CHOOSE u \in Users : TRUE]
    /\ attempt = [w \in Writers |-> 0]
    /\ nextVersion = [w \in Writers |-> 0]
    /\ lost = [w \in Writers |-> 0]
    /\ lagged = [w \in Writers |-> 0]
    /\ base = [w \in Writers |-> 0]
    /\ rpc = [r \in Readers |-> "idle"]
    /\ ruser = [r \in Readers |-> CHOOSE u \in Users : TRUE]
    /\ fromDate = [r \in Readers |-> 0]
    /\ cursor = [r \in Readers |-> 0]
    /\ got = [r \in Readers |-> << >>]
    /\ floor = [r \in Readers |-> 0]
    /\ stale \in StaleReads

-----------------------------------------------------------------------------
(* store()                                                                 *)

InStore(w) == pc[w] \in {"query", "put"}

StartStore(w, u) ==
    /\ ~InStore(w)
    /\ calls[w] < MaxCalls
    /\ pc' = [pc EXCEPT ![w] = "query"]
    /\ calls' = [calls EXCEPT ![w] = @ + 1]
    /\ user' = [user EXCEPT ![w] = u]
    /\ attempt' = [attempt EXCEPT ![w] = 0]
    /\ nextVersion' = [nextVersion EXCEPT ![w] = 0]
    /\ lost' = [lost EXCEPT ![w] = 0]
    /\ lagged' = [lagged EXCEPT ![w] = 0]
    /\ base' = [base EXCEPT ![w] = Cardinality(VersionsOf(u))]
    /\ UNCHANGED <<items, readerVars, stale>>

QueryNextVersion(w) ==
    /\ pc[w] = "query"
    /\ \E m \in Visible(user[w]) :
          /\ nextVersion' = [nextVersion EXCEPT ![w] = m + 1]
          /\ lagged' = [lagged EXCEPT ![w] =
                           IF \E v \in VersionsOf(user[w]) : v > m
                           THEN @ + 1 ELSE @]
    /\ pc' = [pc EXCEPT ![w] = "put"]
    /\ UNCHANGED <<items, calls, user, attempt, lost, base, readerVars, stale>>

\* Mutant: the put without its ConditionExpression.
PutUnconditionally(w) == TRUE

PutCondition(w) == ~KeyTaken(user[w], nextVersion[w])

(* A put replaces whatever the key held.                                   *)
WriteItem(w) ==
    items' = {i \in items : ~(i.user = user[w] /\ i.version = nextVersion[w])}
             \cup {[user |-> user[w], version |-> nextVersion[w],
                    vector |-> Vector(w)]}

PutAccepted(w) ==
    /\ pc[w] = "put"
    /\ PutCondition(w)
    /\ WriteItem(w)
    /\ pc' = [pc EXCEPT ![w] = "returned"]
    /\ UNCHANGED <<calls, user, attempt, nextVersion, lost, lagged, base,
                   readerVars, stale>>

(* The table takes the item, the answer never arrives: the SDK repeats the *)
(* request, which now meets the writer's own item.                         *)
PutAnswerLost(w) ==
    /\ pc[w] = "put"
    /\ lost[w] < MaxLost
    /\ PutCondition(w)
    /\ WriteItem(w)
    /\ lost' = [lost EXCEPT ![w] = @ + 1]
    /\ UNCHANGED <<pc, calls, user, attempt, nextVersion, lagged, base,
                   readerVars, stale>>

\* Mutant: a failed condition is read as "already stored" and returned.
PutRejectedAsSuccess(w) ==
    /\ pc[w] = "put"
    /\ ~PutCondition(w)
    /\ pc' = [pc EXCEPT ![w] = "returned"]
    /\ UNCHANGED <<items, calls, user, attempt, nextVersion, lost, lagged, base,
                   readerVars, stale>>

\* Mutant: the retry repeats the put without a new query.
PutRejectedNoRequery(w) ==
    /\ pc[w] = "put"
    /\ ~PutCondition(w)
    /\ attempt' = [attempt EXCEPT ![w] = @ + 1]
    /\ pc' = [pc EXCEPT ![w] =
                 IF attempt[w] + 1 < MaxAttempts THEN "put" ELSE "raised"]
    /\ UNCHANGED <<items, calls, user, nextVersion, lost, lagged, base,
                   readerVars, stale>>

\* Mutant: a conflict starts store() over, and no count is kept.
PutRejectedUncounted(w) ==
    /\ pc[w] = "put"
    /\ ~PutCondition(w)
    /\ pc' = [pc EXCEPT ![w] = "query"]
    /\ lagged' = [lagged EXCEPT ![w] = 0]
    /\ UNCHANGED <<items, calls, user, attempt, nextVersion, lost, base,
                   readerVars, stale>>

PutRejected(w) ==
    /\ pc[w] = "put"
    /\ ~PutCondition(w)
    /\ attempt' = [attempt EXCEPT ![w] = @ + 1]
    /\ pc' = [pc EXCEPT ![w] =
                 IF attempt[w] + 1 < MaxAttempts THEN "query" ELSE "raised"]
    /\ UNCHANGED <<items, calls, user, nextVersion, lost, lagged, base,
                   readerVars, stale>>

(* Any other error of the query or the put (throttling, a network error,   *)
(* the Lambda killed) leaves store() at once: only the failed condition is *)
(* caught.                                                                 *)
StoreError(w) ==
    /\ InStore(w)
    /\ pc' = [pc EXCEPT ![w] = "raised"]
    /\ UNCHANGED <<items, calls, user, attempt, nextVersion, lost, lagged, base,
                   readerVars, stale>>

-----------------------------------------------------------------------------
(* get_history()                                                           *)

StartHistory(r, u) ==
    /\ rpc[r] = "idle"
    /\ rpc' = [rpc EXCEPT ![r] = "paging"]
    /\ ruser' = [ruser EXCEPT ![r] = u]
    /\ \E d \in FromDates : fromDate' = [fromDate EXCEPT ![r] = d]
    /\ cursor' = [cursor EXCEPT ![r] = 0]
    /\ got' = [got EXCEPT ![r] = << >>]
    /\ floor' = [floor EXCEPT ![r] = Cardinality(VersionsOf(u))]
    /\ UNCHANGED <<items, storeVars, stale>>

\* Mutant: the start key is taken for the first item of the page.
RemainingSkipsOne(r, m) ==
    {i \in items : i.user = ruser[r] /\ i.version > cursor[r] + 1
                   /\ i.version <= m}

(* What is left to read for r on a replica whose newest version is m.      *)
Remaining(r, m) ==
    {i \in items : i.user = ruser[r] /\ i.version > cursor[r] /\ i.version <= m}

Page(S) == {i \in S : Cardinality({j \in S : j.version < i.version}) < PageSize}

(* The FilterExpression on generated_at.                                   *)
InRange(r, i) == Generated[i.vector] >= fromDate[r]

(* The items of S in the order of their versions.                          *)
Listings(S) ==
    {s \in [1 .. Cardinality(S) -> S] :
        /\ S = {s[k] : k \in DOMAIN s}
        /\ \A j, k \in DOMAIN s : j < k => s[j].version < s[k].version}

(* DynamoDB filters a page after it has read it: the page that is returned *)
(* may be empty and have a LastEvaluatedKey all the same.                  *)
ReadPage(r) ==
    /\ rpc[r] = "paging"
    /\ \E m \in Visible(ruser[r]) :
         LET left == Remaining(r, m)
             page == Page(left)
         IN  /\ \E list \in Listings({i \in page : InRange(r, i)}) :
                   got' = [got EXCEPT ![r] = @ \o list]
             /\ \/ /\ page = left
                   /\ rpc' = [rpc EXCEPT ![r] = "complete"]
                   /\ UNCHANGED cursor
                \/ /\ page # left
                   /\ \E last \in page :
                        /\ \A i \in page : i.version <= last.version
                        /\ cursor' = [cursor EXCEPT ![r] = last.version]
                   /\ UNCHANGED rpc
    /\ UNCHANGED <<items, storeVars, ruser, fromDate, floor, stale>>

-----------------------------------------------------------------------------

StoreStep(w) == \/ QueryNextVersion(w)
                \/ PutAccepted(w)
                \/ PutAnswerLost(w)
                \/ PutRejected(w)

Next ==
    \/ \E w \in Writers :
          \/ \E u \in Users : StartStore(w, u)
          \/ StoreStep(w)
          \/ StoreError(w)
    \/ \E r \in Readers :
          \/ \E u \in Users : StartHistory(r, u)
          \/ ReadPage(r)

(* A running Lambda takes its next step, or its timeout ends it: both are  *)
(* progress of the call.                                                   *)
Fairness == \A w \in Writers : WF_vars(StoreStep(w) \/ StoreError(w))

Spec == Init /\ [][Next]_vars

FairSpec == Spec /\ Fairness

-----------------------------------------------------------------------------
(* Properties                                                              *)

(* Type invariant.                                                         *)
TypeOK ==
    /\ items \subseteq Item
    /\ pc \in [Writers -> {"idle", "query", "put", "returned", "raised"}]
    /\ calls \in [Writers -> 0 .. MaxCalls]
    /\ user \in [Writers -> Users]
    /\ attempt \in [Writers -> Nat]
    /\ nextVersion \in [Writers -> Nat]
    /\ lost \in [Writers -> Nat]
    /\ lagged \in [Writers -> Nat]
    /\ base \in [Writers -> Nat]
    /\ rpc \in [Readers -> {"idle", "paging", "complete"}]
    /\ ruser \in [Readers -> Users]
    /\ cursor \in [Readers -> Nat]
    /\ fromDate \in [Readers -> Nat]
    /\ got \in [Readers -> Seq(Item)]
    /\ floor \in [Readers -> Nat]
    /\ stale \in BOOLEAN

(* R9.2: the versions of a user are 1, 2, 3, ... without a gap, although   *)
(* each writer derives its number from a possibly outdated query.          *)
Contiguous ==
    \A i \in items : i.version > 1 => KeyTaken(i.user, i.version - 1)

(* The version store() returns is the version under which the caller's own *)
(* vector, not a competitor's, can be read back.                           *)
ReturnedVersionIsOwn ==
    \A w \in Writers : pc[w] = "returned" =>
        [user |-> user[w], version |-> nextVersion[w], vector |-> Vector(w)]
            \in items

(* R9.5: no step removes an item or replaces the vector it holds, however  *)
(* many writers race for its key.                                          *)
Immutable == [][items \subseteq items']_items

(* What other calls have stored of the user since the call began.          *)
Competing(w) ==
    {i \in items : /\ i.user = user[w]
                   /\ i.version > base[w]
                   /\ i.vector # Vector(w)}

(* Each conflict of a call has a cause of its own: a version that another  *)
(* call stored since it began, a put of its own whose answer was lost, or  *)
(* a query that a lagging replica answered.  Without lost answers and lag  *)
(* store() gives up only when MaxAttempts versions overtook it, and never  *)
(* when nobody competes.                                                   *)
ConflictsAreContention ==
    \A w \in Writers :
        attempt[w] <= Cardinality(Competing(w)) + lost[w] + lagged[w]

\* The items in what get_history() has collected, and those it looks for.
Collected(r) == {got[r][k] : k \in DOMAIN got[r]}
Wanted(r) == {i \in items : i.user = ruser[r] /\ InRange(r, i)}

(* What get_history() has collected is, at every moment, the first of the  *)
(* versions it looks for, in their order: paging beside concurrent writers *)
(* neither skips nor repeats a version nor takes one of another user or of *)
(* an earlier date, even across lagging replicas and empty pages.  While   *)
(* queries see every completed write, what it returns holds at least what  *)
(* was stored when it was called.                                          *)
HistoryIsWhole ==
    \A r \in Readers :
        /\ \A j, k \in DOMAIN got[r] :
              j < k => got[r][j].version < got[r][k].version
        /\ Collected(r) \subseteq Wanted(r)
        /\ \A i \in Wanted(r), c \in Collected(r) :
              i.version <= c.version => i \in Collected(r)
        /\ (~stale /\ rpc[r] = "complete") =>
              \A i \in Wanted(r) : i.version <= floor[r] => i \in Collected(r)

(* Every store() call ends: the conflict loop cannot run for ever.         *)
EveryCallEnds == \A w \in Writers : InStore(w) ~> ~InStore(w)

(* The table implements the append-only log.                               *)
AbstractLog ==
    [u \in Users |->
        [v \in 1 .. Cardinality(VersionsOf(u)) |->
            (CHOOSE i \in items : i.user = u /\ i.version = v).vector]]

Log == INSTANCE AppendOnlyLog WITH Vectors <- VectorIds, log <- AbstractLog

ImplementsLog == Log!LogSpec
=============================================================================
