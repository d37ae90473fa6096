---------------------------- MODULE NPAWExtractor ----------------------------
(***************************************************************************)
(* The NPAW extractor (src/src/extractors/npaw_extractor.py):              *)
(* extract_batch() runs one asyncio task per user, a semaphore bounds the  *)
(* users in progress, one lock around _last_request_time spaces the        *)
(* requests of all tasks, _fetch_page() retries 5xx answers and timeouts,  *)
(* and extract_user_sessions() pages through the user's sessions, newest   *)
(* first, while new sessions may arrive at the API.                        *)
(*                                                                         *)
(* asyncio runs one task at a time and switches only at an await, so an    *)
(* action is what a task does between two awaits.  The counter lock is     *)
(* never held across an await; it is part of the action that counts.       *)
(* Sessions are numbered in the order in which they ended; the numbers     *)
(* stand for their contents.  Time is counted in ticks, RateTicks of which *)
(* are rate_limit_seconds; the length of a backoff is left open.           *)
(***************************************************************************)
EXTENDS Integers, Sequences, FiniteSets

CONSTANTS
    Users,          \* user_ids, without duplicates (ingestion removes them)
    NoUser,         \* the rate lock is free
    Limits,         \* values of max_concurrent (5 by default)
    BatchSize,      \* sessions per page (100)
    MaxSessions,    \* max_sessions_per_user (5000)
    MaxRetries,     \* retries of _fetch_page (3)
    RateTicks,      \* rate_limit_seconds (1.0)
    Faults,         \* what may go wrong with a request, see FaultKinds
    Sizes,          \* possible numbers of sessions a user starts with
    MaxArrivals     \* bound of the model: sessions that arrive meanwhile

(* "transient": a 5xx answer or a timeout; "auth": 401 or 403; "client":   *)
(* any other 4xx; "other": an exception that is no NPAWExtractorError (a   *)
(* refused or broken connection, a body that is not JSON); "hollow": a 200 *)
(* whose body has no "data" or "values" list.                              *)
FaultKinds == {"transient", "auth", "client", "other", "hollow"}

ASSUME ExtractorAssumption ==
    /\ IsFiniteSet(Users)
    /\ NoUser \notin Users
    /\ Limits \subseteq Nat \ {0}
    /\ BatchSize \in Nat \ {0}
    /\ MaxSessions \in Nat \ {0}
    /\ MaxRetries \in Nat
    /\ RateTicks \in Nat
    /\ Faults \subseteq FaultKinds
    /\ Sizes \subseteq Nat
    /\ MaxArrivals \in Nat

VARIABLES
    main,       \* where extract_batch() stands
    firstExc,   \* the exception gather() will raise: the first one set
    pc,         \* where each user's task stands
    permits,    \* the semaphore's value
    outcome,    \* how the task's extraction ended ("cut": by a hollow body)
    attempt,    \* attempt of the current _fetch_page()
    offset,     \* offset of the next page
    got,        \* all_sessions
    rateLock,   \* holder of _rate_lock
    wait,       \* ticks left of the task's sleep under the lock
    age,        \* ticks since _last_request_time, at most RateTicks
    results,    \* results: user -> sessions
    processed,  \* processed_count
    failed,     \* failed_count
    avail,      \* sessions the API has for each user
    atStart,    \* sessions it had when the user's extraction began
    limit       \* max_concurrent of the extractor

batchVars == <<main, firstExc, results, processed, failed>>
pageVars  == <<attempt, offset, got>>
rateVars  == <<rateLock, wait, age>>
apiVars   == <<avail, atStart, limit>>
vars == <<batchVars, pc, permits, outcome, pageVars, rateVars, apiVars>>

Finished == {"done", "raised", "cancelled"}

Running(u) == pc[u] \notin Finished

(* Tasks inside "async with self._semaphore".                              *)
InProgress == {u \in Users : pc[u] \notin Finished \cup {"permit"}}

Init ==
    /\ main = "gathering"
    /\ firstExc = "none"
    /\ pc = [u \in Users |-> "permit"]
    /\ limit \in Limits
    /\ permits = limit
    /\ outcome = [u \in Users |-> "none"]
    /\ attempt = [u \in Users |-> 0]
    /\ offset = [u \in Users |-> 0]
    /\ got = [u \in Users |-> << >>]
    /\ rateLock = NoUser
    /\ wait = [u \in Users |-> 0]
    /\ age = RateTicks
    /\ results = << >>
    /\ processed = 0
    /\ failed = 0
    /\ avail \in [Users -> Sizes]
    /\ atStart = avail

-----------------------------------------------------------------------------
(* A user's task.  Once it is cancelled it takes no further step of these: *)
(* the CancelledError is thrown at the await where it stands.              *)

At(u, where) == pc[u] = where /\ main # "cancelling"

GoTo(u, where) == pc' = [pc EXCEPT ![u] = where]

AcquirePermit(u) ==
    /\ At(u, "permit")
    /\ permits > 0
    /\ permits' = permits - 1
    /\ GoTo(u, "lock")
    /\ atStart' = [atStart EXCEPT ![u] = avail[u]]
    /\ UNCHANGED <<batchVars, outcome, pageVars, rateVars, avail, limit>>

\* Mutant: the sleep is computed without taking the lock.
RateWithoutLock(u) ==
    /\ At(u, "lock")
    /\ rateLock' = u
    /\ wait' = [wait EXCEPT ![u] = RateTicks - age]
    /\ GoTo(u, "sleep")
    /\ UNCHANGED <<batchVars, permits, outcome, pageVars, age, apiVars>>

(* _wait_rate_limit(): the sleep is computed and slept under the lock.     *)
AcquireRateLock(u) ==
    /\ At(u, "lock")
    /\ rateLock = NoUser
    /\ rateLock' = u
    /\ wait' = [wait EXCEPT ![u] = RateTicks - age]
    /\ GoTo(u, "sleep")
    /\ UNCHANGED <<batchVars, permits, outcome, pageVars, age, apiVars>>

SendRequest(u) ==
    /\ At(u, "sleep")
    /\ wait[u] = 0
    /\ age' = 0
    /\ rateLock' = NoUser
    /\ GoTo(u, "request")
    /\ UNCHANGED <<batchVars, permits, outcome, pageVars, wait, apiVars>>

(* The page of u's sessions at the current offset, newest first.           *)
Page(u) ==
    LET left == avail[u] - offset[u]
    IN  [i \in 1 .. (IF left < BatchSize THEN left ELSE BatchSize) |->
            left + 1 - i]

\* Mutant: the list is not cut to the limit after the last page.
NotTruncated(s) == s

Truncated(s) ==
    SubSeq(s, 1, IF Len(s) < MaxSessions THEN Len(s) ELSE MaxSessions)

\* Mutant: a full page is taken for the last one.
PageArrivesStopsEarly(u) ==
    /\ At(u, "request")
    /\ got' = [got EXCEPT ![u] = Truncated(got[u] \o Page(u))]
    /\ outcome' = [outcome EXCEPT ![u] = "ok"]
    /\ GoTo(u, "closing")
    /\ offset' = [offset EXCEPT ![u] = @ + BatchSize]
    /\ attempt' = [attempt EXCEPT ![u] = 0]
    /\ UNCHANGED <<batchVars, permits, rateVars, apiVars>>

(* A page arrives; it is the last one if it is short or the limit is met.  *)
PageArrives(u) ==
    /\ At(u, "request")
    /\ LET all  == got[u] \o Page(u)
           last == Len(Page(u)) < BatchSize \/ Len(all) >= MaxSessions
       IN  /\ got' = [got EXCEPT ![u] = IF last THEN Truncated(all) ELSE all]
           /\ outcome' = [outcome EXCEPT ![u] = IF last THEN "ok" ELSE @]
           /\ GoTo(u, IF last THEN "closing" ELSE "lock")
    /\ offset' = [offset EXCEPT ![u] = @ + BatchSize]
    /\ attempt' = [attempt EXCEPT ![u] = 0]
    /\ UNCHANGED <<batchVars, permits, rateVars, apiVars>>

\* Mutant: attempts are not counted.
RetryForEver(u) ==
    /\ At(u, "request")
    /\ "transient" \in Faults
    /\ GoTo(u, "backoff")
    /\ UNCHANGED <<batchVars, permits, outcome, pageVars, rateVars, apiVars>>

RetryLater(u) ==
    /\ At(u, "request")
    /\ "transient" \in Faults
    /\ attempt[u] < MaxRetries
    /\ attempt' = [attempt EXCEPT ![u] = @ + 1]
    /\ GoTo(u, "backoff")
    /\ UNCHANGED <<batchVars, permits, outcome, offset, got, rateVars,
                   apiVars>>

BackoffEnds(u) ==
    /\ At(u, "backoff")
    /\ GoTo(u, "lock")
    /\ UNCHANGED <<batchVars, permits, outcome, pageVars, rateVars, apiVars>>

(* _parse_sessions() makes an empty page of a hollow body, and an empty    *)
(* page is the last one: the task goes on with what it has.                *)
EmptyAnswer(u) ==
    /\ At(u, "request")
    /\ "hollow" \in Faults
    /\ outcome' = [outcome EXCEPT ![u] = "cut"]
    /\ attempt' = [attempt EXCEPT ![u] = 0]
    /\ GoTo(u, "closing")
    /\ UNCHANGED <<batchVars, permits, offset, got, rateVars, apiVars>>

(* The request fails for good: the last retry, or a fault never retried.   *)
RequestFails(u) ==
    /\ At(u, "request")
    /\ \E fault \in Faults \ {"hollow"} :
          /\ fault = "transient" => attempt[u] = MaxRetries
          /\ outcome' = [outcome EXCEPT ![u] =
                            IF fault \in {"auth", "other"} THEN fault
                                                           ELSE "error"]
    /\ GoTo(u, "closing")
    /\ UNCHANGED <<batchVars, permits, pageVars, rateVars, apiVars>>

(* The ways to end that extract_batch() takes for a success.               *)
Successes == {"ok", "cut"}

Report(u, sessions) ==
    results' = [x \in DOMAIN results \cup {u} |->
                   IF x = u THEN sessions ELSE results[x]]

\* Mutant: a failed user gets no entry in results.
FinishUserWithoutEntry(u) ==
    /\ At(u, "closing")
    /\ outcome[u] \in Successes \cup {"error"}
    /\ IF outcome[u] \in Successes THEN Report(u, got[u]) ELSE UNCHANGED results
    /\ failed' = IF outcome[u] = "error" THEN failed + 1 ELSE failed
    /\ processed' = processed + 1
    /\ permits' = permits + 1
    /\ GoTo(u, "done")
    /\ UNCHANGED <<main, firstExc, outcome, pageVars, rateVars, apiVars>>

(* The HTTP session is closed; the task reports its result and counts it.  *)
FinishUser(u) ==
    /\ At(u, "closing")
    /\ outcome[u] \in Successes \cup {"error"}
    /\ Report(u, IF outcome[u] \in Successes THEN got[u] ELSE << >>)
    /\ failed' = IF outcome[u] = "error" THEN failed + 1 ELSE failed
    /\ processed' = processed + 1
    /\ permits' = permits + 1
    /\ GoTo(u, "done")
    /\ UNCHANGED <<main, firstExc, outcome, pageVars, rateVars, apiVars>>

\* Mutant: "except NPAWExtractorError" comes first and catches its subclass.
AuthErrorCounted(u) ==
    /\ At(u, "closing")
    /\ outcome[u] = "auth"
    /\ Report(u, << >>)
    /\ failed' = failed + 1
    /\ processed' = processed + 1
    /\ permits' = permits + 1
    /\ GoTo(u, "done")
    /\ UNCHANGED <<main, firstExc, outcome, pageVars, rateVars, apiVars>>

(* Authentication errors and foreign exceptions leave the task; gather()   *)
(* keeps the first.                                                        *)
RaiseFromTask(u) ==
    /\ At(u, "closing")
    /\ outcome[u] \in {"auth", "other"}
    /\ firstExc' = IF firstExc = "none" THEN outcome[u] ELSE firstExc
    /\ permits' = permits + 1
    /\ GoTo(u, "raised")
    /\ UNCHANGED <<main, results, processed, failed, outcome, pageVars,
                   rateVars, apiVars>>

(* The CancelledError releases the semaphore and the rate lock.            *)
TaskCancelled(u) ==
    /\ main = "cancelling"
    /\ Running(u)
    /\ permits' = IF u \in InProgress THEN permits + 1 ELSE permits
    /\ GoTo(u, "cancelled")
    /\ rateLock' = IF rateLock = u THEN NoUser ELSE rateLock
    /\ UNCHANGED <<batchVars, outcome, pageVars, wait, age, apiVars>>

-----------------------------------------------------------------------------
(* extract_batch() itself                                                  *)

BatchReturns ==
    /\ main = "gathering"
    /\ \A u \in Users : pc[u] = "done"
    /\ main' = "returned"
    /\ UNCHANGED <<firstExc, results, processed, failed, pc, permits, outcome,
                   pageVars, rateVars, apiVars>>

\* Mutant: the error is re-raised without cancelling the tasks.
RaiseWithoutCancel ==
    /\ main = "gathering"
    /\ firstExc = "auth"
    /\ main' = "raisedAuth"
    /\ UNCHANGED <<firstExc, results, processed, failed, pc, permits, outcome,
                   pageVars, rateVars, apiVars>>

CancelAll ==
    /\ main = "gathering"
    /\ firstExc = "auth"
    /\ main' = "cancelling"
    /\ UNCHANGED <<firstExc, results, processed, failed, pc, permits, outcome,
                   pageVars, rateVars, apiVars>>

RaiseAuth ==
    /\ main = "cancelling"
    /\ \A u \in Users : ~Running(u)
    /\ main' = "raisedAuth"
    /\ UNCHANGED <<firstExc, results, processed, failed, pc, permits, outcome,
                   pageVars, rateVars, apiVars>>

(* Only NPAWAuthenticationError is handled around gather(): any other      *)
(* exception leaves extract_batch() with its tasks still running.          *)
RaiseOther ==
    /\ main = "gathering"
    /\ firstExc = "other"
    /\ main' = "raisedOther"
    /\ UNCHANGED <<firstExc, results, processed, failed, pc, permits, outcome,
                   pageVars, rateVars, apiVars>>

-----------------------------------------------------------------------------
(* The environment                                                         *)

Tick ==
    /\ age < RateTicks
    /\ age' = age + 1
    /\ wait' = [u \in Users |-> IF wait[u] > 0 THEN wait[u] - 1 ELSE 0]
    /\ UNCHANGED <<batchVars, pc, permits, outcome, pageVars, rateLock,
                   apiVars>>

Arrived(u) == avail[u] - atStart[u]

SessionEnds(u) ==
    /\ u \in InProgress
    /\ Arrived(u) < MaxArrivals
    /\ avail' = [avail EXCEPT ![u] = @ + 1]
    /\ UNCHANGED <<batchVars, pc, permits, outcome, pageVars, rateVars,
                   atStart, limit>>

-----------------------------------------------------------------------------

TaskStep(u) ==
    \/ AcquirePermit(u)
    \/ AcquireRateLock(u)
    \/ SendRequest(u)
    \/ PageArrives(u)
    \/ EmptyAnswer(u)
    \/ RetryLater(u)
    \/ BackoffEnds(u)
    \/ RequestFails(u)
    \/ FinishUser(u)
    \/ RaiseFromTask(u)
    \/ TaskCancelled(u)

BatchStep == BatchReturns \/ CancelAll \/ RaiseAuth \/ RaiseOther

Next ==
    \/ \E u \in Users : TaskStep(u) \/ SessionEnds(u)
    \/ BatchStep
    \/ Tick

(* The event loop runs every ready task and the waiting extract_batch(),   *)
(* requests end after at most 60 s, and time passes.                       *)
Fairness ==
    /\ \A u \in Users : WF_vars(TaskStep(u))
    /\ WF_vars(BatchStep)
    /\ WF_vars(Tick)

Spec == Init /\ [][Next]_vars

FairSpec == Spec /\ Fairness

-----------------------------------------------------------------------------
(* Properties                                                              *)

(* Type invariant.                                                         *)
TypeOK ==
    /\ main \in {"gathering", "cancelling", "returned", "raisedAuth",
                 "raisedOther"}
    /\ firstExc \in {"none", "auth", "other"}
    /\ pc \in [Users -> {"permit", "lock", "sleep", "request", "backoff",
                         "closing"} \cup Finished]
    /\ limit \in Limits
    /\ permits \in 0 .. limit
    /\ outcome \in [Users -> {"none", "ok", "cut", "error", "auth", "other"}]
    /\ attempt \in [Users -> 0 .. MaxRetries]
    /\ offset \in [Users -> Nat]
    /\ got \in [Users -> Seq(Int)]
    /\ rateLock \in Users \cup {NoUser}
    /\ wait \in [Users -> 0 .. RateTicks]
    /\ age \in 0 .. RateTicks
    /\ DOMAIN results \subseteq Users
    /\ \A u \in DOMAIN results : results[u] \in Seq(Int)
    /\ processed \in Nat
    /\ failed \in Nat
    /\ avail \in [Users -> Nat]
    /\ atStart \in [Users -> Nat]

(* R2.8: two requests are at least the configured interval apart, whichever*)
(* tasks send them.                                                        *)
RateLimited ==
    [][\A u \in Users : pc[u] # "request" /\ pc'[u] = "request"
                            => age = RateTicks]_vars

(* R2.8: every way out of a task, a cancellation before it got its permit  *)
(* included, leaves the semaphore right: the permits given out are the     *)
(* users in progress, so there are never more than the limit.              *)
PermitsConserved == permits + Cardinality(InProgress) = limit

(* R2.5: once extract_batch() has seen the authentication error, no user's *)
(* task sends another request.                                             *)
NoRequestAfterAbort ==
    [][\A u \in Users : pc'[u] = "request" /\ pc[u] # "request"
                            => main \notin {"cancelling", "raisedAuth"}]_vars

(* R2.5: when the authentication error is reported, every task has ended,  *)
(* the rate lock is free and all permits are back.                         *)
AbortIsComplete ==
    main = "raisedAuth" => /\ permits = limit
                           /\ rateLock = NoUser
                           /\ \A u \in Users : ~Running(u)

(* What extract_batch() returns accounts for every user exactly once:      *)
(* each has an entry, the entry of a failed user is empty, and the two     *)
(* counters agree with the tasks.  A user whose reading a hollow body cut  *)
(* short counts as processed, not as failed.                               *)
BatchAccounting ==
    /\ processed = Cardinality({u \in Users : pc[u] = "done"})
    /\ failed = Cardinality({u \in Users : pc[u] = "done"
                                           /\ outcome[u] = "error"})
    /\ main = "returned" =>
          /\ DOMAIN results = Users
          /\ \A u \in Users : results[u] = IF outcome[u] \in Successes
                                           THEN got[u] ELSE << >>

(* R2.3: an extraction that reads to the end, below the limit, has every   *)
(* session the user had when it began, although sessions that end meanwhile*)
(* shift the pages (some may then come twice).  One that a hollow body cut *)
(* short has the sessions down to where it stood, and says so nowhere: it  *)
(* misses only sessions older than the pages it took.                      *)
NothingSkipped ==
    \A u \in Users :
        /\ outcome[u] = "ok" /\ Len(got[u]) < MaxSessions =>
              \A n \in 1 .. atStart[u] : \E i \in DOMAIN got[u] : got[u][i] = n
        /\ outcome[u] = "cut" =>
              \A n \in 1 .. atStart[u] : n > avail[u] - offset[u] =>
                  \E i \in DOMAIN got[u] : got[u][i] = n

(* R2.3: while no session arrives the result is the user's newest sessions,*)
(* in order, each once, up to the limit; after a hollow body it is the     *)
(* newest of them, whole pages and fewer than the limit.                   *)
ExactWhenQuiet ==
    \A u \in Users : outcome[u] \in Successes /\ Arrived(u) = 0 =>
        /\ \A i \in DOMAIN got[u] : got[u][i] = avail[u] + 1 - i
        /\ outcome[u] = "ok" =>
              Len(got[u]) = IF avail[u] < MaxSessions THEN avail[u]
                                                     ELSE MaxSessions
        /\ outcome[u] = "cut" =>
              Len(got[u]) = offset[u] /\ Len(got[u]) < MaxSessions

(* extract_batch() ends: no combination of retries, cancellations and      *)
(* waiting for permits and for the lock keeps it from returning or raising.*)
BatchEnds == <>(main \in {"returned", "raisedAuth", "raisedOther"})

(* R2.5: a user's authentication error never ends as an empty result: the  *)
(* batch raises (another task's foreign exception may come first).         *)
AuthErrorAborts ==
    (\E u \in Users : outcome[u] = "auth")
        ~> main \in {"raisedAuth", "raisedOther"}
=============================================================================
