------------------------- MODULE NPAWExtractor_proofs -------------------------
(***************************************************************************)
(* Machine-checked proofs about NPAWExtractor, for any number of users,    *)
(* permits, retries, page sizes, ticks and any faults.                     *)
(*                                                                         *)
(* The argument: the rate lock is held exactly by the task that sleeps,    *)
(* and that task's remaining sleep plus the time since the last request is *)
(* always the interval (LockInv); a task is in progress exactly while it   *)
(* has a permit (PermitsConserved); and extract_batch() raises the         *)
(* authentication error only over finished tasks.  While a task reads, the *)
(* pages so far were full, so it has read as many sessions as its offset,  *)
(* and every session it began with that lies above that depth (PagingInv): *)
(* arrivals shift sessions down, into the pages still to be read.          *)
(***************************************************************************)
EXTENDS NPAWExtractor, FiniteSetTheorems, SequenceTheorems, TLAPS

Places == {"permit", "lock", "sleep", "request", "backoff", "closing"}
             \cup Finished

ControlType ==
    /\ main \in {"gathering", "cancelling", "returned", "raisedAuth",
                 "raisedOther"}
    /\ pc \in [Users -> Places]
    /\ permits \in Int
    /\ limit \in Nat
    /\ rateLock \in Users \cup {NoUser}
    /\ wait \in [Users -> Int]
    /\ age \in 0 .. RateTicks

(* The holder of the rate lock is the one task that sleeps, and it wakes   *)
(* up when the interval is over.                                           *)
LockInv ==
    /\ \A u \in Users : pc[u] = "sleep" =>
          rateLock = u /\ wait[u] = RateTicks - age
    /\ rateLock # NoUser => pc[rateLock] = "sleep"

AbortInv == main = "raisedAuth" => \A u \in Users : ~Running(u)

IInv == ControlType /\ LockInv /\ PermitsConserved /\ AbortInv

-----------------------------------------------------------------------------

(* The tasks in progress are finitely many.                                *)
LEMMA ProgressFinite ==
    IsFiniteSet(InProgress) /\ Cardinality(InProgress) \in Nat
<1>1. InProgress \subseteq Users
  BY DEF InProgress
<1>2. QED
  BY <1>1, ExtractorAssumption, FS_Subset, FS_CardinalityType

(* A task that enters the semaphore adds one to the tasks in progress.     *)
LEMMA Enters ==
    ASSUME ControlType, NEW u \in Users, NEW p \in Places, pc[u] = "permit",
           p \notin Finished \cup {"permit"}, GoTo(u, p)
    PROVE  Cardinality(InProgress') = Cardinality(InProgress) + 1
<1>1. InProgress' = InProgress \cup {u} /\ u \notin InProgress
  BY DEF ControlType, GoTo, InProgress
<1>2. QED
  BY <1>1, ProgressFinite, FS_AddElement

(* A task that leaves the semaphore takes one away.                        *)
LEMMA Leaves ==
    ASSUME ControlType, NEW u \in InProgress, NEW p \in Finished, GoTo(u, p)
    PROVE  Cardinality(InProgress') = Cardinality(InProgress) - 1
<1>1. InProgress' = InProgress \ {u}
  BY DEF ControlType, GoTo, InProgress, Places
<1>2. QED
  BY <1>1, ProgressFinite, FS_RemoveElement

(* A task that moves on inside or outside the semaphore changes nothing.   *)
LEMMA Stays ==
    ASSUME ControlType, NEW u \in Users, NEW p \in Places, GoTo(u, p),
           u \in InProgress <=> p \notin Finished \cup {"permit"}
    PROVE  InProgress' = InProgress
BY DEF ControlType, GoTo, InProgress

-----------------------------------------------------------------------------

(* All tasks wait for a permit at first, and all permits are free.         *)
LEMMA InitInv == ASSUME Init PROVE IInv
<1>1. ControlType /\ LockInv /\ AbortInv
  BY ExtractorAssumption
     DEF Init, ControlType, Places, LockInv, AbortInv
<1>2. InProgress = {}
  BY DEF Init, InProgress
<1>3. PermitsConserved
  BY <1>2, FS_EmptySet, ExtractorAssumption DEF Init, PermitsConserved
<1>4. QED
  BY <1>1, <1>3 DEF IInv

(* Every step of a task keeps the invariant.                               *)
LEMMA TaskKeeps == ASSUME IInv, NEW u \in Users, TaskStep(u) PROVE IInv'
<1> USE ExtractorAssumption
<1>l. limit' = limit
  BY DEF TaskStep, AcquirePermit, AcquireRateLock, SendRequest, PageArrives,
         EmptyAnswer, RetryLater, BackoffEnds, RequestFails, FinishUser, RaiseFromTask,
         TaskCancelled, apiVars
<1> USE <1>l
<1>1. CASE AcquirePermit(u)
  <2>1. Cardinality(InProgress') = Cardinality(InProgress) + 1
    BY <1>1, Enters DEF AcquirePermit, At, IInv, Finished, Places
  <2>2. ControlType' /\ LockInv' /\ AbortInv'
    BY <1>1 DEF AcquirePermit, At, GoTo, batchVars, rateVars, IInv, ControlType,
                LockInv, AbortInv, Running, Places, Finished
  <2>3. PermitsConserved'
    BY <1>1, <2>1, ProgressFinite
       DEF AcquirePermit, IInv, ControlType, PermitsConserved
  <2>4. QED
    BY <2>2, <2>3 DEF IInv
<1>2. CASE AcquireRateLock(u)
  <2>1. InProgress' = InProgress
    BY <1>2, Stays DEF AcquireRateLock, At, IInv, InProgress, Finished, Places
  <2>2. ControlType' /\ LockInv' /\ AbortInv'
    BY <1>2 DEF AcquireRateLock, At, GoTo, batchVars, IInv, ControlType, LockInv,
                AbortInv, Running, Places, Finished
  <2>3. QED
    BY <1>2, <2>1, <2>2 DEF AcquireRateLock, IInv, PermitsConserved
<1>3. CASE SendRequest(u)
  <2>1. InProgress' = InProgress
    BY <1>3, Stays DEF SendRequest, At, IInv, InProgress, Finished, Places
  <2>2. ControlType' /\ LockInv' /\ AbortInv'
    BY <1>3 DEF SendRequest, At, GoTo, batchVars, IInv, ControlType, LockInv,
                AbortInv, Running, Places, Finished
  <2>3. QED
    BY <1>3, <2>1, <2>2 DEF SendRequest, IInv, PermitsConserved
<1>4. ASSUME NEW p \in {"lock", "backoff", "closing"},
             pc[u] \in {"request", "backoff"}, GoTo(u, p), main # "cancelling",
             UNCHANGED <<batchVars, permits, rateVars>>
      PROVE  IInv'
  <2>1. InProgress' = InProgress
    BY <1>4, Stays DEF IInv, InProgress, Finished, Places
  <2>2. ControlType' /\ LockInv' /\ AbortInv'
    BY <1>4 DEF GoTo, batchVars, rateVars, IInv, ControlType, LockInv, AbortInv,
                Running, Places, Finished
  <2>3. QED
    BY <1>4, <2>1, <2>2 DEF IInv, PermitsConserved
<1>5. CASE \/ PageArrives(u) \/ EmptyAnswer(u) \/ RetryLater(u)
           \/ BackoffEnds(u) \/ RequestFails(u)
  BY <1>4, <1>5
     DEF PageArrives, EmptyAnswer, RetryLater, BackoffEnds, RequestFails, At
<1>6. ASSUME NEW p \in {"done", "raised"}, pc[u] = "closing",
             permits' = permits + 1, GoTo(u, p), main # "cancelling",
             UNCHANGED <<main, rateVars>>
      PROVE  IInv'
  <2>1. Cardinality(InProgress') = Cardinality(InProgress) - 1
    BY <1>6, Leaves DEF IInv, InProgress, Finished
  <2>2. ControlType' /\ LockInv' /\ AbortInv'
    BY <1>6 DEF GoTo, rateVars, IInv, ControlType, LockInv, AbortInv, Running,
                Places, Finished
  <2>3. PermitsConserved'
    BY <1>6, <2>1, ProgressFinite DEF IInv, ControlType, PermitsConserved
  <2>4. QED
    BY <2>2, <2>3 DEF IInv
<1>7. CASE FinishUser(u) \/ RaiseFromTask(u)
  BY <1>6, <1>7 DEF FinishUser, RaiseFromTask, At
<1>8. CASE TaskCancelled(u)
  <2>1. ControlType' /\ LockInv' /\ AbortInv'
    BY <1>8 DEF TaskCancelled, GoTo, batchVars, IInv, ControlType, LockInv,
                AbortInv, Running, Places, Finished
  <2>2. CASE u \in InProgress
    <3>1. Cardinality(InProgress') = Cardinality(InProgress) - 1
      BY <1>8, <2>2, Leaves DEF TaskCancelled, IInv, Finished
    <3>2. QED
      BY <1>8, <2>1, <2>2, <3>1, ProgressFinite
         DEF TaskCancelled, IInv, ControlType, PermitsConserved
  <2>3. CASE u \notin InProgress
    <3>1. InProgress' = InProgress
      BY <1>8, <2>3, Stays DEF TaskCancelled, IInv, Finished, Places
    <3>2. QED
      BY <1>8, <2>1, <2>3, <3>1 DEF TaskCancelled, IInv, PermitsConserved
  <2>4. QED
    BY <2>2, <2>3
<1>9. QED
  BY <1>1, <1>2, <1>3, <1>5, <1>7, <1>8 DEF TaskStep

(* Everything else: extract_batch() itself, time, and the sessions.        *)
LEMMA OthersKeep ==
    ASSUME IInv,
           \/ BatchStep
           \/ Tick
           \/ \E u \in Users : SessionEnds(u)
           \/ UNCHANGED vars
    PROVE  IInv'
<1>l. limit' = limit
  BY DEF BatchStep, BatchReturns, CancelAll, RaiseAuth, RaiseOther, Tick,
         SessionEnds, vars, apiVars
<1> USE ExtractorAssumption, <1>l
<1>1. UNCHANGED <<pc, permits, rateLock>>
  BY DEF BatchStep, BatchReturns, CancelAll, RaiseAuth, RaiseOther, Tick,
         SessionEnds, vars, rateVars
<1>2. InProgress' = InProgress /\ PermitsConserved'
  BY <1>1 DEF InProgress, PermitsConserved, IInv
<1>3. CASE BatchStep
  <2>1. UNCHANGED <<wait, age>>
    BY <1>3 DEF BatchStep, BatchReturns, CancelAll, RaiseAuth, RaiseOther, rateVars
  <2>2. ControlType' /\ LockInv' /\ AbortInv'
    BY <1>1, <1>3, <2>1
       DEF BatchStep, BatchReturns, CancelAll, RaiseAuth, RaiseOther, IInv,
           ControlType, LockInv, AbortInv, Running
  <2>3. QED
    BY <1>2, <2>2 DEF IInv
<1>4. CASE Tick
  <2>1. ControlType' /\ LockInv' /\ AbortInv'
    BY <1>1, <1>4
       DEF Tick, batchVars, IInv, ControlType, LockInv, AbortInv, Running
  <2>2. QED
    BY <1>2, <2>1 DEF IInv
<1>5. CASE (\E u \in Users : SessionEnds(u)) \/ UNCHANGED vars
  <2>1. UNCHANGED <<main, wait, age>>
    BY <1>5 DEF SessionEnds, vars, batchVars, rateVars
  <2>2. ControlType' /\ LockInv' /\ AbortInv'
    BY <1>1, <2>1 DEF IInv, ControlType, LockInv, AbortInv, Running
  <2>3. QED
    BY <1>2, <2>2 DEF IInv
<1>6. QED
  BY <1>3, <1>4, <1>5

-----------------------------------------------------------------------------

(* The strengthened invariant holds in every state.                        *)
THEOREM InductiveInvariant == Spec => []IInv
<1>1. Init => IInv
  BY InitInv
<1>2. IInv /\ [Next]_vars => IInv'
  BY TaskKeeps, OthersKeep DEF Next
<1>3. QED
  BY <1>1, <1>2, PTL DEF Spec

(* R2.8: never more than max_concurrent users in progress, no permit lost. *)
THEOREM SemaphoreIsRight == Spec => []PermitsConserved
<1>1. IInv => PermitsConserved
  BY DEF IInv
<1>2. QED
  BY <1>1, InductiveInvariant, PTL

(* R2.5: the authentication error is raised over finished tasks, with the  *)
(* lock free and all permits back.                                         *)
THEOREM AbortCompletes == Spec => []AbortIsComplete
<1>1. IInv => AbortIsComplete
  <2> SUFFICES ASSUME IInv, main = "raisedAuth" PROVE AbortIsComplete
    BY DEF AbortIsComplete
  <2>1. \A u \in Users : pc[u] \in Finished
    BY DEF IInv, AbortInv, Running
  <2>2. rateLock = NoUser
    BY <2>1 DEF IInv, ControlType, LockInv, Finished
  <2>3. InProgress = {}
    BY <2>1 DEF InProgress
  <2>4. permits = limit
    BY <2>3, FS_EmptySet, ExtractorAssumption
       DEF IInv, ControlType, PermitsConserved
  <2>5. QED
    BY <2>1, <2>2, <2>4 DEF AbortIsComplete, Running
<1>2. QED
  BY <1>1, InductiveInvariant, PTL

(* Only SendRequest makes a task enter "request".                          *)
LEMMA OnlySendRequest ==
    ASSUME IInv, [Next]_vars, NEW u \in Users,
           pc[u] # "request", pc'[u] = "request"
    PROVE  SendRequest(u)
<1>1. PICK v \in Users : TaskStep(v) /\ pc' # pc
  BY DEF Next, BatchStep, BatchReturns, CancelAll, RaiseAuth, RaiseOther, Tick,
         SessionEnds, vars
<1>2. \E p \in Places : GoTo(v, p) /\ (p = "request" => SendRequest(v))
  BY <1>1
     DEF TaskStep, AcquirePermit, AcquireRateLock, SendRequest, PageArrives,
         EmptyAnswer, RetryLater, BackoffEnds, RequestFails, FinishUser, RaiseFromTask,
         TaskCancelled, Places, Finished
<1>3. QED
  BY <1>2 DEF GoTo, IInv, ControlType

(* R2.8: the requests of all tasks together keep the interval.             *)
THEOREM RequestsAreSpaced == Spec => RateLimited
<1>1. IInv /\ [Next]_vars =>
        \A u \in Users : pc[u] # "request" /\ pc'[u] = "request"
                            => age = RateTicks
  <2> SUFFICES ASSUME IInv, [Next]_vars, NEW u \in Users,
                      pc[u] # "request", pc'[u] = "request"
               PROVE  age = RateTicks
    OBVIOUS
  <2>1. SendRequest(u)
    BY OnlySendRequest
  <2>2. QED
    BY <2>1, ExtractorAssumption DEF SendRequest, At, IInv, ControlType, LockInv
<1>2. QED
  BY <1>1, InductiveInvariant, PTL DEF Spec, RateLimited

(* R2.5: no request is sent once the authentication error was seen.        *)
THEOREM AbortStopsRequests == Spec => NoRequestAfterAbort
<1>1. IInv /\ [Next]_vars =>
        \A u \in Users : pc'[u] = "request" /\ pc[u] # "request"
                            => main \notin {"cancelling", "raisedAuth"}
  <2> SUFFICES ASSUME IInv, [Next]_vars, NEW u \in Users,
                      pc[u] # "request", pc'[u] = "request"
               PROVE  main \notin {"cancelling", "raisedAuth"}
    OBVIOUS
  <2>1. SendRequest(u)
    BY OnlySendRequest
  <2>2. QED
    BY <2>1 DEF SendRequest, At, IInv, AbortInv, Running, Finished
<1>2. QED
  BY <1>1, InductiveInvariant, PTL DEF Spec, NoRequestAfterAbort

-----------------------------------------------------------------------------
(* Types of the data                                                       *)

DataType ==
    /\ outcome \in [Users -> {"none", "ok", "cut", "error", "auth", "other"}]
    /\ attempt \in [Users -> 0 .. MaxRetries]
    /\ offset \in [Users -> Nat]
    /\ got \in [Users -> Seq(Int)]
    /\ avail \in [Users -> Nat]
    /\ atStart \in [Users -> Nat]

(* Cutting a list keeps its first entries.                                 *)
LEMMA TruncatedFacts ==
    ASSUME NEW s \in Seq(Int)
    PROVE  /\ Truncated(s) \in Seq(Int)
           /\ Len(Truncated(s)) =
                 IF Len(s) < MaxSessions THEN Len(s) ELSE MaxSessions
           /\ \A i \in 1 .. Len(Truncated(s)) : Truncated(s)[i] = s[i]
<1> DEFINE m == IF Len(s) < MaxSessions THEN Len(s) ELSE MaxSessions
<1>1. Len(s) \in Nat /\ MaxSessions \in Nat /\ m \in Nat /\ m <= Len(s)
  BY ExtractorAssumption
<1>2. Truncated(s) = SubSeq(s, 1, m)
  BY DEF Truncated
<1> HIDE DEF m
<1>3. /\ SubSeq(s, 1, m) \in Seq(Int)
      /\ Len(SubSeq(s, 1, m)) = m
      /\ \A i \in 1 .. m : SubSeq(s, 1, m)[i] = s[i]
  BY <1>1
<1>4. QED  BY <1>2, <1>3 DEF m

(* A page holds the newest of the sessions beyond the offset, in order.    *)
LEMMA PageFacts ==
    ASSUME NEW u \in Users, offset[u] \in Nat, avail[u] \in Nat,
           offset[u] <= avail[u]
    PROVE  /\ Page(u) \in Seq(Int)
           /\ Len(Page(u)) = IF avail[u] - offset[u] < BatchSize
                             THEN avail[u] - offset[u] ELSE BatchSize
           /\ \A i \in 1 .. Len(Page(u)) : Page(u)[i] = avail[u] - offset[u] + 1 - i
<1> DEFINE left == avail[u] - offset[u]
           m == IF left < BatchSize THEN left ELSE BatchSize
<1>1. left \in Nat /\ m \in Nat
  BY ExtractorAssumption
<1>2. Page(u) = [i \in 1 .. m |-> left + 1 - i]
  BY DEF Page
<1> HIDE DEF left, m
<1>3. [i \in 1 .. m |-> left + 1 - i] \in [1 .. m -> Int]
  BY <1>1
<1>4. Page(u) \in Seq(Int) /\ Len(Page(u)) = m
  BY <1>1, <1>2, <1>3
<1>5. \A i \in 1 .. Len(Page(u)) : Page(u)[i] = left + 1 - i
  BY <1>2, <1>4
<1>6. QED  BY <1>4, <1>5 DEF left, m

-----------------------------------------------------------------------------
(* Paging                                                                  *)

(* The places of a task before its outcome is known.                       *)
Fetching == {"permit", "lock", "sleep", "request", "backoff"}

(* The sessions a user had when the extraction began and that lie above    *)
(* the depth down to which it has read are in got.                         *)
Covered(u) ==
    \A n \in 1 .. atStart[u] : n > avail[u] - offset[u] =>
        \E i \in DOMAIN got[u] : got[u][i] = n

(* got is the newest sessions, in order.                                   *)
InOrder(u) == \A i \in DOMAIN got[u] : got[u][i] = avail[u] + 1 - i

(* All pages so far were full, and the limit is not reached.               *)
ReadingOn(u) ==
    /\ Len(got[u]) = offset[u]
    /\ offset[u] <= avail[u]
    /\ offset[u] < MaxSessions
    /\ Covered(u)
    /\ Arrived(u) = 0 => InOrder(u)

(* What a successful extraction ends with.                                 *)
ReadToEnd(u) ==
    /\ Len(got[u]) < MaxSessions =>
          \A n \in 1 .. atStart[u] : \E i \in DOMAIN got[u] : got[u][i] = n
    /\ Arrived(u) = 0 =>
          /\ InOrder(u)
          /\ Len(got[u]) = IF avail[u] < MaxSessions THEN avail[u]
                                                     ELSE MaxSessions

PagingOf(u) ==
    /\ atStart[u] <= avail[u]
    /\ pc[u] \in Fetching => outcome[u] = "none"
    /\ pc[u] = "permit" => offset[u] = 0
    /\ outcome[u] = "none" => ReadingOn(u)
    /\ outcome[u] = "ok" => ReadToEnd(u)
    /\ outcome[u] = "cut" => ReadingOn(u)

PagingInv == \A u \in Users : PagingOf(u)

(* What the sessions collected are once the page that arrives is added.    *)
Collected(u, all) ==
    /\ all \in Seq(Int)
    /\ Len(all) = offset[u] + Len(Page(u))
    /\ Arrived(u) = 0 => \A i \in 1 .. Len(all) : all[i] = avail[u] + 1 - i
    /\ \A n \in 1 .. atStart[u] : n > avail[u] - Len(all) =>
          \E i \in 1 .. Len(all) : all[i] = n

(* Every page adds the newest sessions not read yet.                       *)
LEMMA AllSessions ==
    ASSUME DataType, NEW u \in Users, atStart[u] <= avail[u], ReadingOn(u)
    PROVE  Collected(u, got[u] \o Page(u))
<1>x. PICK all : all = got[u] \o Page(u)
  OBVIOUS
<1>t. /\ got[u] \in Seq(Int)
      /\ offset[u] \in Nat /\ avail[u] \in Nat /\ atStart[u] \in Nat
      /\ Len(got[u]) = offset[u] /\ offset[u] <= avail[u]
  BY DEF DataType, ReadingOn
<1>p. /\ Page(u) \in Seq(Int)
      /\ Len(Page(u)) \in Nat
      /\ \A i \in 1 .. Len(Page(u)) : Page(u)[i] = avail[u] - offset[u] + 1 - i
  BY <1>t, PageFacts
<1>1. /\ all \in Seq(Int)
      /\ Len(all) = offset[u] + Len(Page(u))
      /\ \A i \in 1 .. Len(all) : all[i] = IF i <= offset[u] THEN got[u][i]
                                           ELSE Page(u)[i - offset[u]]
  BY <1>t, <1>p, <1>x, ConcatProperties
<1>k. PICK p \in Nat, k \in Nat : p = Len(Page(u)) /\ k = Len(all) /\ k = offset[u] + p
  BY <1>t, <1>p, <1>1
<1>2. \A i \in 1 .. Len(all) : i > offset[u] => all[i] = avail[u] + 1 - i
  <2> SUFFICES ASSUME NEW i \in 1 .. Len(all), i > offset[u]
               PROVE  all[i] = avail[u] + 1 - i
    OBVIOUS
  <2>1. i \in Nat /\ i <= k
    BY <1>k
  <2>2. PICK j \in Int : j = i - offset[u]
    BY <1>t, <2>1
  <2>3. j \in 1 .. p /\ avail[u] - offset[u] + 1 - j = avail[u] + 1 - i
    <3>1. PICK o \in Nat, a \in Nat : o = offset[u] /\ a = avail[u]
      BY <1>t
    <3>2. i > o /\ i <= o + p /\ j = i - o
      BY <1>k, <2>1, <2>2, <3>1
    <3>3. j \in 1 .. p /\ a - o + 1 - j = a + 1 - i
      BY <2>1, <3>2
    <3>4. QED  BY <3>1, <3>3
  <2>4. Page(u)[j] = avail[u] + 1 - i
    BY <1>p, <1>k, <2>3
  <2>5. all[i] = Page(u)[j]
    BY <1>t, <1>1, <2>1, <2>2
  <2>6. QED  BY <2>4, <2>5
<1>3. ASSUME Arrived(u) = 0, NEW i \in 1 .. Len(all)
      PROVE  all[i] = avail[u] + 1 - i
  <2>1. CASE i <= offset[u]
    <3>1. i \in Nat /\ i >= 1
      OBVIOUS
    <3>2. i \in 1 .. Len(got[u])
      BY <1>t, <2>1, <3>1
    <3>3. i \in DOMAIN got[u]
      BY <1>t, <3>2
    <3>4. all[i] = got[u][i]
      BY <1>1, <2>1
    <3>5. QED  BY <1>3, <3>3, <3>4 DEF ReadingOn, InOrder
  <2>2. CASE i > offset[u]
    BY <1>2, <2>2
  <2>3. QED  BY <1>t, <2>1, <2>2
<1>4. ASSUME NEW n \in 1 .. atStart[u], n > avail[u] - Len(all)
      PROVE  \E i \in 1 .. Len(all) : all[i] = n
  <2>1. CASE n > avail[u] - offset[u]
    <3>1. PICK i \in DOMAIN got[u] : got[u][i] = n
      BY <2>1 DEF ReadingOn, Covered
    <3>2. i \in 1 .. offset[u]
      BY <1>t, <3>1
    <3>3. i \in 1 .. Len(all) /\ i <= offset[u]
      BY <1>t, <1>k, <3>2
    <3>4. all[i] = got[u][i]
      BY <1>1, <3>3
    <3>5. QED  BY <3>1, <3>3, <3>4
  <2>2. CASE ~(n > avail[u] - offset[u])
    <3>1. n \in Nat /\ n >= 1 /\ n <= avail[u] - offset[u] /\ n > avail[u] - k
      BY <1>t, <1>k, <1>4, <2>2
    <3>2. PICK i \in Int : i = avail[u] + 1 - n
      BY <1>t, <3>1
    <3>3. i \in 1 .. k /\ i > offset[u] /\ avail[u] + 1 - i = n
      BY <1>t, <3>1, <3>2
    <3>4. i \in 1 .. Len(all)
      BY <1>k, <3>3
    <3>5. all[i] = n
      BY <1>2, <3>3, <3>4
    <3>6. QED  BY <3>4, <3>5
  <2>3. QED  BY <2>1, <2>2
<1>5. Collected(u, all)
  BY <1>1, <1>3, <1>4 DEF Collected
<1>6. QED  BY <1>5, <1>x

(* The last page completes the extraction.                                 *)
LEMMA LastPage ==
    ASSUME DataType, NEW u \in Users, atStart[u] <= avail[u], ReadingOn(u),
           NEW all, all = got[u] \o Page(u),
           Len(Page(u)) < BatchSize \/ Len(all) >= MaxSessions,
           got'[u] = Truncated(all), UNCHANGED <<avail[u], atStart[u]>>
    PROVE  ReadToEnd(u)'
<1>t. /\ offset[u] \in Nat /\ avail[u] \in Nat /\ atStart[u] \in Nat
      /\ offset[u] <= avail[u]
      /\ BatchSize \in Nat \ {0} /\ MaxSessions \in Nat \ {0}
  BY ExtractorAssumption DEF DataType, ReadingOn
<1>p. Len(Page(u)) = IF avail[u] - offset[u] < BatchSize
                     THEN avail[u] - offset[u] ELSE BatchSize
  BY <1>t, PageFacts
<1>b. Collected(u, all)
  BY AllSessions
<1>a. /\ all \in Seq(Int)
      /\ Len(all) = offset[u] + Len(Page(u))
      /\ Arrived(u) = 0 => \A i \in 1 .. Len(all) : all[i] = avail[u] + 1 - i
      /\ \A n \in 1 .. atStart[u] : n > avail[u] - Len(all) =>
            \E i \in 1 .. Len(all) : all[i] = n
  BY <1>b DEF Collected
<1> DEFINE m == IF Len(all) < MaxSessions THEN Len(all) ELSE MaxSessions
<1>g. PICK g : g = got'[u]
  OBVIOUS
<1>k. PICK k \in Nat : k = Len(all)
  BY <1>a
<1>m. /\ m \in Nat /\ m <= k /\ m <= MaxSessions /\ k <= avail[u]
      /\ (k < MaxSessions => k = avail[u] /\ m = avail[u])
      /\ (k >= MaxSessions => m = MaxSessions)
  <2>1. Len(Page(u)) < BatchSize \/ k >= MaxSessions
    BY <1>k
  <2>2. k = offset[u] + Len(Page(u))
    BY <1>a, <1>k
  <2>3. CASE avail[u] - offset[u] < BatchSize
    <3>1. k = avail[u]
      BY <1>t, <1>p, <2>2, <2>3
    <3>2. QED  BY <1>t, <1>k, <3>1
  <2>4. CASE ~(avail[u] - offset[u] < BatchSize)
    <3>1. k = offset[u] + BatchSize /\ k >= MaxSessions
      BY <1>t, <1>p, <2>1, <2>2, <2>4
    <3>2. QED  BY <1>t, <1>k, <2>4, <3>1
  <2>5. QED  BY <2>3, <2>4
<1>c. g \in Seq(Int) /\ Len(g) = m /\ \A i \in 1 .. m : g[i] = all[i]
  <2> DEFINE cut == Truncated(all)
  <2>1. /\ cut \in Seq(Int) /\ Len(cut) = m
        /\ \A i \in 1 .. Len(cut) : cut[i] = all[i]
    BY <1>a, TruncatedFacts
  <2>2. g = cut
    BY <1>g
  <2> HIDE DEF cut, m
  <2>3. QED  BY <2>1, <2>2
<1> HIDE DEF m
<1>d. DOMAIN g = 1 .. m
  BY <1>c, <1>m
<1>1. ASSUME m < MaxSessions, NEW n \in 1 .. atStart[u]
      PROVE  \E i \in DOMAIN g : g[i] = n
  <2>1. k = avail[u] /\ m = k
    BY <1>1, <1>m, <1>t
  <2>2. n > avail[u] - Len(all)
    BY <1>t, <1>k, <2>1
  <2>3. PICK i \in 1 .. Len(all) : all[i] = n
    BY <1>a, <2>2
  <2>4. QED  BY <1>c, <1>d, <1>k, <2>1, <2>3
<1>2. ASSUME Arrived(u) = 0
      PROVE  /\ \A i \in DOMAIN g : g[i] = avail[u] + 1 - i
             /\ m = IF avail[u] < MaxSessions THEN avail[u] ELSE MaxSessions
  <2>1. \A i \in 1 .. m : i \in 1 .. Len(all)
    BY <1>k, <1>m
  <2>2. \A i \in 1 .. m : g[i] = avail[u] + 1 - i
    BY <1>a, <1>c, <1>2, <2>1
  <2>3. QED  BY <1>d, <1>m, <1>t, <2>2
<1>r. avail'[u] = avail[u] /\ atStart'[u] = atStart[u]
  OBVIOUS
<1>3. (Len(got[u]) < MaxSessions =>
          \A n \in 1 .. atStart[u] : \E i \in DOMAIN got[u] : got[u][i] = n)'
  BY <1>1, <1>c, <1>g, <1>r
<1>4. (Arrived(u) = 0 => /\ InOrder(u)
                        /\ Len(got[u]) = IF avail[u] < MaxSessions
                                         THEN avail[u] ELSE MaxSessions)'
  BY <1>2, <1>c, <1>g, <1>r DEF InOrder, Arrived
<1>5. QED  BY <1>3, <1>4 DEF ReadToEnd

(* A full page below the limit leaves the task reading on.                 *)
LEMMA FullPage ==
    ASSUME DataType, NEW u \in Users, atStart[u] <= avail[u], ReadingOn(u),
           NEW all, all = got[u] \o Page(u),
           ~(Len(Page(u)) < BatchSize \/ Len(all) >= MaxSessions),
           got'[u] = all, offset'[u] = offset[u] + BatchSize,
           UNCHANGED <<avail[u], atStart[u]>>
    PROVE  ReadingOn(u)'
<1>t. /\ offset[u] \in Nat /\ avail[u] \in Nat /\ atStart[u] \in Nat
      /\ offset[u] <= avail[u]
      /\ BatchSize \in Nat \ {0} /\ MaxSessions \in Nat \ {0}
  BY ExtractorAssumption DEF DataType, ReadingOn
<1>p. Len(Page(u)) = IF avail[u] - offset[u] < BatchSize
                     THEN avail[u] - offset[u] ELSE BatchSize
  BY <1>t, PageFacts
<1>b. Collected(u, all)
  BY AllSessions
<1>a. /\ all \in Seq(Int)
      /\ Len(all) = offset[u] + Len(Page(u))
      /\ Arrived(u) = 0 => \A i \in 1 .. Len(all) : all[i] = avail[u] + 1 - i
      /\ \A n \in 1 .. atStart[u] : n > avail[u] - Len(all) =>
            \E i \in 1 .. Len(all) : all[i] = n
  BY <1>b DEF Collected
<1>o. PICK o : o = offset'[u]
  OBVIOUS
<1>1. /\ Len(all) = o /\ o \in Nat /\ o <= avail[u] /\ o < MaxSessions
      /\ DOMAIN all = 1 .. Len(all)
  <2>1. avail[u] - offset[u] >= BatchSize /\ Len(Page(u)) = BatchSize
    BY <1>t, <1>p
  <2>2. o = offset[u] + BatchSize
    BY <1>o
  <2>3. QED  BY <1>t, <1>a, <2>1, <2>2
<1>r. /\ avail'[u] = avail[u] /\ atStart'[u] = atStart[u]
      /\ got'[u] = all /\ offset'[u] = o
  BY <1>o
<1>2. Covered(u)'
  BY <1>a, <1>1, <1>r DEF Covered
<1>3. Arrived(u)' = 0 => InOrder(u)'
  BY <1>a, <1>1, <1>r DEF Arrived, InOrder
<1>4. QED  BY <1>1, <1>2, <1>3, <1>r DEF ReadingOn

(* A step that leaves the pages, the outcomes and the sessions alone.      *)
LEMMA PagesUntouched ==
    ASSUME PagingInv,
           UNCHANGED <<outcome, offset, got, avail, atStart>>,
           \A u \in Users : /\ pc'[u] \in Fetching => pc[u] \in Fetching
                            /\ pc'[u] = "permit" => pc[u] = "permit"
    PROVE  PagingInv'
BY DEF PagingInv, PagingOf, ReadingOn, ReadToEnd, Covered, InOrder, Arrived

(* Of the other users nothing changes.                                     *)
LEMMA OthersUntouched ==
    ASSUME PagingInv, NEW v \in Users,
           UNCHANGED <<outcome[v], offset[v], got[v], avail[v], atStart[v], pc[v]>>
    PROVE  PagingOf(v)'
BY DEF PagingInv, PagingOf, ReadingOn, ReadToEnd, Covered, InOrder, Arrived

(* A page arrives.                                                         *)
LEMMA PageArrivesKeeps ==
    ASSUME DataType, pc \in [Users -> Places], PagingInv, NEW u \in Users,
           PageArrives(u)
    PROVE  got' \in [Users -> Seq(Int)] /\ PagingInv'
<1>1. /\ outcome[u] = "none" /\ atStart[u] <= avail[u] /\ ReadingOn(u)
      /\ pc[u] = "request"
  BY DEF PagingInv, PagingOf, PageArrives, At, Fetching
<1>2. PICK all : all = got[u] \o Page(u)
  OBVIOUS
<1>3. Collected(u, all)
  BY <1>1, <1>2, AllSessions
<1>4. all \in Seq(Int) /\ Truncated(all) \in Seq(Int)
  BY <1>3, TruncatedFacts DEF Collected
<1> DEFINE last == Len(Page(u)) < BatchSize \/ Len(all) >= MaxSessions
<1>5. /\ got' = [got EXCEPT ![u] = IF last THEN Truncated(all) ELSE all]
      /\ outcome' = [outcome EXCEPT ![u] = IF last THEN "ok" ELSE @]
      /\ pc' = [pc EXCEPT ![u] = IF last THEN "closing" ELSE "lock"]
      /\ offset' = [offset EXCEPT ![u] = @ + BatchSize]
      /\ UNCHANGED <<avail, atStart>>
  BY <1>2 DEF PageArrives, GoTo, apiVars
<1>6. got' \in [Users -> Seq(Int)]
  BY <1>4, <1>5 DEF DataType
<1>7. PagingOf(u)'
  <2>1. CASE last
    <3>1. got'[u] = Truncated(all) /\ outcome'[u] = "ok" /\ pc'[u] = "closing"
      BY <1>5, <2>1 DEF DataType
    <3>2. ReadToEnd(u)'
      BY <1>1, <1>2, <1>5, <2>1, <3>1, LastPage
    <3>3. QED  BY <1>1, <1>5, <3>1, <3>2 DEF PagingOf, Fetching
  <2>2. CASE ~last
    <3>1. /\ got'[u] = all /\ outcome'[u] = "none" /\ pc'[u] = "lock"
          /\ offset'[u] = offset[u] + BatchSize
      BY <1>1, <1>5, <2>2 DEF DataType
    <3>2. ReadingOn(u)'
      BY <1>1, <1>2, <1>5, <2>2, <3>1, FullPage
    <3>3. QED  BY <1>1, <1>5, <3>1, <3>2 DEF PagingOf
  <2>3. QED  BY <2>1, <2>2
<1>8. ASSUME NEW v \in Users, v # u PROVE PagingOf(v)'
  <2>1. UNCHANGED <<outcome[v], offset[v], got[v], avail[v], atStart[v], pc[v]>>
    BY <1>5, <1>8 DEF DataType
  <2>2. QED  BY <2>1, OthersUntouched
<1>9. QED  BY <1>6, <1>7, <1>8 DEF PagingInv

(* A task begins with all sessions before it.                              *)
LEMMA PermitKeeps ==
    ASSUME DataType, pc \in [Users -> Places], PagingInv, NEW u \in Users,
           AcquirePermit(u)
    PROVE  PagingInv'
<1>1. /\ pc[u] = "permit" /\ outcome[u] = "none" /\ offset[u] = 0
      /\ got[u] \in Seq(Int) /\ Len(got[u]) = 0 /\ avail[u] \in Nat
      /\ 0 < MaxSessions
  BY DEF PagingInv, PagingOf, AcquirePermit, At, Fetching, ReadingOn, DataType
<1>2. /\ atStart'[u] = avail[u]
      /\ pc'[u] = "lock"
      /\ UNCHANGED <<outcome[u], offset[u], got[u], avail[u]>>
  BY DEF AcquirePermit, GoTo, pageVars, DataType
<1>3. DOMAIN got[u] = {}
  BY <1>1
<1>4. ReadingOn(u)'
  BY <1>1, <1>2, <1>3 DEF ReadingOn, Covered, InOrder
<1>5. PagingOf(u)'
  BY <1>1, <1>2, <1>4 DEF PagingOf
<1>6. ASSUME NEW v \in Users, v # u PROVE PagingOf(v)'
  <2>1. UNCHANGED <<outcome[v], offset[v], got[v], avail[v], atStart[v], pc[v]>>
    BY <1>6 DEF AcquirePermit, GoTo, pageVars, DataType
  <2>2. QED  BY <2>1, OthersUntouched
<1>7. QED  BY <1>5, <1>6 DEF PagingInv

(* A session ends: it shifts the pages, and the result is no longer exact. *)
LEMMA SessionKeeps ==
    ASSUME DataType, PagingInv, NEW u \in Users, SessionEnds(u)
    PROVE  PagingInv'
<1>1. /\ avail[u] \in Nat /\ atStart[u] \in Nat /\ atStart[u] <= avail[u]
      /\ offset[u] \in Nat
  BY DEF DataType, PagingInv, PagingOf
<1>2. /\ avail'[u] = avail[u] + 1
      /\ UNCHANGED <<outcome[u], offset[u], got[u], atStart[u], pc[u]>>
  BY DEF SessionEnds, pageVars, DataType
<1>3. Arrived(u)' # 0
  BY <1>1, <1>2 DEF Arrived
<1>4. ASSUME ReadingOn(u) PROVE ReadingOn(u)'
  <2>1. Covered(u)'
    BY <1>1, <1>2, <1>4 DEF ReadingOn, Covered
  <2>2. QED  BY <1>1, <1>2, <1>3, <1>4, <2>1 DEF ReadingOn
<1>5. ASSUME ReadToEnd(u) PROVE ReadToEnd(u)'
  BY <1>2, <1>3, <1>5 DEF ReadToEnd
<1>6. PagingOf(u)'
  BY <1>1, <1>2, <1>4, <1>5 DEF PagingInv, PagingOf
<1>7. ASSUME NEW v \in Users, v # u PROVE PagingOf(v)'
  <2>1. UNCHANGED <<outcome[v], offset[v], got[v], avail[v], atStart[v], pc[v]>>
    BY <1>7 DEF SessionEnds, pageVars, DataType
  <2>2. QED  BY <2>1, OthersUntouched
<1>8. QED  BY <1>6, <1>7 DEF PagingInv

(* A hollow body ends the reading where it stands.                         *)
LEMMA EmptyKeeps ==
    ASSUME DataType, pc \in [Users -> Places], PagingInv, NEW u \in Users,
           EmptyAnswer(u)
    PROVE  PagingInv'
<1>1. outcome[u] = "none" /\ ReadingOn(u)
  BY DEF EmptyAnswer, At, PagingInv, PagingOf, Fetching
<1>2. /\ outcome'[u] = "cut" /\ pc'[u] = "closing"
      /\ UNCHANGED <<offset, got, atStart, avail>>
      /\ \A v \in Users \ {u} :
            UNCHANGED <<outcome[v], offset[v], got[v], avail[v], atStart[v], pc[v]>>
  BY DEF EmptyAnswer, GoTo, apiVars, DataType
<1>3. ReadingOn(u)'
  BY <1>1, <1>2 DEF ReadingOn, Covered, InOrder, Arrived
<1>4. PagingOf(u)'
  BY <1>2, <1>3 DEF PagingInv, PagingOf, Fetching
<1>5. QED  BY <1>2, <1>4, OthersUntouched DEF PagingInv

(* A failed request ends the reading without a result.                     *)
LEMMA FailureKeeps ==
    ASSUME DataType, pc \in [Users -> Places], PagingInv, NEW u \in Users,
           RequestFails(u)
    PROVE  PagingInv'
<1>1. /\ outcome'[u] \in {"error", "auth", "other"} /\ pc'[u] = "closing"
      /\ UNCHANGED <<atStart, avail>>
      /\ \A v \in Users \ {u} :
            UNCHANGED <<outcome[v], offset[v], got[v], avail[v], atStart[v], pc[v]>>
  BY DEF RequestFails, GoTo, pageVars, apiVars, DataType
<1>2. PagingOf(u)'
  BY <1>1 DEF PagingInv, PagingOf, Fetching
<1>3. QED  BY <1>1, <1>2, OthersUntouched DEF PagingInv

-----------------------------------------------------------------------------
(* Results and counters                                                    *)

DoneUsers == {u \in Users : pc[u] = "done"}

FailedUsers == {u \in Users : pc[u] = "done" /\ outcome[u] = "error"}

Counted == processed = Cardinality(DoneUsers) /\ failed = Cardinality(FailedUsers)

Reported ==
    /\ DOMAIN results = DoneUsers
    /\ \A u \in DoneUsers :
          /\ outcome[u] \in Successes \cup {"error"}
          /\ results[u] = IF outcome[u] \in Successes THEN got[u] ELSE << >>
    /\ main = "returned" => DoneUsers = Users

DataInv == IInv /\ TypeOK /\ PagingInv /\ Counted /\ Reported

(* The sets of finished users are finite.                                  *)
LEMMA FinishedFinite ==
    /\ IsFiniteSet(DoneUsers) /\ Cardinality(DoneUsers) \in Nat
    /\ IsFiniteSet(FailedUsers) /\ Cardinality(FailedUsers) \in Nat
BY ExtractorAssumption, FS_Subset, FS_CardinalityType DEF DoneUsers, FailedUsers

(* A step that finishes no user, and leaves the finished ones as they are. *)
LEMMA NobodyFinishes ==
    ASSUME Counted, Reported,
           UNCHANGED <<results, processed, failed>>,
           main' = main \/ main' # "returned" \/ DoneUsers = Users,
           \A u \in Users : /\ pc'[u] = "done" <=> pc[u] = "done"
                            /\ pc[u] = "done" => UNCHANGED <<outcome[u], got[u]>>
    PROVE  Counted' /\ Reported'
<1>1. DoneUsers' = DoneUsers
  BY DEF DoneUsers
<1>2. FailedUsers' = FailedUsers
  BY DEF FailedUsers
<1>3. Counted'
  BY <1>1, <1>2 DEF Counted
<1>4. Reported'
  <2>1. DOMAIN results' = DoneUsers'
    BY <1>1 DEF Reported
  <2>2. ASSUME NEW u \in DoneUsers
        PROVE  /\ outcome'[u] \in Successes \cup {"error"}
               /\ results'[u] = IF outcome'[u] \in Successes THEN got'[u] ELSE << >>
    BY <2>2 DEF Reported, DoneUsers
  <2>3. main' = "returned" => DoneUsers = Users
    BY DEF Reported
  <2>4. QED  BY <1>1, <2>1, <2>2, <2>3 DEF Reported
<1>5. QED  BY <1>3, <1>4

(* A user finishes: one entry more, and one user more is counted.          *)
LEMMA FinishUserKeeps ==
    ASSUME TypeOK, Counted, Reported, NEW u \in Users, FinishUser(u)
    PROVE  Counted' /\ Reported'
<1>1. /\ pc[u] = "closing" /\ outcome[u] \in Successes \cup {"error"}
      /\ pc' = [pc EXCEPT ![u] = "done"]
      /\ processed' = processed + 1
      /\ failed' = IF outcome[u] = "error" THEN failed + 1 ELSE failed
      /\ UNCHANGED <<main, outcome, got>>
  BY DEF FinishUser, At, GoTo, pageVars
<1>2. DoneUsers' = DoneUsers \cup {u} /\ u \notin DoneUsers
  BY <1>1 DEF TypeOK, DoneUsers
<1>3. Cardinality(DoneUsers') = Cardinality(DoneUsers) + 1
  BY <1>2, FinishedFinite, FS_AddElement
<1>4. failed' = Cardinality(FailedUsers')
  <2>1. CASE outcome[u] = "error"
    <3>1. FailedUsers' = FailedUsers \cup {u} /\ u \notin FailedUsers
      BY <1>1, <2>1 DEF TypeOK, FailedUsers
    <3>2. Cardinality(FailedUsers') = Cardinality(FailedUsers) + 1
      BY <3>1, FinishedFinite, FS_AddElement
    <3>3. QED  BY <1>1, <2>1, <3>2 DEF Counted
  <2>2. CASE outcome[u] # "error"
    <3>1. FailedUsers' = FailedUsers
      BY <1>1, <2>2 DEF TypeOK, FailedUsers
    <3>2. QED  BY <1>1, <2>2, <3>1 DEF Counted
  <2>3. QED  BY <2>1, <2>2
<1>5. Counted'
  BY <1>1, <1>3, <1>4 DEF Counted
<1>6. results' = [x \in DoneUsers \cup {u} |->
                    IF x = u THEN IF outcome[u] \in Successes THEN got[u] ELSE << >>
                    ELSE results[x]]
  BY DEF FinishUser, Report, Reported
<1>7. ASSUME NEW x \in DoneUsers'
      PROVE  /\ outcome'[x] \in Successes \cup {"error"}
             /\ results'[x] = IF outcome'[x] \in Successes THEN got'[x] ELSE << >>
  BY <1>1, <1>2, <1>6, <1>7 DEF Reported
<1>8. main' = "returned" => DoneUsers' = Users
  BY <1>1, <1>2 DEF Reported, DoneUsers
<1>9. Reported'
  BY <1>2, <1>6, <1>7, <1>8 DEF Reported
<1>10. QED  BY <1>5, <1>9

-----------------------------------------------------------------------------
(* Every step keeps the invariant on the data                              *)

(* The parts of the invariant in their first state.                        *)
LEMMA InitData == ASSUME Init PROVE TypeOK /\ PagingInv /\ Counted /\ Reported
<1>1. TypeOK
  <2>1. DOMAIN results = {} /\ processed = 0 /\ failed = 0
    BY DEF Init
  <2>2. /\ got \in [Users -> Seq(Int)]
        /\ offset \in [Users -> Nat] /\ attempt \in [Users -> 0 .. MaxRetries]
    BY ExtractorAssumption DEF Init
  <2>3. /\ limit \in Limits /\ permits \in 0 .. limit
        /\ rateLock \in Users \cup {NoUser}
        /\ wait \in [Users -> 0 .. RateTicks] /\ age \in 0 .. RateTicks
    BY ExtractorAssumption DEF Init
  <2>4. avail \in [Users -> Nat] /\ atStart \in [Users -> Nat]
    BY ExtractorAssumption DEF Init
  <2>5. QED  BY <2>1, <2>2, <2>3, <2>4 DEF Init, TypeOK, Finished
<1>2. PagingInv
  <2> SUFFICES ASSUME NEW u \in Users PROVE PagingOf(u)
    BY DEF PagingInv
  <2>1. /\ pc[u] = "permit" /\ outcome[u] = "none" /\ offset[u] = 0
        /\ got[u] = << >> /\ atStart[u] = avail[u] /\ avail[u] \in Nat
    BY ExtractorAssumption DEF Init
  <2>2. DOMAIN got[u] = {} /\ Len(got[u]) = 0
    BY <2>1
  <2>3. ReadingOn(u)
    BY <2>1, <2>2, ExtractorAssumption DEF ReadingOn, Covered, InOrder
  <2>4. QED  BY <2>1, <2>3 DEF PagingOf
<1>3. DoneUsers = {} /\ FailedUsers = {}
  BY DEF Init, DoneUsers, FailedUsers
<1>4. Counted
  BY <1>3, FS_EmptySet DEF Init, Counted
<1>5. Reported
  <2>1. DOMAIN results = {}
    BY DEF Init
  <2>2. QED  BY <1>3, <2>1 DEF Init, Reported
<1>6. QED  BY <1>1, <1>2, <1>4, <1>5

(* The types of the variables are kept.                                    *)
LEMMA TypeKept == ASSUME IInv, IInv', TypeOK, PagingInv, [Next]_vars PROVE TypeOK'
<1> USE ExtractorAssumption
<1>p. ASSUME NEW k \in Nat, permits' = k PROVE permits' \in 0 .. limit'
  <2>1. Cardinality(InProgress') \in Nat
    <3>1. IsFiniteSet(InProgress')
      BY FS_Subset DEF InProgress
    <3>2. QED  BY <3>1, FS_CardinalityType
  <2>2. permits' + Cardinality(InProgress') = limit' /\ limit' \in Nat
    BY DEF IInv, PermitsConserved, ControlType
  <2>3. QED  BY <1>p, <2>1, <2>2
<1>s. permits \in Nat /\ limit \in Nat
  BY DEF TypeOK, IInv, ControlType
<1>d. DataType /\ pc \in [Users -> Places]
  BY DEF TypeOK, DataType, Places
<1>1. ASSUME NEW u \in Users, TaskStep(u) PROVE TypeOK'
  <2>1. CASE AcquirePermit(u)
    <3>1. permits' \in Nat
      BY <1>s, <2>1 DEF AcquirePermit
    <3>2. permits' \in 0 .. limit'
      BY <1>p, <3>1
    <3>3. QED
      BY <2>1, <3>2 DEF AcquirePermit, GoTo, TypeOK, batchVars, pageVars, rateVars
  <2>2. CASE AcquireRateLock(u)
    <3>1. age \in 0 .. RateTicks
      BY DEF TypeOK
    <3>2. RateTicks - age \in 0 .. RateTicks
      BY <3>1
    <3>3. wait' \in [Users -> 0 .. RateTicks]
      BY <2>2, <3>2 DEF AcquireRateLock, TypeOK
    <3>4. QED
      BY <2>2, <3>3 DEF AcquireRateLock, GoTo, TypeOK, batchVars, pageVars, apiVars
  <2>3. CASE SendRequest(u)
    BY <2>3 DEF SendRequest, GoTo, TypeOK, batchVars, pageVars, apiVars
  <2>4. CASE PageArrives(u)
    <3>1. got' \in [Users -> Seq(Int)]
      BY <1>d, <2>4, PageArrivesKeeps
    <3>2. offset' \in [Users -> Nat] /\ attempt' \in [Users -> 0 .. MaxRetries]
      <4>1. offset[u] + BatchSize \in Nat /\ 0 \in 0 .. MaxRetries
        BY <1>d DEF DataType
      <4>2. QED  BY <2>4, <4>1 DEF PageArrives, TypeOK
    <3>3. /\ \E o \in {"none", "ok", "cut", "error", "auth", "other"} :
                outcome' = [outcome EXCEPT ![u] = o]
          /\ \E p \in {"closing", "lock"} : pc' = [pc EXCEPT ![u] = p]
      <4>1. outcome[u] \in {"none", "ok", "cut", "error", "auth", "other"}
        BY DEF TypeOK
      <4>2. QED  BY <2>4, <4>1 DEF PageArrives, GoTo
    <3>4. /\ outcome' \in [Users -> {"none", "ok", "cut", "error", "auth", "other"}]
          /\ pc' \in [Users -> {"permit", "lock", "sleep", "request", "backoff",
                               "closing"} \cup Finished]
      BY <3>3 DEF TypeOK
    <3>5. UNCHANGED <<batchVars, permits, rateVars, apiVars>>
      BY <2>4 DEF PageArrives
    <3>6. QED
      BY <3>1, <3>2, <3>4, <3>5 DEF TypeOK, batchVars, rateVars, apiVars
  <2>5. CASE RetryLater(u)
    <3>1. attempt' \in [Users -> 0 .. MaxRetries]
      <4>1. attempt[u] \in 0 .. MaxRetries /\ attempt[u] < MaxRetries
        BY <1>d, <2>5 DEF RetryLater, DataType
      <4>2. attempt[u] + 1 \in 0 .. MaxRetries
        BY <4>1
      <4>3. QED  BY <1>d, <2>5, <4>2 DEF RetryLater, DataType
    <3>2. QED
      BY <2>5, <3>1 DEF RetryLater, GoTo, TypeOK, batchVars, rateVars, apiVars
  <2>6. CASE BackoffEnds(u)
    BY <2>6 DEF BackoffEnds, GoTo, TypeOK, batchVars, pageVars, rateVars, apiVars
  <2>7. CASE RequestFails(u)
    BY <2>7 DEF RequestFails, GoTo, TypeOK, batchVars, pageVars, rateVars, apiVars
  <2>8. CASE FinishUser(u)
    <3>1. permits' \in 0 .. limit'
      BY <1>p, <1>s, <2>8 DEF FinishUser
    <3>2. DOMAIN results' \subseteq Users
          /\ \A x \in DOMAIN results' : results'[x] \in Seq(Int)
      <4>1. << >> \in Seq(Int) /\ got[u] \in Seq(Int)
        BY DEF TypeOK
      <4>2. QED  BY <2>8, <4>1 DEF FinishUser, Report, TypeOK
    <3>3. processed' \in Nat /\ failed' \in Nat
      BY <2>8 DEF FinishUser, TypeOK
    <3>4. pc' \in [Users -> {"permit", "lock", "sleep", "request", "backoff",
                            "closing"} \cup Finished]
      BY <2>8 DEF FinishUser, GoTo, TypeOK, Finished
    <3>5. UNCHANGED <<main, firstExc, outcome, pageVars, rateVars, apiVars>>
      BY <2>8 DEF FinishUser
    <3>6. QED
      BY <3>1, <3>2, <3>3, <3>4, <3>5 DEF TypeOK, pageVars, rateVars, apiVars
  <2>9. CASE RaiseFromTask(u)
    <3>1. permits' \in 0 .. limit'
      BY <1>p, <1>s, <2>9 DEF RaiseFromTask
    <3>2. QED
      BY <2>9, <3>1 DEF RaiseFromTask, GoTo, TypeOK, Finished, pageVars,
                        rateVars, apiVars
  <2>10. CASE TaskCancelled(u)
    <3>1. permits' \in 0 .. limit'
      BY <1>p, <1>s, <2>10 DEF TaskCancelled
    <3>2. QED
      BY <2>10, <3>1 DEF TaskCancelled, GoTo, TypeOK, Finished, batchVars,
                         pageVars, apiVars
  <2>11. CASE EmptyAnswer(u)
    <3>1. attempt' \in [Users -> 0 .. MaxRetries]
      <4>1. 0 \in 0 .. MaxRetries
        OBVIOUS
      <4>2. QED  BY <1>d, <2>11, <4>1 DEF EmptyAnswer, DataType
    <3>2. UNCHANGED <<batchVars, permits, offset, got, rateVars, apiVars>>
      BY <2>11 DEF EmptyAnswer
    <3>3. /\ outcome' = [outcome EXCEPT ![u] = "cut"]
          /\ pc' = [pc EXCEPT ![u] = "closing"]
      BY <2>11 DEF EmptyAnswer, GoTo
    <3>4. QED
      BY <3>1, <3>2, <3>3 DEF TypeOK, batchVars, rateVars, apiVars
  <2>12. QED
    BY <1>1, <2>1, <2>2, <2>3, <2>4, <2>5, <2>6, <2>7, <2>8, <2>9, <2>10,
       <2>11
       DEF TaskStep
<1>2. CASE BatchStep
  BY <1>2 DEF BatchStep, BatchReturns, CancelAll, RaiseAuth, RaiseOther, TypeOK,
              pageVars, rateVars, apiVars
<1>3. CASE Tick
  <2>1. age' \in 0 .. RateTicks
    BY <1>3 DEF Tick, TypeOK
  <2>2. wait' \in [Users -> 0 .. RateTicks]
    <3>1. \A u \in Users : (IF wait[u] > 0 THEN wait[u] - 1 ELSE 0) \in 0 .. RateTicks
      BY DEF TypeOK
    <3>2. QED  BY <1>3, <3>1 DEF Tick
  <2>3. UNCHANGED <<batchVars, pc, permits, outcome, pageVars, rateLock, apiVars>>
    BY <1>3 DEF Tick
  <2>4. QED
    BY <2>1, <2>2, <2>3 DEF TypeOK, batchVars, pageVars, apiVars
<1>4. ASSUME NEW u \in Users, SessionEnds(u) PROVE TypeOK'
  <2>1. avail' \in [Users -> Nat]
    <3>1. avail[u] + 1 \in Nat
      BY <1>d, <1>4 DEF DataType
    <3>2. QED  BY <1>4, <3>1 DEF SessionEnds, TypeOK
  <2>2. QED
    BY <1>4, <2>1 DEF SessionEnds, TypeOK, batchVars, pageVars, rateVars
<1>5. CASE UNCHANGED vars
  BY <1>5 DEF vars, TypeOK, batchVars, pageVars, rateVars, apiVars
<1>6. QED
  BY <1>1, <1>2, <1>3, <1>4, <1>5 DEF Next

(* The pages read, the results and the counters are kept.                  *)
LEMMA ContentsKept ==
    ASSUME TypeOK, PagingInv, Counted, Reported, [Next]_vars
    PROVE  PagingInv' /\ Counted' /\ Reported'
<1>d. DataType /\ pc \in [Users -> Places]
  BY DEF TypeOK, DataType, Places
<1>1. ASSUME NEW u \in Users, NEW p \in {"lock", "sleep", "request", "backoff"},
             pc[u] \in Fetching \ {"permit"}, GoTo(u, p),
             UNCHANGED <<batchVars, outcome, offset, got, avail, atStart>>
      PROVE  PagingInv' /\ Counted' /\ Reported'
  <2>1. /\ pc' = [pc EXCEPT ![u] = p] /\ pc'[u] = p
        /\ \A v \in Users : v # u => pc'[v] = pc[v]
    BY <1>d, <1>1 DEF GoTo
  <2>2. PagingInv'
    BY <1>1, <2>1, PagesUntouched DEF Fetching
  <2>3. Counted' /\ Reported'
    BY <1>1, <2>1, NobodyFinishes DEF Fetching, batchVars
  <2>4. QED  BY <2>2, <2>3
<1>2. ASSUME NEW u \in Users,
             \/ AcquireRateLock(u) \/ SendRequest(u) \/ RetryLater(u)
             \/ BackoffEnds(u)
      PROVE  PagingInv' /\ Counted' /\ Reported'
  BY <1>1, <1>2 DEF AcquireRateLock, SendRequest, RetryLater, BackoffEnds, At,
                    Fetching, pageVars, apiVars
<1>3. ASSUME NEW u \in Users,
             AcquirePermit(u) \/ PageArrives(u) \/ EmptyAnswer(u) \/ RequestFails(u)
      PROVE  PagingInv' /\ Counted' /\ Reported'
  <2>1. PagingInv'
    BY <1>d, <1>3, PermitKeeps, PageArrivesKeeps, EmptyKeeps, FailureKeeps
  <2>2. /\ pc[u] # "done" /\ pc'[u] # "done"
        /\ UNCHANGED batchVars
        /\ \A v \in Users : v # u => UNCHANGED <<pc[v], outcome[v], got[v]>>
    BY <1>d, <1>3 DEF AcquirePermit, PageArrives, EmptyAnswer, RequestFails, At, GoTo, pageVars,
                      DataType
  <2>3. Counted' /\ Reported'
    BY <2>2, NobodyFinishes DEF batchVars
  <2>4. QED  BY <2>1, <2>3
<1>4. ASSUME NEW u \in Users, FinishUser(u)
      PROVE  PagingInv' /\ Counted' /\ Reported'
  <2>1. PagingInv'
    BY <1>d, <1>4, PagesUntouched DEF FinishUser, At, GoTo, Fetching, pageVars, apiVars
  <2>2. QED  BY <1>4, <2>1, FinishUserKeeps
<1>5. ASSUME NEW u \in Users, RaiseFromTask(u) \/ TaskCancelled(u)
      PROVE  PagingInv' /\ Counted' /\ Reported'
  <2>1. /\ pc[u] # "done" /\ pc'[u] \in {"raised", "cancelled"}
        /\ \A v \in Users : v # u => pc'[v] = pc[v]
        /\ UNCHANGED <<outcome, offset, got, avail, atStart>>
        /\ UNCHANGED <<main, results, processed, failed>>
    BY <1>d, <1>5 DEF RaiseFromTask, TaskCancelled, At, GoTo, Running, Finished,
                      batchVars, pageVars, apiVars
  <2>2. PagingInv'
    BY <2>1, PagesUntouched DEF Fetching
  <2>3. Counted' /\ Reported'
    BY <2>1, NobodyFinishes
  <2>4. QED  BY <2>2, <2>3
<1>6. CASE BatchStep \/ Tick \/ UNCHANGED vars
  <2>1. /\ UNCHANGED <<pc, outcome, offset, got, avail, atStart>>
        /\ UNCHANGED <<results, processed, failed>>
    BY <1>6 DEF BatchStep, BatchReturns, CancelAll, RaiseAuth, RaiseOther, Tick,
                vars, batchVars, pageVars, apiVars
  <2>2. main' = main \/ main' # "returned" \/ DoneUsers = Users
    BY <1>6 DEF BatchStep, BatchReturns, CancelAll, RaiseAuth, RaiseOther, Tick,
                vars, batchVars, DoneUsers
  <2>3. PagingInv'
    BY <2>1, PagesUntouched
  <2>4. Counted' /\ Reported'
    BY <2>1, <2>2, NobodyFinishes
  <2>5. QED  BY <2>3, <2>4
<1>7. ASSUME NEW u \in Users, SessionEnds(u)
      PROVE  PagingInv' /\ Counted' /\ Reported'
  <2>1. PagingInv'
    BY <1>d, <1>7, SessionKeeps
  <2>2. Counted' /\ Reported'
    BY <1>7, NobodyFinishes DEF SessionEnds, batchVars, pageVars
  <2>3. QED  BY <2>1, <2>2
<1>8. QED
  BY <1>2, <1>3, <1>4, <1>5, <1>6, <1>7 DEF Next, TaskStep

(* Types, pages, results and counters, in every state.                     *)
THEOREM DataInvariant == Spec => []DataInv
<1>1. Init => DataInv
  BY InitInv, InitData DEF DataInv
<1>2. DataInv /\ [Next]_vars => DataInv'
  <2> SUFFICES ASSUME DataInv, [Next]_vars PROVE DataInv'
    OBVIOUS
  <2>1. IInv'
    BY TaskKeeps, OthersKeep DEF Next, DataInv
  <2>2. TypeOK'
    BY <2>1, TypeKept DEF DataInv
  <2>3. PagingInv' /\ Counted' /\ Reported'
    BY ContentsKept DEF DataInv
  <2>4. QED  BY <2>1, <2>2, <2>3 DEF DataInv
<1>3. QED  BY <1>1, <1>2, PTL DEF Spec

(* The type invariant.                                                     *)
THEOREM TypeCorrect == Spec => []TypeOK
<1>1. DataInv => TypeOK
  BY DEF DataInv
<1>2. QED  BY <1>1, DataInvariant, PTL

(* R2.3: an extraction that reads to the end, below the limit, has every   *)
(* session the user had when it began, whatever sessions arrive between the*)
(* pages; one that a hollow body cuts short has those of its pages.        *)
THEOREM NothingIsSkipped == Spec => []NothingSkipped
<1>1. DataInv => NothingSkipped
  BY DEF DataInv, PagingInv, PagingOf, ReadToEnd, ReadingOn, Covered,
         NothingSkipped
<1>2. QED  BY <1>1, DataInvariant, PTL

(* R2.3: without arrivals the result is the user's newest sessions, in     *)
(* order, each once, up to the limit or to where a hollow body cut it.     *)
THEOREM ExactResult == Spec => []ExactWhenQuiet
<1>1. DataInv => ExactWhenQuiet
  BY DEF DataInv, PagingInv, PagingOf, ReadToEnd, ReadingOn, InOrder, Successes,
         ExactWhenQuiet
<1>2. QED  BY <1>1, DataInvariant, PTL

(* What extract_batch() returns accounts for every user once, and its two  *)
(* counters agree with the tasks.                                          *)
THEOREM BatchAccounts == Spec => []BatchAccounting
<1>1. DataInv => BatchAccounting
  <2> SUFFICES ASSUME DataInv PROVE BatchAccounting
    OBVIOUS
  <2>1. processed = Cardinality({u \in Users : pc[u] = "done"})
    BY DEF DataInv, Counted, DoneUsers
  <2>2. failed = Cardinality({u \in Users : pc[u] = "done" /\ outcome[u] = "error"})
    BY DEF DataInv, Counted, FailedUsers
  <2>3. main = "returned" =>
          /\ DOMAIN results = Users
          /\ \A u \in Users : results[u] = IF outcome[u] \in Successes
                                           THEN got[u] ELSE << >>
    BY DEF DataInv, Reported
  <2>4. QED  BY <2>1, <2>2, <2>3 DEF BatchAccounting
<1>2. QED  BY <1>1, DataInvariant, PTL
=============================================================================
