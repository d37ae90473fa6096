--------------------------- MODULE Training_proofs ---------------------------
(***************************************************************************)
(* Theorems about Training for every set of datasets.                      *)
(***************************************************************************)
EXTENDS Training, TLAPS

-----------------------------------------------------------------------------
(* The split: what rounding does to a class.                               *)

(* A cut gives each class its share of n, up to a half, in two parts.      *)
LEMMA CutShares ==
  ASSUME NEW d \in Counts, NEW n \in Nat, NEW c \in Cuts(d, n)
  PROVE  /\ c \in Counts
         /\ c.pos <= d.pos /\ c.neg <= d.neg
         /\ c.pos + c.neg = n
         /\ Stratifiable(d, n)
         /\ 2 * (c.pos * (d.pos + d.neg)) <= 2 * (n * d.pos) + (d.pos + d.neg)
         /\ 2 * (n * d.pos) <= 2 * (c.pos * (d.pos + d.neg)) + (d.pos + d.neg)
<1> DEFINE a == c.pos * (d.pos + d.neg)
           b == n * d.pos
<1>1. /\ c \in [pos : 0 .. d.pos, neg : 0 .. d.neg]
      /\ Stratifiable(d, n)
      /\ c.pos + c.neg = n
      /\ 2 * Distance(a, b) <= d.pos + d.neg
  BY DEF Cuts, Size
<1>2. /\ c \in Counts /\ c.pos <= d.pos /\ c.neg <= d.neg
  BY <1>1 DEF Counts
<1>3. d.pos \in Nat /\ d.neg \in Nat /\ c.pos \in Nat
  BY <1>2 DEF Counts
<1>4. a \in Int /\ b \in Int
  BY <1>3
<1> HIDE DEF a, b
<1>5. 2 * a <= 2 * b + (d.pos + d.neg) /\ 2 * b <= 2 * a + (d.pos + d.neg)
  BY <1>1, <1>3, <1>4 DEF Distance
<1>6. QED
  BY <1>1, <1>2, <1>5 DEF a, b

(* A class of two or more keeps a member in the part of at least a half of *)
(* the records, up to one record.                                          *)
LEMMA ShareIsPositive ==
  ASSUME NEW N \in Nat, NEW n \in Nat, NEW p \in Nat, NEW k \in Nat,
         p >= 2, N >= 3, 2 * n >= N - 1,
         2 * (n * p) <= 2 * (k * N) + N
  PROVE  k >= 1
<1> SUFFICES ASSUME k = 0 PROVE FALSE
  OBVIOUS
<1>1. k * N = 0
  OBVIOUS
<1>2. n * p \in Nat /\ 2 * (n * p) <= N
  BY <1>1
<1>3. n * p >= n * 2
  OBVIOUS
<1>4. 4 * n <= N
  BY <1>2, <1>3
<1>5. QED
  BY <1>4

(* And one in the other part, if that has three tenths of the records.     *)
LEMMA RestIsPositive ==
  ASSUME NEW N \in Nat, NEW n \in Nat, NEW p \in Nat, NEW k \in Nat,
         p >= 2, N >= 1, n <= N, 10 * n <= 7 * N, k <= p,
         2 * (k * N) <= 2 * (n * p) + N
  PROVE  p - k >= 1
<1> SUFFICES ASSUME k = p PROVE FALSE
  OBVIOUS
<1> DEFINE r == N - n
<1>1. r \in Nat /\ 10 * r >= 3 * N
  OBVIOUS
<1>2. N = n + r
  OBVIOUS
<1> HIDE DEF r
<1>3. p * N = p * n + p * r
  BY <1>1, <1>2
<1>4. p * n = n * p
  OBVIOUS
<1>5. p * r >= 2 * r
  BY <1>1
<1>6. 2 * (p * r) <= N
  BY <1>1, <1>3, <1>4
<1>7. QED
  BY <1>1, <1>5, <1>6

(* So a cut of two classes leaves both classes in both parts.              *)
LEMMA CutKeepsBoth ==
  ASSUME NEW d \in Counts, NEW n \in Nat, NEW c \in Cuts(d, n),
         d.pos > 0, d.neg > 0,
         2 * n >= Size(d) - 1, 10 * n <= 7 * Size(d)
  PROVE  /\ c \in Counts /\ Rest(d, c) \in Counts
         /\ c.pos > 0 /\ c.neg > 0
         /\ Rest(d, c).pos > 0 /\ Rest(d, c).neg > 0
<1> DEFINE N == d.pos + d.neg
<1>1. /\ d.pos \in Nat /\ d.neg \in Nat /\ N \in Nat
      /\ 2 * n >= N - 1 /\ 10 * n <= 7 * N
  BY DEF Counts, Size
<1>2. /\ c \in Counts
      /\ c.pos <= d.pos /\ c.neg <= d.neg
      /\ c.pos + c.neg = n
      /\ Stratifiable(d, n)
      /\ 2 * (c.pos * N) <= 2 * (n * d.pos) + N
      /\ 2 * (n * d.pos) <= 2 * (c.pos * N) + N
  BY CutShares
<1>3. d.pos >= 2 /\ d.neg >= 2 /\ N >= 4
  BY <1>1, <1>2 DEF Stratifiable
<1>4. c.pos \in Nat /\ c.neg \in Nat /\ n <= N
  BY <1>1, <1>2 DEF Counts
<1>5. c.pos >= 1 /\ d.pos - c.pos >= 1
  <2> HIDE DEF N
  <2> QED
    BY <1>1, <1>2, <1>3, <1>4, ShareIsPositive, RestIsPositive
(* What the active users get is what the churned users do not.             *)
<1>6. c.neg * N - n * d.neg = n * d.pos - c.pos * N
  <2>1. c.neg * N = n * N - c.pos * N
    BY <1>1, <1>2, <1>4
  <2>2. n * d.neg = n * N - n * d.pos
    BY <1>1
  <2> HIDE DEF N
  <2>3. n * N \in Int /\ c.pos * N \in Int /\ n * d.pos \in Int
    BY <1>1, <1>4
  <2>4. QED
    BY <2>1, <2>2, <2>3
<1>7. /\ 2 * (c.neg * N) <= 2 * (n * d.neg) + N
      /\ 2 * (n * d.neg) <= 2 * (c.neg * N) + N
  <2> HIDE DEF N
  <2>1. /\ n * d.pos \in Int /\ c.pos * N \in Int
        /\ n * d.neg \in Int /\ c.neg * N \in Int
    BY <1>1, <1>4
  <2>2. QED
    BY <1>1, <1>2, <1>6, <2>1
<1>8. c.neg >= 1 /\ d.neg - c.neg >= 1
  <2> HIDE DEF N
  <2> QED
    BY <1>1, <1>2, <1>3, <1>4, <1>7, ShareIsPositive, RestIsPositive
<1>9. QED
  BY <1>1, <1>2, <1>4, <1>5, <1>8 DEF Rest, Counts

(* Both cuts together: a split of two classes has both in every part.      *)
LEMMA SplitKeepsBoth ==
  ASSUME NEW d \in Counts, NEW s \in Splits(d), d.pos > 0, d.neg > 0
  PROVE  \A part \in {"train", "validation", "test"} :
           s[part].pos > 0 /\ s[part].neg > 0
<1>1. PICK t \in TrainCuts(d) : \E v \in ValidationCuts(Rest(d, t)) :
        s = [train |-> t, validation |-> v, test |-> Rest(Rest(d, t), v)]
  BY DEF Splits
<1>2. PICK v \in ValidationCuts(Rest(d, t)) :
        s = [train |-> t, validation |-> v, test |-> Rest(Rest(d, t), v)]
  BY <1>1
<1> DEFINE r == Rest(d, t)
<1>3. /\ t.pos > 0 /\ t.neg > 0
      /\ r \in Counts /\ r.pos > 0 /\ r.neg > 0
  <2> DEFINE n == (7 * Size(d)) \div 10
  <2>1. Size(d) \in Nat /\ Size(d) >= 2
    BY DEF Size, Counts
  <2>2. /\ n \in Nat
        /\ 2 * n >= Size(d) - 1 /\ 10 * n <= 7 * Size(d)
    BY <2>1
  <2>3. t \in Cuts(d, n)
    BY DEF TrainCuts
  <2> HIDE DEF n
  <2>4. QED
    BY <2>2, <2>3, CutKeepsBoth
<1> HIDE DEF r
<1>4. /\ v.pos > 0 /\ v.neg > 0
      /\ Rest(r, v).pos > 0 /\ Rest(r, v).neg > 0
  <2> DEFINE n == Size(r) \div 2
  <2>1. Size(r) \in Nat
    BY <1>3 DEF Size, Counts
  <2>2. /\ n \in Nat
        /\ 2 * n >= Size(r) - 1 /\ 10 * n <= 7 * Size(r)
    BY <2>1
  <2>3. v \in Cuts(r, n)
    BY DEF ValidationCuts, r
  <2> HIDE DEF n
  <2>4. QED
    BY <1>3, <2>2, <2>3, CutKeepsBoth
<1>5. QED
  BY <1>2, <1>3, <1>4 DEF r

(* A split is made of counts, whatever the dataset.                        *)
LEMMA SplitType ==
  ASSUME NEW d \in Counts, NEW s \in Splits(d)
  PROVE  s \in [train : Counts, validation : Counts, test : Counts]
<1>1. \A e \in Counts, n \in Nat : \A c \in Cuts(e, n) :
        c \in Counts /\ Rest(e, c) \in Counts
  <2> TAKE e \in Counts, n \in Nat
  <2> TAKE c \in Cuts(e, n)
  <2>1. c \in Counts /\ c.pos <= e.pos /\ c.neg <= e.neg
    BY CutShares
  <2>2. QED
    BY <2>1 DEF Rest, Counts
<1>2. \A e \in Counts : Size(e) \in Nat
  BY DEF Size, Counts
<1>3. \A e \in Counts : (7 * Size(e)) \div 10 \in Nat /\ Size(e) \div 2 \in Nat
  <2> TAKE e \in Counts
  <2> DEFINE z == Size(e)
  <2>1. z \in Nat
    BY <1>2
  <2> HIDE DEF z
  <2>2. (7 * z) \div 10 \in Nat /\ z \div 2 \in Nat
    BY <2>1
  <2>3. QED
    BY <2>2 DEF z
<1>4. PICK t \in TrainCuts(d) : \E v \in ValidationCuts(Rest(d, t)) :
        s = [train |-> t, validation |-> v, test |-> Rest(Rest(d, t), v)]
  BY DEF Splits
<1>5. t \in Counts /\ Rest(d, t) \in Counts
  BY <1>1, <1>3 DEF TrainCuts
<1>6. QED
  BY <1>1, <1>3, <1>4, <1>5 DEF ValidationCuts

-----------------------------------------------------------------------------
(* The inductive invariant: what is there when train() stands at a step.   *)

Data == {"train", "validation", "test"}

BeforeJob == {"load", "createJob"} \cup Data

BeforeTrial == BeforeJob \cup {"pollJob", "features", "createTrial"}

BeforeScore == BeforeTrial \cup {"pollTrial", "score"}

Tail == {"metrics", "hyperparameters", "returned"}

SplitInv ==
  /\ pc = "load" => split = NoSplit
  /\ split # NoSplit => split \in Splits(data)

JobInv ==
  /\ pc \in BeforeJob => job = "none"
  /\ pc \in {"validation", "test", "createJob"} => "train" \in objects
  /\ pc \in {"test", "createJob"} => "validation" \in objects
  /\ pc = "createJob" => "test" \in objects
  /\ job # "none" => Data \subseteq objects
  /\ job = "Completed" => "model" \in objects
  /\ pc \in {"features", "createTrial", "pollTrial", "score", "register"}
              \cup Tail => job = "Completed"

TrialInv ==
  /\ pc \in BeforeTrial => trial = "none"
  /\ pc = "createTrial" \/ trial # "none" => "features" \in objects
  /\ trial = "Completed" =>
       "output" \in objects
  /\ pc \in {"score", "register"} \cup Tail => trial = "Completed"

PackageInv ==
  /\ pc = "register" \/ registered =>
       /\ job = "Completed" /\ trial = "Completed"
       /\ Size(scored) = lines /\ lines > 0
       /\ scored.pos <= split.test.pos /\ scored.neg <= split.test.neg
  /\ pc \in BeforeScore => ~registered
  /\ pc \in Tail => registered
  /\ "metrics" \in objects => registered
  /\ pc \in {"hyperparameters", "returned"} => "metrics" \in objects
  /\ pc = "returned" => "hyperparameters" \in objects

IInv == TypeOK /\ SplitInv /\ JobInv /\ TrialInv /\ PackageInv

(* The invariant holds before train() is called.                           *)
THEOREM InitIInv == Init => IInv
<1> SUFFICES ASSUME Init PROVE IInv
  OBVIOUS
<1>1. TypeOK
  BY TrainingAssumption
  DEF Init, TypeOK, Counts, Pcs, JobStatus, NoSplit, Nothing
<1>2. SplitInv /\ JobInv /\ TrialInv /\ PackageInv
  BY DEF Init, SplitInv, JobInv, TrialInv, PackageInv, Data, BeforeJob,
         BeforeTrial, BeforeScore, Tail
<1>3. QED
  BY <1>1, <1>2 DEF IInv

(* Every step keeps the variables in their types and the split a split.    *)
LEMMA StepType ==
  ASSUME TypeOK, SplitInv, Next
  PROVE  TypeOK' /\ SplitInv'
<1> USE DEF TypeOK, SplitInv
<1>1. CASE LoadAndSplit
  <2>1. split' \in Splits(data) /\ data' = data /\ pc' = "train"
    BY <1>1 DEF LoadAndSplit
  <2>2. split' \in [train : Counts, validation : Counts, test : Counts]
    BY <2>1, SplitType
  <2>3. QED
    BY <1>1, <2>1, <2>2 DEF LoadAndSplit, Pcs, Uploads
<1>2. CASE SplitRaises \/ Fails
  BY <1>2 DEF SplitRaises, Fails, held, Pcs, Ended
<1>3. CASE Upload
  <2>1. After(pc) \in Pcs /\ After(pc) # "load"
    BY <1>3 DEF Upload, After, Pcs, Uploads, Ended
  <2>2. QED
    BY <1>3, <2>1 DEF Upload, held
<1>4. CASE CreateJob \/ PollJob \/ CreateTrial \/ PollTrial \/ Register
  <2>1. CASE CreateJob
    BY <2>1 DEF CreateJob, held, Pcs, JobStatus
  <2>2. CASE PollJob
    BY <2>2 DEF PollJob, held, Pcs, Uploads, Ended
  <2>3. CASE CreateTrial
    BY <2>3 DEF CreateTrial, held, Pcs, JobStatus
  <2>4. CASE PollTrial
    BY <2>4 DEF PollTrial, held, Pcs, Ended
  <2>5. CASE Register
    BY <2>5 DEF Register, held, Pcs, Uploads
  <2>6. QED
    BY <1>4, <2>1, <2>2, <2>3, <2>4, <2>5
<1>5. CASE Score
  <2>1. scored' \in Counts
    <3>1. split.test \in Counts
      OBVIOUS
    <3>2. scored' = scored
            \/ scored' \in [pos : 0 .. split.test.pos, neg : 0 .. split.test.neg]
      BY <1>5 DEF Score
    <3>3. QED
      BY <3>1, <3>2 DEF Counts
  <2>2. QED
    BY <1>5, <2>1 DEF Score, held, Pcs, Ended
<1>6. CASE JobEnds
  BY <1>6 DEF JobEnds, held, JobStatus
<1>7. CASE TrialEnds
  <2>1. lines' \in Nat
    <3>1. Size(split.test) \in Nat
      BY DEF Size, Counts
    <3>2. QED
      BY <1>7, <3>1 DEF TrialEnds
  <2>2. QED
    BY <1>7, <2>1 DEF TrialEnds, held, JobStatus
<1>8. QED
  BY <1>1, <1>2, <1>3, <1>4, <1>5, <1>6, <1>7 DEF Next, Train

(* What each step knows of the jobs and of what is in S3.                  *)
LEMMA StepJobs ==
  ASSUME TypeOK, JobInv, TrialInv, Next
  PROVE  JobInv' /\ TrialInv'
<1> USE DEF JobInv, TrialInv, Data, BeforeJob, BeforeTrial, Tail, held
<1>1. CASE LoadAndSplit \/ SplitRaises \/ Fails
  BY <1>1 DEF LoadAndSplit, SplitRaises, Fails
<1>2. CASE Upload
  <2>1. /\ pc \in Uploads /\ pc' = After(pc)
        /\ objects' = objects \cup {pc}
        /\ job' = job /\ trial' = trial
    BY <1>2 DEF Upload
  <2>2. pc = "train" => pc' = "validation"
    BY <2>1 DEF After
  <2>3. pc = "validation" => pc' = "test"
    BY <2>1 DEF After
  <2>4. pc = "test" => pc' = "createJob"
    BY <2>1 DEF After
  <2>5. pc = "features" => pc' = "createTrial"
    BY <2>1 DEF After
  <2>6. pc = "metrics" => pc' = "hyperparameters"
    BY <2>1 DEF After
  <2>7. pc = "hyperparameters" => pc' = "returned"
    BY <2>1 DEF After
  <2>8. JobInv'
    BY <2>1, <2>2, <2>3, <2>4, <2>5, <2>6, <2>7 DEF Uploads
  <2>9. TrialInv'
    BY <2>1, <2>2, <2>3, <2>4, <2>5, <2>6, <2>7 DEF Uploads
  <2>10. QED
    BY <2>8, <2>9
<1>3. CASE CreateJob \/ PollJob
  BY <1>3 DEF CreateJob, PollJob
<1>4. CASE CreateTrial \/ PollTrial
  BY <1>4 DEF CreateTrial, PollTrial
<1>5. CASE Score \/ Register
  BY <1>5 DEF Score, Register
<1>6. CASE JobEnds
  BY <1>6 DEF JobEnds
<1>7. CASE TrialEnds
  BY <1>7 DEF TrialEnds
<1>8. QED
  BY <1>1, <1>2, <1>3, <1>4, <1>5, <1>6, <1>7 DEF Next, Train

(* A package is only registered over what its call has put in place.       *)
LEMMA StepPackage ==
  ASSUME IInv, Next
  PROVE  PackageInv'
<1> USE DEF IInv, PackageInv, BeforeJob, BeforeTrial, BeforeScore, Tail, Data,
            held
<1>1. CASE LoadAndSplit \/ SplitRaises \/ Fails
  BY <1>1 DEF LoadAndSplit, SplitRaises, Fails
<1>2. CASE Upload
  <2>1. /\ pc \in Uploads /\ pc' = After(pc)
        /\ objects' = objects \cup {pc}
        /\ UNCHANGED <<held, job, trial, lines, scored, registered>>
    BY <1>2 DEF Upload
  <2>2. CASE pc = "metrics"
    <3>1. pc' = "hyperparameters"
      BY <2>1, <2>2 DEF After
    <3>2. QED
      BY <2>1, <2>2, <3>1
  <2>3. CASE pc = "hyperparameters"
    <3>1. pc' = "returned"
      BY <2>1, <2>3 DEF After
    <3>2. QED
      BY <2>1, <2>3, <3>1
  <2>4. CASE pc \in {"train", "validation", "test", "features"}
    <3>1. pc' \in {"validation", "test", "createJob", "createTrial"}
      BY <2>1, <2>4 DEF After
    <3>2. ~registered /\ ~registered' /\ "metrics" \notin objects'
      BY <2>1, <2>4
    <3>3. QED
      BY <3>1, <3>2
  <2>5. QED
    BY <2>1, <2>2, <2>3, <2>4 DEF Uploads
<1>3. CASE CreateJob \/ PollJob \/ CreateTrial \/ PollTrial
  BY <1>3 DEF CreateJob, PollJob, CreateTrial, PollTrial, JobInv, TrialInv
<1>4. CASE Score
  <2>1. /\ pc = "score" /\ ~registered /\ job = "Completed"
        /\ trial = "Completed" /\ split.test \in Counts
    BY <1>4 DEF Score, JobInv, TrialInv, TypeOK
  <2>2. pc' = "register" =>
          /\ scored' \in [pos : 0 .. split.test.pos, neg : 0 .. split.test.neg]
          /\ Size(scored') = lines /\ Size(scored') > 0
    BY <1>4 DEF Score
  <2>3. pc' = "register" =>
          scored'.pos <= split.test.pos /\ scored'.neg <= split.test.neg
    BY <2>1, <2>2 DEF Counts
  <2>4. /\ pc' \in {"register", "raised"}
        /\ UNCHANGED <<held, objects, job, trial, lines, registered>>
    BY <1>4 DEF Score
  <2>5. QED
    BY <2>1, <2>2, <2>3, <2>4 DEF Size
<1>5. CASE Register
  BY <1>5 DEF Register
<1>6. CASE JobEnds
  BY <1>6 DEF JobEnds
<1>7. CASE TrialEnds
  BY <1>7 DEF TrialEnds
<1>8. QED
  BY <1>1, <1>2, <1>3, <1>4, <1>5, <1>6, <1>7 DEF Next, Train

(* Every step of train() and of its jobs keeps the invariant.              *)
THEOREM NextIInv == IInv /\ [Next]_vars => IInv'
<1> SUFFICES ASSUME IInv, [Next]_vars PROVE IInv'
  OBVIOUS
<1>1. CASE Next
  BY <1>1, StepType, StepJobs, StepPackage DEF IInv
<1>2. CASE UNCHANGED vars
  <2>1. TypeOK' /\ SplitInv'
    <3>1. UNCHANGED <<data, faulty, pc, split, objects, job, trial, lines,
                      scored, registered>>
      BY <1>2 DEF vars, held
    <3>2. QED
      BY <3>1 DEF IInv, TypeOK, SplitInv, Counts
  <2>2. JobInv' /\ TrialInv' /\ PackageInv'
    BY <1>2 DEF vars, held, IInv, JobInv, TrialInv, PackageInv
  <2>3. QED
    BY <2>1, <2>2 DEF IInv
<1>3. QED
  BY <1>1, <1>2

(* The invariant holds in every state of every train() call.               *)
THEOREM InductiveInvariant == Spec => []IInv
<1>1. QED
  BY InitIInv, NextIInv, PTL DEF Spec

-----------------------------------------------------------------------------
(* The theorems.                                                           *)

(* Variables keep their types for every set of datasets.                   *)
THEOREM TypeCorrect == Spec => []TypeOK
<1>1. IInv => TypeOK
  BY DEF IInv
<1>2. QED
  BY <1>1, InductiveInvariant, PTL

(* Whatever the numbers of churned and active users, _stratified_split     *)
(* raises or leaves both classes in each of the three splits.              *)
THEOREM SplitsKeepClasses == Spec => []SplitsKeepBothClasses
<1>1. IInv => SplitsKeepBothClasses
  BY SplitKeepsBoth DEF IInv, TypeOK, SplitInv, SplitsKeepBothClasses
<1>2. QED
  BY <1>1, InductiveInvariant, PTL

(* A registered model has its data, its artifact and its own metrics,      *)
(* wherever the call or its jobs failed.                                   *)
THEOREM PackageBacked == Spec => []PackageIsBacked
<1>1. IInv => PackageIsBacked
  BY DEF IInv, PackageInv, JobInv, TrialInv, Data, PackageIsBacked
<1>2. QED
  BY <1>1, InductiveInvariant, PTL

(* A train() that returned left everything behind; metrics in S3 are those *)
(* of a registered model.                                                  *)
THEOREM ReturnedComplete == Spec => []ReturnedIsComplete
<1>1. IInv => ReturnedIsComplete
  BY DEF IInv, PackageInv, JobInv, TrialInv, Data, Tail, Uploads,
         ReturnedIsComplete
<1>2. QED
  BY <1>1, InductiveInvariant, PTL
=============================================================================
