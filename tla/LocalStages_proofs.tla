--------------------------- MODULE LocalStages_proofs ---------------------------
(***************************************************************************)
(* The stages that work on data of their own, each for every value of its  *)
(* constants:                                                              *)
(*   - whatever list is uploaded, ingestion keeps every well-formed id of  *)
(*     it once, in order, and each user is extracted for its own period;   *)
(*   - whatever fails or is killed, the explanations that were saved are   *)
(*     those the counters report, each at the place of its prediction;     *)
(*   - rounding never makes a feature vector invalid, and a trend is that  *)
(*     of the weeks at both ends of the period, in whatever units of time; *)
(*   - if the check of the wiring finds no problem and no handler drops    *)
(*     what a later stage needs, no stage of the local runner is refused.  *)
(***************************************************************************)
EXTENDS Ingestion, PipelineRunner, Explanations, FeatureEngineer,
        FiniteSetTheorems, SequenceTheorems, WellFoundedInduction, TLAPS

-----------------------------------------------------------------------------
(* Numbers                                                                 *)

(* A set of naturals that is not empty has a least element.                *)
LEMMA LeastNat ==
    ASSUME NEW T, T \subseteq Nat, T # {}
    PROVE  \E x \in T : \A y \in T : x <= y
<1> DEFINE R == {p \in Nat \X Nat : p[1] < p[2]}
<1>1. IsWellFoundedOn(R, Nat)
  BY NatLessThanWellFounded DEF OpToRel
<1>2. PICK x \in T : \A y \in T : <<y, x>> \notin R
  <2> HIDE DEF R
  <2>1. QED  BY <1>1, WFMin
<1>3. ASSUME NEW y \in T PROVE x <= y
  <2>1. <<y, x>> \in Nat \X Nat /\ <<y, x>>[1] = y /\ <<y, x>>[2] = x
    OBVIOUS
  <2>2. ~(y < x)
    BY <1>2, <2>1
  <2>3. QED  BY <2>2
<1>4. QED  BY <1>3

(* And a greatest, if it is bounded.                                       *)
LEMMA GreatestNat ==
    ASSUME NEW c \in Nat, NEW T, T \subseteq 0 .. c, T # {}
    PROVE  \E x \in T : \A y \in T : y <= x
<1> DEFINE U == {c - y : y \in T}
<1>1. U \subseteq Nat /\ U # {}
  OBVIOUS
<1>2. PICK u \in U : \A v \in U : u <= v
  <2> HIDE DEF U
  <2>1. QED  BY <1>1, LeastNat
<1>3. PICK x \in T : u = c - x
  OBVIOUS
<1>4. ASSUME NEW y \in T PROVE y <= x
  <2>1. c - y \in U
    OBVIOUS
  <2>2. u <= c - y /\ x \in 0 .. c /\ y \in 0 .. c
    BY <1>2, <2>1
  <2>3. QED  BY <1>3, <2>2
<1>5. QED  BY <1>4

(* The first n values of a function into the naturals have a bound.        *)
LEMMA ValuesBounded ==
    ASSUME NEW n \in Nat, NEW f, \A i \in 1 .. n : f[i] \in Nat
    PROVE  \E c \in Nat : \A i \in 1 .. n : f[i] <= c
<1> DEFINE Bounded(k) == \E c \in Nat : \A i \in 1 .. k : f[i] <= c
           Bad == {k \in 0 .. n : ~Bounded(k)}
<1>0. SUFFICES ASSUME ~Bounded(n) PROVE FALSE
  OBVIOUS
<1>a. n \in Bad
  BY <1>0
<1>1. PICK k \in Bad : \A j \in Bad : k <= j
  <2>1. Bad \subseteq Nat /\ Bad # {}
    BY <1>a
  <2> HIDE DEF Bad
  <2>2. QED  BY <2>1, LeastNat
<1>2. k # 0
  <2>0. \A i \in 1 .. 0 : f[i] <= 0
    OBVIOUS
  <2>1. Bounded(0)
    BY <2>0, 0 \in Nat
  <2>2. QED  BY <2>1
<1>3. k - 1 \in 0 .. n /\ ~(k <= k - 1) /\ k \in 1 .. n
  BY <1>2
<1>4. k - 1 \notin Bad
  <2> HIDE DEF Bad
  <2>1. QED  BY <1>1, <1>3
<1>5. PICK c \in Nat : \A i \in 1 .. k - 1 : f[i] <= c
  BY <1>3, <1>4
<1>6. PICK m \in Nat : c <= m /\ f[k] <= m
  <2>1. f[k] \in Nat
    BY <1>3
  <2>2. CASE c <= f[k]
    BY <2>1, <2>2
  <2>3. CASE ~(c <= f[k])
    BY <2>1, <2>3
  <2>4. QED  BY <2>2, <2>3
<1>7. ASSUME NEW i \in 1 .. k PROVE f[i] <= m
  <2>1. CASE i = k
    BY <1>6, <2>1
  <2>2. CASE i # k
    <3>1. i \in 1 .. k - 1 /\ f[i] \in Nat
      BY <2>2, <1>3
    <3>2. QED  BY <3>1, <1>5, <1>6
  <2>3. QED  BY <2>1, <2>2
<1>8. Bounded(k)
  BY <1>7
<1>9. QED  BY <1>8

(* Division with a remainder, and what a factor may be cancelled from.     *)
LEMMA Division ==
    ASSUME NEW a \in Nat, NEW d \in Nat \ {0}
    PROVE  /\ a \div d \in Nat
           /\ d * (a \div d) <= a
           /\ a < d * (a \div d) + d
BY SMT

(* A positive factor may be cancelled from an inequality.                  *)
LEMMA Cancel ==
    ASSUME NEW a \in Int, NEW b \in Int, NEW d \in Nat \ {0}, d * a <= d * b
    PROVE  a <= b
BY SMT

-----------------------------------------------------------------------------
(* Ingestion                                                               *)

(* The first m rows that have an id are, in their order, those of the ids  *)
(* in s: the k-th of them is row r[k].                                     *)
Places(r, s, m) ==
    /\ r \in [1 .. Len(s) -> 1 .. m]
    /\ \A k \in 1 .. Len(s) : file[r[k]].id = s[k]
    /\ \A j, k \in 1 .. Len(s) : j < k => r[j] < r[k]
    /\ \A i \in 1 .. m : file[i].id # NoId => \E k \in 1 .. Len(s) : r[k] = i

RowsRead == \E r : Places(r, ids, line - 1)

(* Is u one of the first n ids, in whatever spelling?                      *)
Mentioned(u, n) == \E k \in 1 .. n : Lower[ids[k]] = u

(* The valid ids are those among the ids looked at, and of two of them the *)
(* one before was mentioned when the other was not yet.                    *)
Selected ==
    /\ taken \in 0 .. Len(ids)
    /\ valid \in Seq(WellFormed)
    /\ {valid[a] : a \in 1 .. Len(valid)} = {u \in WellFormed : Mentioned(u, taken)}
    /\ \A a, b \in 1 .. Len(valid) : a < b =>
          \E k \in 1 .. taken :
              Lower[ids[k]] = valid[a] /\ ~Mentioned(valid[b], k)

(* The rows read that date u, and the dates they give: those of the last.  *)
Dating(u) == {i \in 1 .. line - 1 : i \in Naming(u) /\ Dated(i)}

Periods ==
    LET Texts == Dates \cup {NoneText, LastMonths, WindowStart, Today}
    IN  [from : Texts, to : Texts]

RowPeriod(i) == [from |-> DateText(file[i].from), to |-> DateText(file[i].to)]

OwnDates ==
    /\ dates \in [Spellings -> Periods]
    /\ \A u \in Spellings :
          \/ Dating(u) = {} /\ dates[u] = Undated
          \/ \E i \in Dating(u) :
                dates[u] = RowPeriod(i) /\ \A j \in Dating(u) : j <= i

(* What a list may be refused for.                                         *)
Named == {u \in WellFormed : Naming(u) # {}}

Refusable ==
    \/ format = "other"
    \/ \E i \in DOMAIN file : Breaks(file[i])
    \/ Cardinality(Named) \notin 1 .. MaxValidIds

IngestInv ==
    /\ file \in Files /\ given \in Globals
    /\ at \in {"parse", "select", "ingested", "extract", "raised"}
    /\ line \in 1 .. Len(file) + 1
    /\ ids \in Seq(Spellings)
    /\ RowsRead
    /\ Selected
    /\ OwnDates
    /\ at \in {"select", "ingested", "extract"} =>
          line = Len(file) + 1 /\ format # "other"
    /\ at \in {"ingested", "extract"} => taken = Len(ids)
    /\ at = "raised" => Refusable
    /\ at # "extract" => asked = <<>>
    /\ at = "extract" =>
          /\ global = IF given.from = NoDate /\ AllUndated
                      THEN [from |-> WindowStart, to |-> Today] ELSE given
          /\ Len(asked) <= Len(valid)
          /\ \A k \in 1 .. Len(asked) : asked[k] = PeriodOf(valid[k])
    /\ at = "parse" => taken = 0 /\ valid = <<>>
    /\ asked \in Seq(Periods)

(* Every row has an id or none, and its dates.                             *)
LEMMA RowFacts ==
    ASSUME IngestInv
    PROVE  /\ Len(file) \in Nat /\ DOMAIN file = 1 .. Len(file)
           /\ \A i \in DOMAIN file :
                 /\ file[i].id \in Spellings \cup {NoId}
                 /\ RowPeriod(i) \in Periods
                 /\ Dated(i) => RowPeriod(i) # Undated
           /\ \A s \in Spellings : Lower[s] \in Spellings
<1>1. file \in Seq(Row)
  BY IngestionAssumption DEF IngestInv
<1>2. ASSUME NEW i \in DOMAIN file
      PROVE  /\ file[i].id \in Spellings \cup {NoId}
             /\ RowPeriod(i) \in Periods
             /\ Dated(i) => RowPeriod(i) # Undated
  <2>1. file[i] \in Row
    BY <1>1
  <2>2. PICK f, t : /\ f = file[i].from /\ t = file[i].to
                    /\ f \in Dates /\ t \in Dates
    BY <2>1 DEF Row
  <2>3. /\ DateText(f) \in Dates \cup {NoneText}
        /\ DateText(t) \in Dates \cup {NoneText}
        /\ f # NoDate => DateText(f) # NoDate
        /\ t # NoDate => DateText(t) # NoDate
    BY <2>2, IngestionAssumption DEF DateText
  <2>4. RowPeriod(i) = [from |-> DateText(f), to |-> DateText(t)]
    BY <2>2 DEF RowPeriod
  <2>5. RowPeriod(i) \in Periods
    BY <2>3, <2>4 DEF Periods
  <2>6. Dated(i) => RowPeriod(i) # Undated
    <3>1. /\ RowPeriod(i).from = DateText(f) /\ RowPeriod(i).to = DateText(t)
          /\ Undated.from = NoDate /\ Undated.to = NoDate
      BY <2>4 DEF Undated
    <3>2. QED  BY <2>2, <2>3, <3>1 DEF Dated
  <2>7. file[i].id \in Spellings \cup {NoId}
    BY <2>1 DEF Row
  <2>8. QED  BY <2>5, <2>6, <2>7
<1>3. QED  BY <1>1, <1>2, IngestionAssumption

(* Reading a row adds its id to the ids and its dates to those of its user *)
LEMMA ReadKeepsRows ==
    ASSUME IngestInv, ReadRow
    PROVE  RowsRead'
<1>1. PICK n \in Nat : n = Len(ids)
  BY DEF IngestInv
<1>2. PICK m \in Nat \ {0} : m = line /\ m \in 1 .. Len(file) /\ m \in DOMAIN file
  BY RowFacts DEF IngestInv, ReadRow
<1>3. line' = m + 1 /\ file' = file /\ line' - 1 = m
  BY <1>2 DEF ReadRow
<1>4. PICK r : Places(r, ids, m - 1)
  BY <1>2 DEF IngestInv, RowsRead
<1>a. /\ r \in [1 .. n -> 1 .. m - 1]
      /\ \A k \in 1 .. n : file[r[k]].id = ids[k]
      /\ \A j, k \in 1 .. n : j < k => r[j] < r[k]
      /\ \A i \in 1 .. m - 1 :
            file[i].id # NoId => \E k \in 1 .. n : r[k] = i
  BY <1>1, <1>4 DEF Places
<1>5. CASE file[m].id = NoId
  <2>1. ids' = ids
    BY <1>2, <1>5 DEF ReadRow
  <2>2. r \in [1 .. n -> 1 .. m]
    BY <1>2, <1>a
  <2>3. \A i \in 1 .. m : file[i].id # NoId => \E k \in 1 .. n : r[k] = i
    <3>1. \A i \in 1 .. m : i = m \/ i \in 1 .. m - 1
      BY <1>2
    <3>2. QED  BY <3>1, <1>a, <1>5
  <2>4. Places(r, ids, m)
    BY <1>1, <1>a, <2>2, <2>3 DEF Places
  <2>5. Places(r, ids, m)'
    BY <1>3, <2>1, <2>4 DEF Places
  <2>6. QED  BY <1>3, <2>1, <2>5 DEF RowsRead
<1>6. CASE file[m].id # NoId
  <2> DEFINE s == [k \in 1 .. n + 1 |-> IF k = n + 1 THEN m ELSE r[k]]
  <2>1. /\ ids' = Append(ids, file[m].id)
        /\ file[m].id \in Spellings /\ ids \in Seq(Spellings)
    BY <1>2, <1>6, RowFacts DEF ReadRow, IngestInv
  <2>2. /\ Len(ids') = n + 1
        /\ \A k \in 1 .. n : ids'[k] = ids[k]
        /\ ids'[n + 1] = file[m].id
    BY <1>1, <2>1
  <2>3. \A k \in 1 .. n + 1 : k = n + 1 \/ k \in 1 .. n
    OBVIOUS
  <2>4. \A k \in 1 .. n : k \in 1 .. n + 1 /\ s[k] = r[k] /\ r[k] \in 1 .. m - 1
    BY <1>a
  <2>5. s[n + 1] = m
    OBVIOUS
  <2>6. s \in [1 .. n + 1 -> 1 .. m]
    <3>1. \A k \in 1 .. n + 1 : s[k] \in 1 .. m
      <4>1. m \in 1 .. m /\ \A x \in 1 .. m - 1 : x \in 1 .. m
        BY <1>2
      <4>2. QED  BY <4>1, <2>3, <2>4, <2>5
    <3>2. QED  BY <3>1
  <2> HIDE DEF s
  <2>7. \A k \in 1 .. n + 1 : file[s[k]].id = ids'[k]
    BY <1>a, <2>2, <2>3, <2>4, <2>5
  <2>8. ASSUME NEW j \in 1 .. n + 1, NEW k \in 1 .. n + 1, j < k
        PROVE  s[j] < s[k]
    <3>1. j \in 1 .. n
      BY <2>8
    <3>2. CASE k = n + 1
      BY <3>1, <3>2, <2>4, <2>5
    <3>3. CASE k \in 1 .. n
      BY <3>1, <3>3, <2>4, <2>8, <1>a
    <3>4. QED  BY <3>2, <3>3, <2>3
  <2>9. ASSUME NEW i \in 1 .. m, file[i].id # NoId
        PROVE  \E k \in 1 .. n + 1 : s[k] = i
    <3>1. CASE i = m
      BY <3>1, <2>5, n + 1 \in 1 .. n + 1
    <3>2. CASE i # m
      <4>1. i \in 1 .. m - 1
        BY <3>2
      <4>2. PICK k \in 1 .. n : r[k] = i
        BY <4>1, <2>9, <1>a
      <4>3. QED  BY <4>2, <2>4
    <3>3. QED  BY <3>1, <3>2
  <2>10. PICK q :
                /\ q \in [1 .. n + 1 -> 1 .. m]
                /\ \A k \in 1 .. n + 1 : file[q[k]].id = ids'[k]
                /\ \A j, k \in 1 .. n + 1 : j < k => q[j] < q[k]
                /\ \A i \in 1 .. m :
                      file[i].id # NoId => \E k \in 1 .. n + 1 : q[k] = i
    BY <2>6, <2>7, <2>8, <2>9
  <2>11. Places(q, ids, m)'
    BY <1>3, <2>2, <2>10 DEF Places
  <2>12. QED  BY <1>3, <2>11 DEF RowsRead
<1>7. QED  BY <1>5, <1>6

(* A row that is read leaves each id with the dates of its last dated row. *)
LEMMA ReadKeepsDates ==
    ASSUME IngestInv, ReadRow
    PROVE  OwnDates'
<1>1. PICK m \in Nat \ {0} : m = line /\ m \in DOMAIN file
  BY RowFacts DEF IngestInv, ReadRow
<1>2. line' = m + 1 /\ file' = file /\ line' - 1 = m
  BY <1>1 DEF ReadRow
<1>3. \A u : Naming(u)' = Naming(u)
  BY <1>2 DEF Naming
<1>4. \A i : Dated(i)' = Dated(i) /\ RowPeriod(i)' = RowPeriod(i)
  BY <1>2 DEF Dated, RowPeriod
<1>5. \A u : Dating(u)' = Dating(u) \cup
                            (IF m \in Naming(u) /\ Dated(m) THEN {m} ELSE {})
  <2>1. \A i : i \in 1 .. m <=> i \in 1 .. m - 1 \/ i = m
    BY <1>1
  <2>2. \A u : Dating(u)' = {i \in 1 .. m : i \in Naming(u) /\ Dated(i)}
    BY <1>2, <1>3, <1>4 DEF Dating
  <2>3. \A u : Dating(u) = {i \in 1 .. m - 1 : i \in Naming(u) /\ Dated(i)}
    BY <1>1 DEF Dating
  <2>4. QED  BY <2>1, <2>2, <2>3
<1>6. \A u : \A j \in Dating(u) : j <= m
  BY <1>1 DEF Dating
<1>7. CASE file[m].id = NoId
  <2>1. dates' = dates
    BY <1>1, <1>7 DEF ReadRow
  <2>2. \A u : Dating(u)' = Dating(u)
    BY <1>5, <1>7 DEF Naming
  <2>3. QED  BY <2>1, <2>2, <1>4 DEF IngestInv, OwnDates
<1>8. CASE file[m].id # NoId
  <2>1. PICK v \in Spellings : v = Lower[file[m].id]
    BY <1>1, <1>8, RowFacts
  <2>2. dates' = [dates EXCEPT ![v] = RowDates(file[m], dates[v])]
    BY <1>1, <1>8, <2>1 DEF ReadRow, DateKey, IngestInv, OwnDates
  <2>3. RowDates(file[m], dates[v]) = IF Dated(m) THEN RowPeriod(m) ELSE dates[v]
    BY DEF RowDates, Dated, RowPeriod
  <2>4. dates' \in [Spellings -> Periods]
    BY <1>1, <2>2, <2>3, RowFacts DEF IngestInv, OwnDates
  <2>5. /\ dates'[v] = IF Dated(m) THEN RowPeriod(m) ELSE dates[v]
        /\ \A u \in Spellings : u # v => dates'[u] = dates[u]
    BY <2>1, <2>2, <2>3 DEF IngestInv, OwnDates
  <2>6. \A u : m \in Naming(u) <=> u = v
    BY <1>1, <1>8, <2>1 DEF Naming
  <2>7. ASSUME NEW u \in Spellings
        PROVE  \/ Dating(u)' = {} /\ dates'[u] = Undated
               \/ \E i \in Dating(u)' :
                     dates'[u] = RowPeriod(i) /\ \A j \in Dating(u)' : j <= i
    <3>1. CASE u = v /\ Dated(m)
      <4>1. Dating(u)' = Dating(u) \cup {m} /\ dates'[u] = RowPeriod(m)
        BY <3>1, <1>5, <2>5, <2>6
      <4>2. m <= m
        OBVIOUS
      <4>3. QED  BY <4>1, <4>2, <1>6
    <3>2. CASE ~(u = v /\ Dated(m))
      <4>1. Dating(u)' = Dating(u) /\ dates'[u] = dates[u]
        BY <3>2, <1>5, <2>5, <2>6
      <4>2. QED  BY <4>1 DEF IngestInv, OwnDates
    <3>3. QED  BY <3>1, <3>2
  <2>8. QED  BY <1>4, <2>4, <2>7 DEF OwnDates
<1>9. QED  BY <1>7, <1>8

(* Before the first id is looked at none is valid.                         *)
LEMMA NoneSelected ==
    ASSUME NEW n \in Nat, Len(ids) = n, taken = 0, valid = <<>>
    PROVE  Selected
<1>1. Len(valid) = 0 /\ taken \in 0 .. Len(ids) /\ valid \in Seq(WellFormed)
  OBVIOUS
<1>2. \A i : i \notin 1 .. Len(valid) /\ i \notin 1 .. taken
  BY <1>1
<1>3. \A u : ~Mentioned(u, taken)
  BY <1>2 DEF Mentioned
<1>4. QED  BY <1>1, <1>2, <1>3 DEF Selected

(* An id is taken if it is valid and not yet mentioned, so the valid ids   *)
(* are again those mentioned, in the order of the first mentions.          *)
LEMMA TakeKeepsSelected ==
    ASSUME IngestInv, TakeId
    PROVE  Selected'
<1>1. PICK n \in Nat : n = Len(ids)
  BY DEF IngestInv
<1>2. PICK t \in Nat : t = taken /\ taken' = t + 1 /\ t + 1 \in 1 .. n /\ t < n
  BY <1>1 DEF IngestInv, Selected, TakeId
<1>3. PICK l \in Nat : l = Len(valid) /\ valid \in Seq(WellFormed)
  BY DEF IngestInv, Selected
<1>4. PICK u \in Spellings : /\ ids[t + 1] \in Spellings /\ u = Lower[ids[t + 1]]
                             /\ u \in WellFormed <=> ids[t + 1] \in WellFormed
  <2>1. ids[t + 1] \in Spellings
    BY <1>1, <1>2 DEF IngestInv
  <2>2. QED  BY <2>1, IngestionAssumption
<1>5. ids' = ids /\ \A v, k : Mentioned(v, k)' = Mentioned(v, k)
  BY DEF TakeId, Mentioned
<1>6. \A v : Mentioned(v, t + 1) <=> Mentioned(v, t) \/ v = u
  <2>1. \A k : k \in 1 .. t + 1 <=> k \in 1 .. t \/ k = t + 1
    BY <1>2
  <2>2. QED  BY <2>1, <1>4 DEF Mentioned
<1>7. SeenBefore(t + 1) <=> Mentioned(u, t)
  <2>1. t + 1 - 1 = t
    BY <1>2
  <2>2. QED  BY <2>1, <1>4 DEF SeenBefore, SameId, Mentioned
<1>8. /\ {valid[a] : a \in 1 .. l} = {v \in WellFormed : Mentioned(v, t)}
      /\ \A a, b \in 1 .. l : a < b =>
            \E k \in 1 .. t : Lower[ids[k]] = valid[a] /\ ~Mentioned(valid[b], k)
  BY <1>2, <1>3 DEF IngestInv, Selected
<1>9. taken' \in 0 .. Len(ids')
  BY <1>1, <1>2, <1>5
<1>a. \A k \in 1 .. t : k \in 1 .. t + 1
  BY <1>2
<1>10. CASE ~Mentioned(u, t) /\ u \in WellFormed
  <2>1. valid' = Append(valid, u)
    BY <1>2, <1>4, <1>7, <1>10 DEF TakeId
  <2>2. /\ valid' \in Seq(WellFormed) /\ Len(valid') = l + 1
        /\ \A a \in 1 .. l : valid'[a] = valid[a]
        /\ valid'[l + 1] = u
    BY <1>3, <1>10, <2>1
  <2>3. \A a : a \in 1 .. l + 1 <=> a \in 1 .. l \/ a = l + 1
    BY <1>3
  <2>4. {valid'[a] : a \in 1 .. l + 1} = {v \in WellFormed : Mentioned(v, t + 1)}
    <3>1. {valid'[a] : a \in 1 .. l + 1} = {valid[a] : a \in 1 .. l} \cup {u}
      BY <2>2, <2>3
    <3>2. QED  BY <3>1, <1>6, <1>8, <1>10
  <2>5. ASSUME NEW a \in 1 .. l + 1, NEW b \in 1 .. l + 1, a < b
        PROVE  \E k \in 1 .. t + 1 :
                  Lower[ids[k]] = valid'[a] /\ ~Mentioned(valid'[b], k)
    <3>1. a \in 1 .. l
      BY <2>5
    <3>2. CASE b \in 1 .. l
      <4>1. valid'[a] = valid[a] /\ valid'[b] = valid[b]
        BY <3>1, <3>2, <2>2
      <4>2. PICK k \in 1 .. t : Lower[ids[k]] = valid[a] /\ ~Mentioned(valid[b], k)
        BY <3>1, <3>2, <2>5, <1>8
      <4>3. QED  BY <4>1, <4>2, <1>a
    <3>3. CASE b = l + 1
      <4>1. valid[a] \in {v \in WellFormed : Mentioned(v, t)}
        BY <3>1, <1>8
      <4>2. PICK k \in 1 .. t : Lower[ids[k]] = valid[a]
        BY <4>1 DEF Mentioned
      <4>3. \A j \in 1 .. k : j \in 1 .. t
        BY <1>2
      <4>4. ~Mentioned(u, k)
        BY <4>3, <1>10 DEF Mentioned
      <4>5. QED  BY <4>2, <4>4, <3>1, <3>3, <2>2, <1>a
    <3>4. QED  BY <3>2, <3>3, <2>3
  <2>6. QED  BY <1>2, <1>5, <1>9, <2>2, <2>4, <2>5 DEF Selected
<1>11. CASE Mentioned(u, t) \/ u \notin WellFormed
  <2>1. valid' = valid
    BY <1>2, <1>4, <1>7, <1>11 DEF TakeId
  <2>2. {v \in WellFormed : Mentioned(v, t + 1)} = {v \in WellFormed : Mentioned(v, t)}
    BY <1>6, <1>11
  <2>3. \A a, b \in 1 .. l : a < b =>
           \E k \in 1 .. t + 1 : Lower[ids[k]] = valid[a] /\ ~Mentioned(valid[b], k)
    BY <1>8, <1>a
  <2>4. QED  BY <1>2, <1>3, <1>5, <1>8, <1>9, <2>1, <2>2, <2>3 DEF Selected
<1>12. QED  BY <1>10, <1>11

(* When the list is read, the ids named in it are those in raw_ids, and    *)
(* what is mentioned before in raw_ids is named before in the list.        *)
LEMMA NamedIsMentioned ==
    ASSUME IngestInv, line = Len(file) + 1
    PROVE  /\ \A u : Naming(u) # {} <=> Mentioned(u, Len(ids))
           /\ \A u, v : \A k \in 1 .. Len(ids) :
                 (Lower[ids[k]] = u /\ ~Mentioned(v, k)) =>
                    \E i \in Naming(u) : \A j \in Naming(v) : i < j
<1>1. PICK n \in Nat : n = Len(ids)
  BY DEF IngestInv
<1>2. PICK m \in Nat : m = Len(file) /\ line - 1 = m /\ DOMAIN file = 1 .. m
  <2>1. PICK m \in Nat : m = Len(file) /\ DOMAIN file = 1 .. m
    BY RowFacts
  <2>2. line - 1 = m
    BY <2>1
  <2>3. QED  BY <2>1, <2>2
<1>3. PICK r : Places(r, ids, m)
  BY <1>2 DEF IngestInv, RowsRead
<1>4. /\ r \in [1 .. n -> 1 .. m]
      /\ \A k \in 1 .. n : file[r[k]].id = ids[k]
      /\ \A j, k \in 1 .. n : j < k => r[j] < r[k]
      /\ \A i \in 1 .. m : file[i].id # NoId => \E k \in 1 .. n : r[k] = i
  BY <1>1, <1>3 DEF Places
<1>5. \A k \in 1 .. n : r[k] \in 1 .. m /\ ids[k] \in Spellings /\ ids[k] # NoId
  <2>1. \A k \in 1 .. n : ids[k] \in Spellings
    BY <1>1 DEF IngestInv
  <2>2. NoId \notin Spellings
    BY IngestionAssumption
  <2>3. QED  BY <1>4, <2>1, <2>2
<1>6. ASSUME NEW k \in 1 .. n PROVE r[k] \in Naming(Lower[ids[k]])
  BY <1>2, <1>4, <1>5 DEF Naming
<1>7. ASSUME NEW u, NEW i \in Naming(u)
      PROVE  \E k \in 1 .. n : r[k] = i /\ Lower[ids[k]] = u
  <2>1. i \in 1 .. m /\ file[i].id # NoId /\ Lower[file[i].id] = u
    BY <1>2 DEF Naming
  <2>2. PICK k \in 1 .. n : r[k] = i
    BY <2>1, <1>4
  <2>3. QED  BY <2>1, <2>2, <1>4
<1>8. \A u : Naming(u) # {} <=> Mentioned(u, n)
  BY <1>6, <1>7 DEF Mentioned
<1>9. ASSUME NEW u, NEW v, NEW k \in 1 .. n, Lower[ids[k]] = u, ~Mentioned(v, k)
      PROVE  \E i \in Naming(u) : \A j \in Naming(v) : i < j
  <2>1. r[k] \in Naming(u)
    BY <1>6, <1>9
  <2>2. ASSUME NEW j \in Naming(v) PROVE r[k] < j
    <3>1. PICK l \in 1 .. n : r[l] = j /\ Lower[ids[l]] = v
      BY <1>7
    <3>2. l \notin 1 .. k
      BY <3>1, <1>9 DEF Mentioned
    <3>3. k < l
      BY <3>2
    <3>4. QED  BY <3>1, <3>3, <1>4
  <2>3. QED  BY <2>1, <2>2
<1>10. QED  BY <1>1, <1>8, <1>9

(* When all ids have been looked at, the valid ones are those named.       *)
LEMMA ValidIsNamed ==
    ASSUME IngestInv, line = Len(file) + 1, taken = Len(ids)
    PROVE  /\ {valid[a] : a \in 1 .. Len(valid)} = Named
           /\ Cardinality(Named) = Len(valid)
           /\ Len(valid) \in Nat
           /\ \A a, b \in 1 .. Len(valid) : a < b =>
                 \E i \in Naming(valid[a]) : \A j \in Naming(valid[b]) : i < j
<1>1. PICK l \in Nat : l = Len(valid)
  BY DEF IngestInv, Selected
<1>2. PICK n \in Nat : n = Len(ids) /\ n = taken
  BY DEF IngestInv
<1>3. /\ {valid[a] : a \in 1 .. l} = {u \in WellFormed : Mentioned(u, n)}
      /\ \A a, b \in 1 .. l : a < b =>
            \E k \in 1 .. n : Lower[ids[k]] = valid[a] /\ ~Mentioned(valid[b], k)
  BY <1>1, <1>2 DEF IngestInv, Selected
<1>4. {valid[a] : a \in 1 .. l} = Named
  BY <1>2, <1>3, NamedIsMentioned DEF Named
<1>5. \A a, b \in 1 .. l : a < b =>
         \E i \in Naming(valid[a]) : \A j \in Naming(valid[b]) : i < j
  BY <1>2, <1>3, NamedIsMentioned
<1>6. ASSUME NEW a \in 1 .. l, NEW b \in 1 .. l, a < b PROVE valid[a] # valid[b]
  <2>1. PICK k \in 1 .. n : Lower[ids[k]] = valid[a] /\ ~Mentioned(valid[b], k)
    BY <1>3, <1>6
  <2>2. k \in 1 .. k
    OBVIOUS
  <2>3. QED  BY <2>1, <2>2 DEF Mentioned
<1>7. Cardinality(Named) = l
  <2> DEFINE f == [a \in 1 .. l |-> valid[a]]
  <2>1. ASSUME NEW a \in 1 .. l, NEW b \in 1 .. l, valid[a] = valid[b]
        PROVE  a = b
    <3>1. a < b \/ b < a \/ a = b
      OBVIOUS
    <3>2. QED  BY <3>1, <2>1, <1>6
  <2>2. f \in Bijection(1 .. l, Named)
    <3>1. f \in [1 .. l -> Named]
      BY <1>4
    <3>2. \A u \in Named : \E a \in 1 .. l : f[a] = u
      BY <1>4
    <3>3. \A a, b \in 1 .. l : f[a] = f[b] => a = b
      BY <2>1
    <3> HIDE DEF f
    <3>4. QED  BY <3>1, <3>2, <3>3 DEF Bijection, Injection, Surjection, IsInjective
  <2>3. IsFiniteSet(1 .. l) /\ Cardinality(1 .. l) = l
    <3>1. 1 \in Int /\ l \in Int
      OBVIOUS
    <3>2. l = IF 1 > l THEN 0 ELSE l - 1 + 1
      OBVIOUS
    <3>3. QED  BY <3>1, <3>2, FS_Interval
  <2>4. ExistsBijection(1 .. l, Named)
    BY <2>2 DEF ExistsBijection
  <2>5. QED  BY <2>3, <2>4, FS_Bijection
<1>8. QED  BY <1>1, <1>4, <1>5, <1>7

(* What the ids, the valid ones and the dates are depends on nothing but   *)
(* the list and how far it has been read.                                  *)
LEMMA PartsUnchanged ==
    UNCHANGED <<file, line, ids, dates, taken, valid>> =>
        /\ RowsRead' = RowsRead /\ Selected' = Selected /\ OwnDates' = OwnDates
        /\ AllUndated' = AllUndated
BY DEF RowsRead, Places, Selected, Mentioned, OwnDates, Dating, Naming, Dated,
       RowPeriod, AllUndated

(* What a list may be refused for is a matter of the list alone.           *)
LEMMA ListUnchanged ==
    file' = file /\ format' = format => Refusable' = Refusable
BY DEF Refusable, Named, Naming, Breaks

(* Dates are dates, whichever of two is taken.                             *)
LEMMA PeriodFacts ==
    ASSUME IngestInv, NEW u \in Spellings, global \in Periods
    PROVE  PeriodOf(u) \in Periods
<1>1. PICK d \in Periods : d = dates[u]
  BY DEF IngestInv, OwnDates
<1>2. QED  BY <1>1 DEF Periods, PeriodOf, FirstDate

(* It holds before the first row is read,                                  *)
LEMMA IngestInit_IngestInv == IngestInit => IngestInv
<1> SUFFICES ASSUME IngestInit PROVE IngestInv
  OBVIOUS
<1>1. /\ file \in Files /\ given \in Globals /\ at = "parse" /\ line = 1
      /\ ids = <<>> /\ taken = 0 /\ valid = <<>> /\ asked = <<>>
      /\ dates = [s \in Spellings |-> Undated]
  BY DEF IngestInit
<1>2. file \in Seq(Row)
  BY <1>1, IngestionAssumption
<1>3. line \in 1 .. Len(file) + 1
  BY <1>1, <1>2
<1>4. Len(ids) = 0 /\ ids \in Seq(Spellings) /\ asked \in Seq(Periods)
  BY <1>1
<1>5. \A i : i \notin 1 .. 0
  OBVIOUS
<1>6. RowsRead
  <2> DEFINE r == [k \in 1 .. 0 |-> 1]
  <2>1. r \in [1 .. 0 -> 1 .. 0]
    BY <1>5
  <2> HIDE DEF r
  <2>2. Places(r, ids, 0)
    BY <2>1, <1>4, <1>5 DEF Places
  <2>3. line - 1 = 0
    BY <1>1
  <2>4. QED  BY <2>2, <2>3 DEF RowsRead
<1>7. Selected
  BY <1>1, <1>4, NoneSelected
<1>8. OwnDates
  <2>1. \A u : Dating(u) = {}
    BY <1>1, <1>5 DEF Dating
  <2>2. Undated \in Periods
    BY DEF Undated, Periods, Dates
  <2>3. QED  BY <1>1, <2>1, <2>2 DEF OwnDates
<1>9. QED  BY <1>1, <1>3, <1>4, <1>6, <1>7, <1>8 DEF IngestInv

(* Every step keeps it: a row read, an id looked at, a period asked for.   *)
LEMMA IngestInv_Next == IngestInv /\ [IngestNext]_ingestVars => IngestInv'
<1> SUFFICES ASSUME IngestInv, [IngestNext]_ingestVars PROVE IngestInv'
  OBVIOUS
<1>a. PICK m \in Nat : m = Len(file) /\ DOMAIN file = 1 .. m
  BY RowFacts
<1>b. /\ file \in Files /\ given \in Globals /\ line \in 1 .. m + 1
      /\ ids \in Seq(Spellings) /\ RowsRead /\ Selected /\ OwnDates
      /\ asked \in Seq(Periods)
  BY <1>a DEF IngestInv
<1>1. CASE Unreadable \/ RowBreaks
  <2>1. UNCHANGED <<file, format, given, line, ids, dates, taken, valid, asked>>
    BY <1>1 DEF Unreadable, RowBreaks
  <2>2. at = "parse" /\ at' = "raised" /\ asked = <<>>
    BY <1>1 DEF Unreadable, RowBreaks, IngestInv
  <2>3. Refusable
    BY <1>1 DEF Unreadable, RowBreaks, Refusable
  <2>4. QED  BY <1>a, <1>b, <2>1, <2>2, <2>3, PartsUnchanged, ListUnchanged
             DEF IngestInv
<1>2. CASE ReadRow
  <2>1. /\ UNCHANGED <<file, format, given, at, taken, valid, asked>>
        /\ line' = line + 1 /\ line \in 1 .. m /\ at = "parse"
        /\ taken = 0 /\ valid = <<>> /\ asked = <<>>
    BY <1>2, <1>a DEF ReadRow, IngestInv
  <2>2. RowsRead' /\ OwnDates'
    BY <1>2, ReadKeepsRows, ReadKeepsDates
  <2>3. ids' \in Seq(Spellings)
    <3>1. file[line].id \in Spellings \cup {NoId}
      BY <1>a, <2>1, RowFacts
    <3>2. CASE file[line].id = NoId
      BY <1>2, <1>b, <3>2 DEF ReadRow
    <3>3. CASE file[line].id # NoId
      <4>1. ids' = Append(ids, file[line].id)
        BY <1>2, <3>3 DEF ReadRow
      <4>2. file[line].id \in Spellings
        BY <3>1, <3>3
      <4>3. QED  BY <1>b, <4>1, <4>2
    <3>4. QED  BY <3>2, <3>3
  <2>4. Selected'
    <3>1. PICK n \in Nat : n = Len(ids')
      BY <2>3
    <3>2. (Len(ids) = n /\ taken = 0 /\ valid = <<>>)'
      BY <2>1, <3>1
    <3>3. (Len(ids) = n /\ taken = 0 /\ valid = <<>> => Selected)'
      BY NoneSelected, PTL
    <3>4. QED  BY <3>2, <3>3
  <2>5. line' \in 1 .. m + 1
    BY <2>1
  <2>6. QED  BY <1>a, <1>b, <2>1, <2>2, <2>3, <2>4, <2>5 DEF IngestInv
<1>3. CASE ListRead
  <2>1. /\ UNCHANGED <<file, format, given, line, ids, dates, taken, valid, asked>>
        /\ asked = <<>> /\ line = Len(file) + 1 /\ format # "other"
        /\ at' = IF ids = <<>> THEN "raised" ELSE "select"
    BY <1>3 DEF ListRead, IngestInv
  <2>2. ids = <<>> => Refusable
    <3>1. ASSUME ids = <<>> PROVE Named = {}
      <4>1. \A u : ~Mentioned(u, Len(ids))
        BY <3>1 DEF Mentioned
      <4>2. \A u : Naming(u) = {}
        BY <4>1, <2>1, NamedIsMentioned
      <4>3. QED  BY <4>2 DEF Named
    <3>2. Cardinality({}) \notin 1 .. MaxValidIds
      BY FS_EmptySet
    <3>3. QED  BY <3>1, <3>2 DEF Refusable
  <2>3. CASE ids = <<>>
    <3>1. at' = "raised"
      BY <2>1, <2>3
    <3>2. QED  BY <1>a, <1>b, <2>1, <2>2, <2>3, <3>1, PartsUnchanged, ListUnchanged
               DEF IngestInv
  <2>4. CASE ids # <<>>
    <3>1. at' = "select"
      BY <2>1, <2>4
    <3>2. QED  BY <1>a, <1>b, <2>1, <3>1, PartsUnchanged DEF IngestInv
  <2>5. QED  BY <2>3, <2>4
<1>4. CASE TakeId
  <2>1. /\ UNCHANGED <<file, format, given, line, ids, dates, at, asked>>
        /\ at = "select" /\ asked = <<>> /\ line = Len(file) + 1 /\ format # "other"
    BY <1>4 DEF TakeId, IngestInv
  <2>2. Selected'
    BY <1>4, TakeKeepsSelected
  <2>3. RowsRead' /\ OwnDates'
    BY <1>b, <2>1 DEF RowsRead, Places, OwnDates, Dating, Naming, Dated, RowPeriod
  <2>4. QED  BY <1>a, <1>b, <2>1, <2>2, <2>3 DEF IngestInv
<1>5. CASE Ingest
  <2>1. /\ UNCHANGED <<file, format, given, line, ids, dates, taken, valid, asked>>
        /\ asked = <<>> /\ line = Len(file) + 1 /\ format # "other"
        /\ taken = Len(ids)
        /\ at' = IF valid # <<>> /\ Len(valid) <= MaxValidIds
                 THEN "ingested" ELSE "raised"
    BY <1>5 DEF Ingest, IngestInv
  <2>2. CASE valid # <<>> /\ Len(valid) <= MaxValidIds
    <3>1. at' = "ingested"
      BY <2>1, <2>2
    <3>2. QED  BY <1>a, <1>b, <2>1, <3>1, PartsUnchanged DEF IngestInv
  <2>3. CASE ~(valid # <<>> /\ Len(valid) <= MaxValidIds)
    <3>1. at' = "raised"
      BY <2>1, <2>3
    <3>2. Refusable
      <4>1. PICK l \in Nat : l = Len(valid) /\ Cardinality(Named) = l
        BY <2>1, ValidIsNamed
      <4>2. l = 0 \/ ~(l <= MaxValidIds)
        BY <2>3, <4>1 DEF IngestInv, Selected
      <4>3. l \notin 1 .. MaxValidIds
        BY <4>2
      <4>4. QED  BY <4>1, <4>3 DEF Refusable
    <3>3. QED  BY <1>a, <1>b, <2>1, <3>1, <3>2, PartsUnchanged, ListUnchanged
               DEF IngestInv
  <2>4. QED  BY <2>2, <2>3
<1>6. CASE ChoosePeriod
  <2>1. /\ UNCHANGED <<file, format, given, line, ids, dates, taken, valid, asked>>
        /\ asked = <<>> /\ line = Len(file) + 1 /\ format # "other"
        /\ taken = Len(ids) /\ at' = "extract"
        /\ global' = IF given.from = NoDate /\ AllUndated
                     THEN [from |-> WindowStart, to |-> Today] ELSE given
    BY <1>6 DEF ChoosePeriod, IngestInv
  <2>2. Len(asked) = 0 /\ Len(valid) \in Nat /\ \A k : k \notin 1 .. 0
    BY <1>b, <2>1 DEF Selected
  <2>3. (/\ Len(asked) <= Len(valid)
         /\ \A k \in 1 .. Len(asked) : asked[k] = PeriodOf(valid[k]))'
    BY <2>1, <2>2
  <2>4. QED  BY <1>a, <1>b, <2>1, <2>3, PartsUnchanged DEF IngestInv
<1>7. CASE AskFor
  <2>1. /\ UNCHANGED <<file, format, given, line, ids, dates, taken, at, valid, global>>
        /\ at = "extract" /\ line = Len(file) + 1 /\ format # "other"
        /\ taken = Len(ids)
        /\ global = IF given.from = NoDate /\ AllUndated
                    THEN [from |-> WindowStart, to |-> Today] ELSE given
    BY <1>7 DEF AskFor, IngestInv
  <2>2. PICK n \in Nat, l \in Nat : /\ n = Len(asked) /\ l = Len(valid) /\ n < l
                                    /\ valid[n + 1] \in Spellings
    <3>1. PICK n \in Nat, l \in Nat : n = Len(asked) /\ l = Len(valid) /\ n < l
      BY <1>7, <1>b DEF AskFor, Selected
    <3>2. valid[n + 1] \in WellFormed
      BY <1>b, <3>1 DEF Selected
    <3>3. QED  BY <3>1, <3>2, IngestionAssumption
  <2>3. global \in Periods
    <3>1. given \in Periods
      BY <1>b, IngestionAssumption DEF Periods
    <3>2. [from |-> WindowStart, to |-> Today] \in Periods
      BY DEF Periods
    <3>3. QED  BY <2>1, <3>1, <3>2
  <2>4. PICK p \in Periods : p = PeriodOf(valid[n + 1])
    BY <2>2, <2>3, PeriodFacts
  <2>5. asked' = Append(asked, p)
    BY <1>7, <2>2, <2>4 DEF AskFor
  <2>6. /\ asked' \in Seq(Periods) /\ Len(asked') = n + 1
        /\ \A k \in 1 .. n : asked'[k] = asked[k]
        /\ asked'[n + 1] = p
    BY <1>b, <2>2, <2>5
  <2>7. \A k : PeriodOf(valid[k])' = PeriodOf(valid[k])
    BY <2>1 DEF PeriodOf
  <2>8. \A k \in 1 .. n + 1 : asked'[k] = PeriodOf(valid[k])
    <3>1. \A k \in 1 .. n + 1 : k \in 1 .. n \/ k = n + 1
      OBVIOUS
    <3>2. \A k \in 1 .. n : asked[k] = PeriodOf(valid[k])
      BY <2>1, <2>2 DEF IngestInv
    <3>3. QED  BY <2>4, <2>6, <3>1, <3>2
  <2>9. Len(asked') <= Len(valid')
    BY <2>1, <2>2, <2>6
  <2>10. \A k \in 1 .. Len(asked') : asked'[k] = PeriodOf(valid[k])'
    BY <2>6, <2>7, <2>8
  <2>11. QED  BY <1>a, <1>b, <2>1, <2>6, <2>9, <2>10, PartsUnchanged DEF IngestInv
<1>8. CASE UNCHANGED ingestVars
  <2>1. /\ UNCHANGED <<file, line, ids, dates, taken, valid>>
        /\ UNCHANGED <<format, given, at, global, asked>>
    BY <1>8 DEF ingestVars
  <2>2. \A k : PeriodOf(valid[k])' = PeriodOf(valid[k])
    BY <2>1 DEF PeriodOf
  <2>3. QED  BY <2>1, <2>2, PartsUnchanged, ListUnchanged DEF IngestInv
<1>9. QED
  BY <1>1, <1>2, <1>3, <1>4, <1>5, <1>6, <1>7, <1>8 DEF IngestNext

(* and so in every state of the two stages.                                *)
LEMMA IngestInvHolds == IngestSpec => []IngestInv
BY IngestInit_IngestInv, IngestInv_Next, PTL DEF IngestSpec

(* Whatever is uploaded, the stage passes on the well-formed ids of the    *)
(* list, each once and in their order, or the list could be refused.       *)
THEOREM NoIdIsLost == IngestSpec => []IngestedExactly
<1>1. IngestInv => IngestedExactly
  <2> SUFFICES ASSUME IngestInv PROVE IngestedExactly
    OBVIOUS
  <2> DEFINE First(u) == CHOOSE i \in Naming(u) : \A j \in Naming(u) : i <= j
  <2>1. {u \in WellFormed : Naming(u) # {}} = Named
    BY DEF Named
  <2>2. ASSUME NEW u, Naming(u) # {}
        PROVE  First(u) \in Naming(u) /\ \A j \in Naming(u) : First(u) <= j
    <3>1. Naming(u) \subseteq Nat
      BY RowFacts DEF Naming
    <3>2. \E i \in Naming(u) : \A j \in Naming(u) : i <= j
      BY <2>2, <3>1, LeastNat
    <3>3. QED  BY <3>2
  <2>3. ASSUME at \in {"ingested", "extract"}
        PROVE  /\ ToSet(valid) = Named
               /\ \A i, j \in DOMAIN valid :
                     i < j => First(valid[i]) < First(valid[j])
    <3>1. line = Len(file) + 1 /\ taken = Len(ids)
      BY <2>3 DEF IngestInv
    <3>2. DOMAIN valid = 1 .. Len(valid)
      BY DEF IngestInv, Selected
    <3>3. /\ {valid[a] : a \in 1 .. Len(valid)} = Named
          /\ \A a, b \in 1 .. Len(valid) : a < b =>
                \E i \in Naming(valid[a]) : \A j \in Naming(valid[b]) : i < j
      BY <3>1, ValidIsNamed
    <3>4. ASSUME NEW a \in 1 .. Len(valid), NEW b \in 1 .. Len(valid), a < b
          PROVE  First(valid[a]) < First(valid[b])
      <4>1. PICK i \in Naming(valid[a]) : \A j \in Naming(valid[b]) : i < j
        BY <3>3, <3>4
      <4>2. valid[b] \in Named
        BY <3>3
      <4>3. PICK x \in Naming(valid[a]) : x = First(valid[a]) /\ x <= i
        BY <2>2, <4>1
      <4>4. PICK y \in Naming(valid[b]) : y = First(valid[b])
        BY <2>2, <4>2 DEF Named
      <4>5. i \in Nat /\ x \in Nat /\ y \in Nat
        BY RowFacts DEF Naming
      <4>6. QED  BY <4>1, <4>3, <4>4, <4>5
    <3>5. QED  BY <3>2, <3>3, <3>4 DEF ToSet
  <2>4. at = "raised" => Refusable
    BY DEF IngestInv
  <2>5. QED  BY <2>1, <2>3, <2>4 DEF IngestedExactly, Refusable
<1>2. QED  BY <1>1, IngestInvHolds, PTL

(* Every user is extracted for a period of its own: of its last dated row, *)
(* completed by the event or the default.                                  *)
THEOREM PeriodsAreOwn == IngestSpec => []PeriodIsOwn
<1>1. IngestInv => PeriodIsOwn
  <2> SUFFICES ASSUME IngestInv, NEW k \in DOMAIN asked
               PROVE  LET mine == {i \in Naming(valid[k]) : Dated(i)}
                          last == CHOOSE i \in mine : \A j \in mine : j <= i
                          default == IF given.from = NoDate
                                        /\ \A i \in DOMAIN file :
                                              file[i].id # NoId => ~Dated(i)
                                     THEN [from |-> WindowStart, to |-> Today]
                                     ELSE [given EXCEPT !.from =
                                                           FirstDate(@, LastMonths)]
                      IN  asked[k] =
                            IF mine = {} THEN default
                            ELSE [from |-> FirstDate(DateText(file[last].from),
                                                     default.from),
                                  to |-> FirstDate(DateText(file[last].to),
                                                   default.to)]
    BY DEF PeriodIsOwn
  <2> DEFINE mine == {i \in Naming(valid[k]) : Dated(i)}
             last == CHOOSE i \in mine : \A j \in mine : j <= i
             undated == \A i \in DOMAIN file : file[i].id # NoId => ~Dated(i)
             default == IF given.from = NoDate /\ undated
                        THEN [from |-> WindowStart, to |-> Today]
                        ELSE [given EXCEPT !.from = FirstDate(@, LastMonths)]
  <2>1. PICK n \in Nat : DOMAIN asked = 1 .. n /\ n = Len(asked) /\ k \in 1 .. n
    BY DEF IngestInv
  <2>2. at = "extract"
    BY <2>1 DEF IngestInv
  <2>3. /\ line = Len(file) + 1 /\ taken = Len(ids) /\ n <= Len(valid)
        /\ asked[k] = PeriodOf(valid[k])
        /\ global = IF given.from = NoDate /\ AllUndated
                    THEN [from |-> WindowStart, to |-> Today] ELSE given
    BY <2>1, <2>2 DEF IngestInv
  <2>4. PICK u \in Spellings : u = valid[k]
    <3>1. k \in 1 .. Len(valid) /\ valid \in Seq(WellFormed)
      BY <2>1, <2>3 DEF IngestInv, Selected
    <3>2. valid[k] \in WellFormed
      BY <3>1
    <3>3. QED  BY <3>2, IngestionAssumption
  <2>5. PICK m \in Nat : m = Len(file) /\ DOMAIN file = 1 .. m /\ line - 1 = m
    <3>1. PICK m \in Nat : m = Len(file) /\ DOMAIN file = 1 .. m
      BY RowFacts
    <3>2. line - 1 = m
      BY <2>3, <3>1
    <3>3. QED  BY <3>1, <3>2
  <2>6. \A v : Dating(v) = {i \in Naming(v) : Dated(i)}
    BY <2>5 DEF Dating, Naming
  <2>7. AllUndated <=> undated
    <3>1. ASSUME undated PROVE AllUndated
      <4>1. \A v : Dating(v) = {}
        BY <2>6, <3>1 DEF Naming
      <4>2. QED  BY <4>1 DEF AllUndated, IngestInv, OwnDates
    <3>2. ASSUME AllUndated, NEW i \in DOMAIN file, file[i].id # NoId, Dated(i)
          PROVE  FALSE
      <4>1. PICK v \in Spellings : v = Lower[file[i].id]
        BY <3>2, RowFacts
      <4>2. i \in Dating(v)
        BY <2>6, <3>2, <4>1 DEF Naming
      <4>3. PICK j \in Dating(v) : dates[v] = RowPeriod(j)
        BY <4>2 DEF IngestInv, OwnDates
      <4>4. j \in DOMAIN file /\ Dated(j)
        BY <4>3, <2>6 DEF Naming
      <4>5. RowPeriod(j) # Undated
        BY <4>4, RowFacts
      <4>6. QED  BY <3>2, <4>3, <4>5 DEF AllUndated
    <3>3. QED  BY <3>1, <3>2
  <2>8. /\ default.from = FirstDate(global.from, LastMonths)
        /\ default.to = global.to
        /\ default = [from |-> default.from, to |-> default.to]
    <3>1. PICK f, t : given = [from |-> f, to |-> t]
      BY IngestionAssumption DEF IngestInv
    <3>2. CASE given.from = NoDate /\ undated
      <4>1. FirstDate(WindowStart, LastMonths) = WindowStart
        BY IngestionAssumption DEF FirstDate
      <4>2. global = [from |-> WindowStart, to |-> Today] /\ default = global
        BY <2>3, <2>7, <3>2
      <4>3. QED  BY <4>1, <4>2
    <3>3. CASE ~(given.from = NoDate /\ undated)
      <4>1. global = [from |-> f, to |-> t]
        BY <2>3, <2>7, <3>1, <3>3
      <4>2. default = [from |-> FirstDate(f, LastMonths), to |-> t]
        BY <3>1, <3>3
      <4> HIDE DEF default
      <4>3. QED  BY <4>1, <4>2
    <3>4. QED  BY <3>2, <3>3
  <2> HIDE DEF default
  <2>9. asked[k] = [from |-> FirstDate(dates[u].from, default.from),
                    to |-> FirstDate(dates[u].to, default.to)]
    BY <2>3, <2>4, <2>8 DEF PeriodOf
  <2>10. mine = Dating(u)
    BY <2>4, <2>6
  <2>11. CASE mine = {}
    <3>1. dates[u] = Undated
      BY <2>10, <2>11 DEF IngestInv, OwnDates
    <3>2. asked[k] = [from |-> default.from, to |-> default.to]
      BY <2>9, <3>1 DEF Undated, FirstDate
    <3>3. asked[k] = default
      BY <2>8, <3>2
    <3>4. QED  BY <2>11, <3>3 DEF default
  <2>12. CASE mine # {}
    <3>1. PICK i \in mine : dates[u] = RowPeriod(i) /\ \A j \in mine : j <= i
      BY <2>10, <2>12 DEF IngestInv, OwnDates
    <3>2. \A j \in mine : j \in Nat
      BY <2>5 DEF Naming
    <3>3. last = i
      <4>1. last \in mine /\ \A j \in mine : j <= last
        BY <3>1
      <4>2. PICK l \in mine : l = last
        BY <4>1
      <4> HIDE DEF last, mine
      <4>3. l <= i /\ i <= l
        BY <3>1, <4>1, <4>2
      <4>4. QED  BY <3>2, <4>2, <4>3
    <3>4. asked[k] = [from |-> FirstDate(DateText(file[last].from), default.from),
                      to |-> FirstDate(DateText(file[last].to), default.to)]
      <4>1. /\ dates[u].from = DateText(file[i].from)
            /\ dates[u].to = DateText(file[i].to)
        BY <3>1 DEF RowPeriod
      <4> HIDE DEF last, mine
      <4>2. QED  BY <2>9, <3>3, <4>1
    <3>5. QED  BY <2>12, <3>4 DEF default
  <2>13. QED  BY <2>11, <2>12
<1>2. QED  BY <1>1, IngestInvHolds, PTL

-----------------------------------------------------------------------------
(* Explanations                                                            *)

(* What a text may be, and the predictions of the first n that need one.   *)
Texts == {Failed} \cup {Shap(i) : i \in Nat}

NeededIn(n) == {i \in 1 .. n : Tier(i) # "Low"}

Present(s) == {i \in 1 .. Len(s) : s[i] # Failed}

(* Every text is the entry of its own position and only where one is       *)
(* needed.                                                                 *)
InPlace(s) ==
    \A i \in Present(s) : Tier(i) # "Low" /\ s[i] = Shap(i)

(* The counters say how many of the predictions so far have a text, and    *)
(* how many of those that need one have not.                               *)
ExplInv ==
    /\ batch \in Batches
    /\ texts \in Seq(Texts)
    /\ Len(texts) <= Len(batch.tiers)
    /\ bpc \in {"loop", "call", "put", "returned", "failed"}
    /\ good \in Nat /\ bad \in Nat
    /\ InPlace(texts)
    /\ good = Cardinality(Present(texts))
    /\ good + bad = Cardinality(NeededIn(Len(texts)))
    /\ bpc = "call" =>
          /\ Current <= Len(batch.tiers)
          /\ Tier(Current) # "Low" /\ Shap(Current) # Failed
    /\ bpc \in {"put", "returned"} =>
          Len(texts) = Len(batch.tiers) /\ saved = texts

(* One more text: one more that is there, unless it is Failed.             *)
LEMMA OnePresentMore ==
    ASSUME NEW T, NEW s \in Seq(T), NEW x \in T
    PROVE  /\ Cardinality(Present(s)) \in Nat
           /\ Cardinality(Present(Append(s, x))) =
                Cardinality(Present(s)) + (IF x = Failed THEN 0 ELSE 1)
           /\ Present(Append(s, x)) =
                Present(s) \cup (IF x = Failed THEN {} ELSE {Len(s) + 1})
           /\ Append(s, x)[Len(s) + 1] = x
<1>1. PICK n \in Nat : n = Len(s)
  OBVIOUS
<1>2. /\ Len(Append(s, x)) = n + 1
      /\ \A i \in 1 .. n : Append(s, x)[i] = s[i]
      /\ Append(s, x)[n + 1] = x
  BY <1>1
<1>3. IsFiniteSet(Present(s))
  <2>1. IsFiniteSet(1 .. n)
    BY FS_Interval, n \in Int, 1 \in Int
  <2> QED
    BY <2>1, <1>1, FS_Subset DEF Present
<1>4. Present(Append(s, x)) =
        Present(s) \cup (IF x = Failed THEN {} ELSE {n + 1})
  BY <1>1, <1>2 DEF Present
<1>5. n + 1 \notin Present(s)
  BY <1>1 DEF Present
<1>6. Cardinality(Present(s)) \in Nat
  BY <1>3, FS_CardinalityType
<1>7. CASE x = Failed
  <2>1. Present(Append(s, x)) = Present(s)
    BY <1>4, <1>7
  <2>2. \A i \in Present(s) : i \in 1 .. n
    BY <1>1 DEF Present
  <2>3. Cardinality(Present(Append(s, x))) = Cardinality(Present(s)) + 0
    BY <2>1, <1>6
  <2> QED
    BY <1>1, <1>2, <1>4, <1>6, <1>7, <2>2, <2>3
<1>8. CASE x # Failed
  <2>1. Present(Append(s, x)) = Present(s) \cup {n + 1}
    BY <1>4, <1>8
  <2>2. Cardinality(Present(Append(s, x))) = Cardinality(Present(s)) + 1
    BY <2>1, <1>3, <1>5, FS_AddElement
  <2> QED
    BY <1>1, <1>2, <1>4, <1>6, <1>8, <2>2 DEF Present
<1> QED
  BY <1>7, <1>8

(* And the texts before stay what they are.                                *)
LEMMA TextsStay ==
    ASSUME NEW T, NEW s \in Seq(T), NEW x \in T
    PROVE  \A i \in Present(s) : Append(s, x)[i] = s[i]
BY DEF Present

(* One more prediction: one more that needs a text, unless it is Low.      *)
LEMMA OneNeededMore ==
    ASSUME NEW n \in Nat
    PROVE  /\ Cardinality(NeededIn(n)) \in Nat
           /\ Cardinality(NeededIn(n + 1)) =
                Cardinality(NeededIn(n)) + (IF Tier(n + 1) = "Low" THEN 0 ELSE 1)
<1>1. IsFiniteSet(NeededIn(n))
  <2>1. IsFiniteSet(1 .. n)
    BY FS_Interval, n \in Int, 1 \in Int
  <2> QED
    BY <2>1, FS_Subset DEF NeededIn
<1>2. NeededIn(n + 1) =
        NeededIn(n) \cup (IF Tier(n + 1) = "Low" THEN {} ELSE {n + 1})
  BY DEF NeededIn
<1>3. n + 1 \notin NeededIn(n)
  BY DEF NeededIn
<1>4. Cardinality(NeededIn(n)) \in Nat
  BY <1>1, FS_CardinalityType
<1>5. CASE Tier(n + 1) = "Low"
  BY <1>2, <1>4, <1>5
<1>6. CASE Tier(n + 1) # "Low"
  <2>1. NeededIn(n + 1) = NeededIn(n) \cup {n + 1}
    BY <1>2, <1>6
  <2> QED
    BY <2>1, <1>1, <1>3, <1>4, <1>6, FS_AddElement
<1> QED
  BY <1>5, <1>6

(* A try begins with nothing.                                              *)
LEMMA EmptyCounts ==
    /\ <<>> \in Seq(Texts) /\ Len(<<>>) = 0
    /\ Present(<<>>) = {} /\ NeededIn(0) = {} /\ Cardinality({}) = 0
BY FS_EmptySet DEF Present, NeededIn

(* Taking a text for the current prediction, with the counters that go     *)
(* with it, leaves the account in order.                                   *)
LEMMA TakeKeepsAccount ==
    ASSUME ExplInv, Current <= Len(batch.tiers),
           NEW x \in Texts, Take(x), batch' = batch,
           x # Failed => Tier(Current) # "Low" /\ x = Shap(Current),
           good' = good + (IF x = Failed THEN 0 ELSE 1),
           bad' = bad + (IF x = Failed /\ Tier(Current) # "Low" THEN 1 ELSE 0),
           bpc' = "loop"
    PROVE  ExplInv'
<1>1. PICK n \in Nat : n = Len(texts) /\ Current = n + 1
  BY DEF ExplInv, Current
<1>2. texts' = Append(texts, x)
  BY DEF Take
<1>3. PICK t \in Seq(Texts) : t = texts /\ texts' = Append(t, x)
  BY <1>2 DEF ExplInv
<1>4. /\ texts' \in Seq(Texts)
      /\ Len(texts') = n + 1
  BY <1>1, <1>3
<1>5. Texts' = Texts
  BY DEF Texts, Shap
<1>5a. \A i \in Present(t) : Append(t, x)[i] = t[i]
  BY TextsStay
<1>6. InPlace(texts)'
  <2>1. SUFFICES ASSUME NEW i \in Present(texts')
                 PROVE  Tier(i) # "Low" /\ texts'[i] = Shap(i)
    BY DEF InPlace, Present, Tier, Shap
  <2>2. CASE i \in Present(t)
    <3>1. Append(t, x)[i] = t[i]
      BY <2>2, <1>5a
    <3> QED
      BY <2>2, <3>1, <1>3 DEF ExplInv, InPlace
  <2>3. CASE i \notin Present(t)
    <3>1. x # Failed /\ i = n + 1 /\ texts'[i] = x
      BY <1>1, <1>3, <2>1, <2>3, OnePresentMore
    <3> QED
      BY <3>1, <1>1
  <2> QED
    BY <2>2, <2>3
<1>7. good' = Cardinality(Present(texts'))
  BY <1>3, OnePresentMore DEF ExplInv
<1>8. good' + bad' = Cardinality(NeededIn(n + 1))
  <2>1. Cardinality(NeededIn(n + 1)) =
          good + bad + (IF Tier(n + 1) = "Low" THEN 0 ELSE 1)
    BY <1>1, OneNeededMore DEF ExplInv
  <2> QED
    BY <1>1, <2>1 DEF ExplInv
<1>9. NeededIn(n + 1)' = NeededIn(n + 1)
  BY DEF NeededIn, Tier
<1>10. Len(texts') <= Len(batch.tiers)
  BY <1>1, <1>4
<1>11. good' \in Nat /\ bad' \in Nat
  BY DEF ExplInv
<1>12. Present(texts)' = Present(texts')
  BY DEF Present
<1> QED
  BY <1>4, <1>5, <1>6, <1>7, <1>8, <1>9, <1>10, <1>11, <1>12 DEF ExplInv, NeededIn, Tier

(* A step that neither takes a text nor changes what has been counted      *)
(* leaves the account as it is.                                            *)
LEMMA AccountUnchanged ==
    ASSUME ExplInv, UNCHANGED <<batch, texts, good, bad>>
    PROVE  /\ (batch \in Batches /\ texts \in Seq(Texts))'
           /\ (Len(texts) <= Len(batch.tiers))'
           /\ (good \in Nat /\ bad \in Nat /\ InPlace(texts))'
           /\ (good = Cardinality(Present(texts)))'
           /\ (good + bad = Cardinality(NeededIn(Len(texts))))'
BY DEF ExplInv, Texts, Shap, InPlace, Present, Tier, NeededIn

(* The account is in order before the first prediction.                    *)
LEMMA ExplInit_ExplInv == ExplInit => ExplInv
<1> SUFFICES ASSUME ExplInit PROVE ExplInv
  OBVIOUS
<1>1. batch \in Batches /\ texts = <<>> /\ good = 0 /\ bad = 0 /\ bpc = "loop"
  BY DEF ExplInit
<1>2. Len(batch.tiers) \in Nat
  BY <1>1, ExplanationsAssumption DEF Batch
<1> QED
  BY <1>1, <1>2, EmptyCounts DEF ExplInv, InPlace

(* Every step keeps the account in order.                                  *)
LEMMA ExplInv_Next == ExplInv /\ [ExplNext]_explVars => ExplInv'
<1> SUFFICES ASSUME ExplInv, [ExplNext]_explVars PROVE ExplInv'
  OBVIOUS
<1>0. /\ Failed \in Texts
      /\ Shap(Current) \in Texts
      /\ Len(texts) \in Nat /\ Len(batch.tiers) \in Nat
      /\ Current = Len(texts) + 1
      /\ good \in Nat /\ bad \in Nat
  <2>1. batch \in Batches /\ texts \in Seq(Texts) /\ good \in Nat /\ bad \in Nat
    BY DEF ExplInv
  <2>2. Len(texts) \in Nat /\ Current = Len(texts) + 1 /\ Current \in Nat
    BY <2>1 DEF Current
  <2>3. Len(batch.tiers) \in Nat
    BY <2>1, ExplanationsAssumption DEF Batch
  <2>4. Failed \in Texts /\ Shap(Current) \in Texts
    BY <2>2 DEF Texts
  <2>5. QED  BY <2>1, <2>2, <2>3, <2>4
<1>1. CASE SkipLow
  <2>1. Take(Failed) /\ batch' = batch /\ good' = good + 0 /\ bad' = bad + 0
    BY <1>0, <1>1 DEF SkipLow
  <2> QED
    BY <1>0, <1>1, <2>1, TakeKeepsAccount DEF SkipLow, Looping
<1>2. CASE SkipUnexplained
  <2>1. Take(Failed) /\ batch' = batch /\ good' = good + 0 /\ bad' = bad + 1
    BY <1>0, <1>2 DEF SkipUnexplained
  <2> QED
    BY <1>0, <1>2, <2>1, TakeKeepsAccount DEF SkipUnexplained, Looping
<1>3. CASE BeginCalls
  <2>1. UNCHANGED <<batch, texts, good, bad>> /\ bpc' = "call"
    BY <1>3 DEF BeginCalls
  <2>2. /\ Current' = Current /\ Tier(Current)' = Tier(Current)
        /\ Shap(Current)' = Shap(Current)
    BY <2>1 DEF Current, Tier, Shap
  <2> QED
    BY <1>3, <2>1, <2>2, AccountUnchanged DEF ExplInv, BeginCalls, Looping
<1>4. CASE CallAnswers
  <2>1. /\ Take(Shap(Current)) /\ batch' = batch /\ Shap(Current) # Failed
        /\ good' = good + 1 /\ bad' = bad + 0 /\ bpc' = "loop"
        /\ Tier(Current) # "Low" /\ Current <= Len(batch.tiers)
    BY <1>0, <1>4 DEF CallAnswers, ExplInv
  <2> QED
    BY <1>0, <2>1, TakeKeepsAccount
<1>5. CASE CallFails /\ calls + 1 < MaxCalls
  <2>1. UNCHANGED <<batch, texts, good, bad, bpc, saved>>
    BY <1>5 DEF CallFails
  <2>2. /\ Current' = Current /\ Tier(Current)' = Tier(Current)
        /\ Shap(Current)' = Shap(Current)
    BY <2>1 DEF Current, Tier, Shap
  <2> QED
    BY <1>5, <2>1, <2>2, AccountUnchanged DEF ExplInv, CallFails
<1>6. CASE CallFails /\ ~(calls + 1 < MaxCalls)
  <2>1. /\ Take(Failed) /\ batch' = batch /\ bpc' = "loop"
        /\ good' = good + 0 /\ bad' = bad + 1
        /\ Tier(Current) # "Low" /\ Current <= Len(batch.tiers)
    BY <1>0, <1>6 DEF CallFails, ExplInv
  <2> QED
    BY <1>0, <2>1, TakeKeepsAccount
<1>7. CASE PutExplanations
  <2>1. /\ UNCHANGED <<batch, texts, good, bad>>
        /\ saved' = texts' /\ bpc' = "put"
        /\ Len(texts') = Len(batch'.tiers)
    BY <1>0, <1>7 DEF PutExplanations, ExplInv
  <2> QED
    BY <2>1, AccountUnchanged DEF ExplInv
<1>8. CASE BedrockReturns \/ UNCHANGED explVars
  <2>1. /\ UNCHANGED <<batch, texts, good, bad, saved>>
        /\ \/ bpc = "put" /\ bpc' = "returned"
           \/ bpc' = bpc
    BY <1>8 DEF BedrockReturns, explVars
  <2>2. /\ Current' = Current /\ Tier(Current)' = Tier(Current)
        /\ Shap(Current)' = Shap(Current)
    BY <2>1 DEF Current, Tier, Shap
  <2> QED
    BY <2>1, <2>2, AccountUnchanged DEF ExplInv
<1>9. CASE BedrockKilled \/ RebuildRaises
  <2>1. /\ texts' = <<>> /\ batch' = batch /\ good' = 0 /\ bad' = 0
        /\ bpc' \in {"loop", "failed"}
    BY <1>9 DEF BedrockKilled, RebuildRaises, StartOver
  <2>2. NeededIn(0)' = {} /\ (Present(<<>>))' = {}
    BY EmptyCounts DEF NeededIn, Present
  <2>3. Texts' = Texts
    BY <2>1 DEF Texts, Shap
  <2>4. InPlace(texts)'
    BY <2>1, EmptyCounts DEF InPlace, Present
  <2>5. Present(texts)' = {} /\ NeededIn(Len(texts))' = {}
    BY <2>1, EmptyCounts DEF Present, NeededIn
  <2>6. /\ batch' \in Batches /\ texts' \in Seq(Texts)
        /\ Len(texts') <= Len(batch'.tiers)
    BY <1>0, <2>1, EmptyCounts DEF ExplInv
  <2>7. /\ good' = Cardinality(Present(texts)')
        /\ good' + bad' = Cardinality(NeededIn(Len(texts))')
        /\ good' \in Nat /\ bad' \in Nat
    <3>1. Cardinality(Present(texts)') = 0 /\ Cardinality(NeededIn(Len(texts))') = 0
      BY <2>5, EmptyCounts, Zenon
    <3> QED
      BY <2>1, <3>1
  <2>8. bpc' \notin {"call", "put", "returned"}
    BY <2>1
  <2> QED
    BY <2>1, <2>3, <2>4, <2>6, <2>7, <2>8 DEF ExplInv
<1> QED
  BY <1>1, <1>2, <1>3, <1>4, <1>5, <1>6, <1>7, <1>8, <1>9 DEF ExplNext, ExplStep

(* Whatever is killed and whatever fails, a stage that returns has an      *)
(* entry for every prediction, and its counters are those of the object.   *)
THEOREM CountersAddUp == ExplSpec => []ExplanationsAccountedFor
<1>1. ExplInv => ExplanationsAccountedFor
  <2> SUFFICES ASSUME ExplInv, bpc = "returned" PROVE ExplanationsAccountedFor
    BY DEF ExplanationsAccountedFor
  <2>1. PICK n \in Nat : n = Len(batch.tiers) /\ DOMAIN batch.tiers = 1 .. n
    BY ExplanationsAssumption DEF ExplInv, Batch
  <2>2. saved = texts /\ Len(saved) = n /\ DOMAIN saved = 1 .. n
    BY <2>1 DEF ExplInv
  <2>3. {i \in DOMAIN batch.tiers : Tier(i) # "Low"} = NeededIn(n)
    BY <2>1 DEF NeededIn
  <2>4. {i \in DOMAIN saved : saved[i] # Failed} = Present(texts)
    BY <2>2 DEF Present
  <2>5. Present(texts) \subseteq 1 .. n
    BY <2>2 DEF Present
  <2>6. \A i \in Present(texts) : i \in NeededIn(n) /\ saved[i] = Shap(i)
    BY <2>2, <2>5 DEF ExplInv, InPlace, NeededIn
  <2>7. good = Cardinality(Present(texts)) /\ good + bad = Cardinality(NeededIn(n))
    BY <2>2 DEF ExplInv
  <2> QED
    BY <2>1, <2>2, <2>3, <2>4, <2>6, <2>7 DEF ExplanationsAccountedFor
<1> QED
  BY <1>1, ExplInit_ExplInv, ExplInv_Next, PTL DEF ExplSpec

-----------------------------------------------------------------------------
(* Feature engineering                                                     *)

(* What has been computed is what compute() makes of the sessions.         *)
EngineInv ==
    /\ sessions \in Subscribers
    /\ computed = "none" => Len(sessions) < MinSessions
    /\ computed = "raised" => Unfit \/ ~Accepted(Percentages)
    /\ computed = "vector" =>
          vector = [trend |-> FrequencyTrend, pct |-> Percentages]
    /\ computed \in {"no", "none", "raised", "vector"}

(* It holds whatever the sessions are.                                     *)
LEMMA EngineInvHolds == EngineSpec => []EngineInv
<1>1. EngineInit => EngineInv
  BY DEF EngineInit, EngineInv
<1>2. EngineInv /\ [EngineNext]_engineVars => EngineInv'
  <2> SUFFICES ASSUME EngineInv, [EngineNext]_engineVars PROVE EngineInv'
    OBVIOUS
  <2>1. sessions' = sessions
    BY DEF EngineNext, TooFew, ComputeRaises, Compute, engineVars
  <2>2. /\ FrequencyTrend' = FrequencyTrend
        /\ Percentages' = Percentages
        /\ Accepted(Percentages)' = Accepted(Percentages)
        /\ Unfit' = Unfit
    <3>1. FrequencyTrend' = FrequencyTrend
      BY <2>1 DEF FrequencyTrend, LongEnough, Times, Earliest, Latest, Weeks, Week,
                  TwiceRate, SessionsIn, FirstWeeks, LastWeeks
    <3>2. Percentages' = Percentages
      BY <2>1 DEF Percentages, PercentOf, Known, Count, Total
    <3>3. Unfit' = Unfit
      BY <2>1 DEF Unfit
    <3>4. QED  BY <3>1, <3>2, <3>3 DEF Accepted, Total
  <2>3. CASE TooFew
    BY <2>1, <2>3 DEF TooFew, EngineInv
  <2>4. CASE ComputeRaises
    BY <2>1, <2>2, <2>4 DEF ComputeRaises, EngineInv
  <2>5. CASE Compute
    BY <2>1, <2>2, <2>5 DEF Compute, EngineInv
  <2>6. CASE UNCHANGED engineVars
    BY <2>1, <2>2, <2>6 DEF engineVars, EngineInv
  <2>7. QED  BY <2>3, <2>4, <2>5, <2>6 DEF EngineNext
<1>3. QED  BY <1>1, <1>2, PTL DEF EngineSpec

(* All that matters of the unit: a quarter of the whole is not rounded.    *)
LEMMA UnitFacts ==
    Hundred \in Nat /\ Hundred \div 4 \in Nat /\ 4 * (Hundred \div 4) = Hundred
BY SMT DEF Hundred

(* A share rounded to the nearest unit lies within half a unit of it.      *)
LEMMA RoundedShare ==
    ASSUME NEW n \in Nat, NEW of \in Nat \ {0}, n <= of
    PROVE  /\ Percent(n, of) \in 0 .. Hundred
           /\ (2 * of) * Percent(n, of) <= 2 * (Hundred * n) + of
           /\ 2 * (Hundred * n) + of < (2 * of) * Percent(n, of) + 2 * of
<1>1. PICK h \in Nat : h = Hundred
  BY UnitFacts
<1>2. PICK x \in Nat : x = h * n
  BY SMT
<1>3. PICK y \in Nat : y = h * of
  BY SMT
<1>4. PICK d \in Nat \ {0} : d = 2 * of
  BY SMT
<1>5. x <= y
  <2>1. h * n <= h * of
    BY SMT
  <2>2. QED  BY <2>1, <1>2, <1>3
<1>6. PICK q : q = (2 * x + of) \div d
  OBVIOUS
<1>7. q = Percent(n, of)
  <2>1. 2 * h * n = 2 * x
    BY <1>2, SMT
  <2>2. QED  BY <2>1, <1>1, <1>4, <1>6 DEF Percent
<1>8. q \in Nat /\ d * q <= 2 * x + of /\ 2 * x + of < d * q + d
  <2>1. 2 * x + of \in Nat
    OBVIOUS
  <2>2. QED  BY <1>6, <2>1, Division
<1>9. q <= h
  <2>1. SUFFICES ASSUME q >= h + 1 PROVE FALSE
    BY <1>8
  <2>2. d * (h + 1) <= d * q
    BY <1>8, <2>1, SMT
  <2>3. d * (h + 1) = 2 * y + d
    BY <1>3, <1>4, SMT
  <2>4. PICK z \in Nat : z = d * q
    BY <1>8, SMT
  <2>5. QED  BY <1>4, <1>5, <1>8, <2>2, <2>3, <2>4
<1>10. QED  BY <1>1, <1>2, <1>4, <1>7, <1>8, <1>9

(* Four rounded shares of a whole are the whole but for two units.         *)
LEMMA FourShares ==
    ASSUME NEW a \in Nat, NEW b \in Nat, NEW c \in Nat, NEW d \in Nat,
           NEW of \in Nat \ {0}, of = a + b + c + d
    PROVE  Percent(a, of) + Percent(b, of) + Percent(c, of) + Percent(d, of)
              \in Hundred - 2 .. Hundred + 2
<1>0. PICK h \in Nat : h = Hundred
  BY UnitFacts
<1>1. a <= of /\ b <= of /\ c <= of /\ d <= of
  OBVIOUS
<1>2. PICK p \in 0 .. h : /\ p = Percent(a, of)
                          /\ (2 * of) * p <= 2 * (h * a) + of
                          /\ 2 * (h * a) + of < (2 * of) * p + 2 * of
  BY <1>0, <1>1, RoundedShare
<1>3. PICK q \in 0 .. h : /\ q = Percent(b, of)
                          /\ (2 * of) * q <= 2 * (h * b) + of
                          /\ 2 * (h * b) + of < (2 * of) * q + 2 * of
  BY <1>0, <1>1, RoundedShare
<1>4. PICK r \in 0 .. h : /\ r = Percent(c, of)
                          /\ (2 * of) * r <= 2 * (h * c) + of
                          /\ 2 * (h * c) + of < (2 * of) * r + 2 * of
  BY <1>0, <1>1, RoundedShare
<1>5. PICK s \in 0 .. h : /\ s = Percent(d, of)
                          /\ (2 * of) * s <= 2 * (h * d) + of
                          /\ 2 * (h * d) + of < (2 * of) * s + 2 * of
  BY <1>0, <1>1, RoundedShare
<1>6. PICK sum \in Nat : sum = p + q + r + s
  OBVIOUS
<1>7. (2 * of) * sum = (2 * of) * p + (2 * of) * q + (2 * of) * r + (2 * of) * s
  BY <1>6, SMT
<1>8. h * a + h * b + h * c + h * d = h * of
  BY SMT
<1>9. /\ (2 * of) * (h + 2) = 2 * (h * of) + 4 * of
      /\ (2 * of) * (h - 2) = 2 * (h * of) - 4 * of
  BY SMT
<1>10. /\ (2 * of) * sum <= (2 * of) * (h + 2)
       /\ (2 * of) * (h - 2) <= (2 * of) * sum
  <2>1. /\ h * a \in Nat /\ h * b \in Nat /\ h * c \in Nat /\ h * d \in Nat
        /\ h * of \in Nat
        /\ (2 * of) * p \in Nat /\ (2 * of) * q \in Nat
        /\ (2 * of) * r \in Nat /\ (2 * of) * s \in Nat
    BY SMT
  <2>2. QED  BY <1>2, <1>3, <1>4, <1>5, <1>7, <1>8, <1>9, <2>1
<1>11. 2 * of \in Nat \ {0} /\ h + 2 \in Int /\ h - 2 \in Int /\ sum \in Int
  OBVIOUS
<1>12. sum <= h + 2 /\ h - 2 <= sum
  <2>1. sum <= h + 2
    BY <1>10, <1>11, Cancel
  <2>2. h - 2 <= sum
    BY <1>10, <1>11, Cancel
  <2>3. QED  BY <2>1, <2>2
<1>13. QED  BY <1>0, <1>2, <1>3, <1>4, <1>5, <1>6, <1>12

(* How many sessions there are of a type.                                  *)
LEMMA CountType ==
    ASSUME EngineInv, NEW c
    PROVE  Count(c) \in Nat
<1>1. PICK n \in Nat : DOMAIN sessions = 1 .. n
  BY EngineerAssumption DEF EngineInv
<1>2. IsFiniteSet(1 .. n)
  BY FS_Interval, 1 \in Int, n \in Int
<1>3. IsFiniteSet({i \in DOMAIN sessions : sessions[i].content = c})
  BY <1>1, <1>2, FS_Subset
<1>4. QED  BY <1>3, FS_CardinalityType DEF Count

(* The percentages of content, rounded each for itself, always pass the    *)
(* validator of the vector.                                                *)
LEMMA PercentagesAccepted ==
    ASSUME EngineInv
    PROVE  /\ Accepted(Percentages)
           /\ \A c \in ContentTypes : Percentages[c] \in 0 .. Hundred
<1>1. /\ Percentages["EPISODE"] = PercentOf("EPISODE")
      /\ Percentages["SPORT"] = PercentOf("SPORT")
      /\ Percentages["LIVE"] = PercentOf("LIVE")
      /\ Percentages["SHOW"] = PercentOf("SHOW")
  BY DEF Percentages, ContentTypes
<1>2. PICK a \in Nat, b \in Nat, c \in Nat, d \in Nat :
         /\ a = Count("EPISODE") /\ b = Count("SPORT")
         /\ c = Count("LIVE") /\ d = Count("SHOW")
  BY CountType
<1>3. Known = a + b + c + d
  BY <1>2 DEF Known, Total, ContentTypes
<1>4. CASE Known > 0
  <2>1. PICK of \in Nat \ {0} : of = Known /\ of = a + b + c + d
    BY <1>3, <1>4, SMT
  <2>2. /\ Percentages["EPISODE"] = Percent(a, of)
        /\ Percentages["SPORT"] = Percent(b, of)
        /\ Percentages["LIVE"] = Percent(c, of)
        /\ Percentages["SHOW"] = Percent(d, of)
    BY <1>1, <1>2, <1>4, <2>1 DEF PercentOf
  <2>3. a <= of /\ b <= of /\ c <= of /\ d <= of
    BY <2>1, SMT
  <2>4. /\ Percent(a, of) \in 0 .. Hundred /\ Percent(b, of) \in 0 .. Hundred
        /\ Percent(c, of) \in 0 .. Hundred /\ Percent(d, of) \in 0 .. Hundred
    BY <2>3, RoundedShare
  <2>5. Percent(a, of) + Percent(b, of) + Percent(c, of) + Percent(d, of)
           \in Hundred - 2 .. Hundred + 2
    BY <2>1, FourShares
  <2>6. Total(Percentages) - Hundred \in -100 .. 100
    <3>1. PICK p \in Int, q \in Int, r \in Int, s \in Int, h \in Nat :
             /\ p = Percent(a, of) /\ q = Percent(b, of)
             /\ r = Percent(c, of) /\ s = Percent(d, of) /\ h = Hundred
      BY <2>4, UnitFacts
    <3>2. p + q + r + s \in h - 2 .. h + 2
      BY <3>1, <2>5
    <3>3. Total(Percentages) = p + q + r + s
      BY <3>1, <2>2 DEF Total
    <3>4. p + q + r + s - h \in -100 .. 100
      BY <3>2
    <3>5. PICK t \in Int : t = Total(Percentages) /\ t = p + q + r + s
      BY <3>3
    <3>6. t - h \in -100 .. 100
      BY <3>4, <3>5
    <3>7. Total(Percentages) - Hundred = t - h
      BY <3>1, <3>5
    <3>8. QED  BY <3>6, <3>7
  <2>7. QED  BY <2>2, <2>4, <2>6 DEF Accepted, ContentTypes
<1>5. CASE ~(Known > 0)
  <2>1. PICK quarter \in Nat : quarter = Hundred \div 4
    BY UnitFacts
  <2>2. /\ Percentages["EPISODE"] = quarter /\ Percentages["SPORT"] = quarter
        /\ Percentages["LIVE"] = quarter /\ Percentages["SHOW"] = quarter
    BY <1>1, <1>5, <2>1 DEF PercentOf
  <2>3. 4 * quarter = Hundred /\ Hundred \in Nat
    BY <2>1, UnitFacts
  <2>4. Total(Percentages) - Hundred = 0
    BY <2>2, <2>3 DEF Total
  <2>5. quarter \in 0 .. Hundred
    BY <2>3
  <2>6. QED  BY <2>2, <2>4, <2>5 DEF Accepted, ContentTypes
<1>6. QED  BY <1>4, <1>5

(* Whoever has sessions enough that compute() can work with has a vector.  *)
THEOREM RoundingIsHarmless == EngineSpec => []NobodyLostToRounding
<1>1. EngineInv => NobodyLostToRounding
  <2> SUFFICES ASSUME EngineInv, computed # "no", Len(sessions) >= MinSessions, ~Unfit
               PROVE  /\ computed = "vector"
                      /\ \A c \in ContentTypes : vector.pct[c] \in 0 .. Hundred
    BY DEF NobodyLostToRounding
  <2>1. PICK n \in Nat : n = Len(sessions)
    BY EngineerAssumption DEF EngineInv
  <2>2. computed = "vector"
    <3>1. computed # "none"
      BY <2>1, EngineerAssumption DEF EngineInv
    <3>2. computed # "raised"
      BY PercentagesAccepted DEF EngineInv
    <3>3. QED  BY <3>1, <3>2 DEF EngineInv
  <2>3. vector.pct = Percentages
    BY <2>2 DEF EngineInv
  <2>4. QED  BY <2>2, <2>3, PercentagesAccepted
<1>2. QED  BY <1>1, EngineInvHolds, PTL

(* A set with two different members in it has at least two, and one within *)
(* a single point at most one.                                             *)
LEMMA AtLeastTwo ==
    ASSUME NEW S, IsFiniteSet(S), NEW a \in S, NEW b \in S, a # b
    PROVE  ~(Cardinality(S) < 2) /\ Cardinality(S) \in Nat
<1>1. IsFiniteSet({a}) /\ Cardinality({a}) = 1
  BY FS_Singleton
<1>2. {a, b} = {a} \cup {b} /\ b \notin {a}
  OBVIOUS
<1>3. Cardinality({a, b}) = 2
  BY <1>1, <1>2, FS_AddElement
<1>4. {a, b} \subseteq S
  OBVIOUS
<1>5. Cardinality({a, b}) <= Cardinality(S)
  BY <1>4, FS_Subset
<1>6. Cardinality(S) \in Nat
  BY FS_CardinalityType
<1>7. QED  BY <1>3, <1>5, <1>6

(* A set within a singleton has less than two members.                     *)
LEMMA AtMostOne ==
    ASSUME NEW a, NEW S, S \subseteq {a}
    PROVE  Cardinality(S) < 2
<1>1. CASE S = {}
  BY <1>1, FS_EmptySet
<1>2. CASE S = {a}
  <2>1. Cardinality({a}) = 1
    BY FS_Singleton
  <2>2. QED  BY <1>2, <2>1
<1>3. QED  BY <1>1, <1>2

(* The first two and the last two of the numbers up to m, if the numbers   *)
(* at the end are among them.                                              *)
LEMMA TwoFirst ==
    ASSUME NEW m \in Nat, NEW W, W \subseteq 0 .. m, 0 \in W, 1 \in W
    PROVE  /\ {w \in W : Cardinality({v \in W : v < w}) < 2} = {0, 1}
           /\ ~(Cardinality(W) < 2)
<1>1. IsFiniteSet(0 .. m)
  BY FS_Interval, 0 \in Int, m \in Int
<1>2. IsFiniteSet(W)
  BY <1>1, FS_Subset
<1>3. ASSUME NEW w \in W, w \notin {0, 1}
      PROVE  ~(Cardinality({v \in W : v < w}) < 2)
  <2>1. IsFiniteSet({v \in W : v < w})
    BY <1>2, FS_Subset
  <2>2. 0 \in {v \in W : v < w} /\ 1 \in {v \in W : v < w}
    BY <1>3
  <2>3. QED  BY <2>1, <2>2, AtLeastTwo
<1>4. ASSUME NEW w \in {0, 1}
      PROVE  Cardinality({v \in W : v < w}) < 2
  <2>1. \A v \in W : v < w => v = 0
    <3>1. \A v \in W : v \in Nat
      OBVIOUS
    <3>2. QED  BY <3>1
  <2>2. QED  BY <2>1, AtMostOne
<1>5. ~(Cardinality(W) < 2)
  BY <1>2, AtLeastTwo, 0 # 1
<1>6. QED  BY <1>3, <1>4, <1>5

(* The two greatest of a set that holds m - 1 and m, its bound.            *)
LEMMA TwoLast ==
    ASSUME NEW m \in Nat \ {0}, NEW W, W \subseteq 0 .. m, m - 1 \in W, m \in W
    PROVE  {w \in W : Cardinality({v \in W : v > w}) < 2} = {m - 1, m}
<1>1. IsFiniteSet(0 .. m)
  BY FS_Interval, 0 \in Int, m \in Int
<1>2. IsFiniteSet(W)
  BY <1>1, FS_Subset
<1>3. ASSUME NEW w \in W, w \notin {m - 1, m}
      PROVE  ~(Cardinality({v \in W : v > w}) < 2)
  <2>1. IsFiniteSet({v \in W : v > w})
    BY <1>2, FS_Subset
  <2>2. m - 1 > w /\ m > w /\ m - 1 # m
    BY <1>3
  <2>3. m - 1 \in {v \in W : v > w} /\ m \in {v \in W : v > w}
    BY <2>2
  <2>4. QED  BY <2>1, <2>2, <2>3, AtLeastTwo
<1>4. ASSUME NEW w \in {m - 1, m}
      PROVE  Cardinality({v \in W : v > w}) < 2
  <2>1. \A v \in W : v > w => v = m
    <3>1. \A v \in W : v \in Nat /\ v <= m
      OBVIOUS
    <3>2. w = m \/ w = m - 1
      OBVIOUS
    <3>3. QED  BY <3>1, <3>2
  <2>2. QED  BY <2>1, AtMostOne
<1>5. QED  BY <1>3, <1>4

(* The times of a user's sessions have a first and a last.                 *)
LEMMA TimeFacts ==
    ASSUME EngineInv
    PROVE  /\ \A i \in DOMAIN sessions :
                 sessions[i].end # NoTime => sessions[i].end \in Times
           /\ Times \subseteq Nat
           /\ IsFiniteSet(DOMAIN sessions)
           /\ Times # {} => /\ Earliest \in Times /\ Latest \in Times
                           /\ \A d \in Times : Earliest <= d /\ d <= Latest
<1>1. PICK n \in Nat : DOMAIN sessions = 1 .. n
  BY EngineerAssumption DEF EngineInv
<1>2. \A i \in 1 .. n : sessions[i].end \in Nat \cup {NoTime}
  <2> DEFINE Session == [end : Nat \cup {NoTime}, zoned : BOOLEAN,
                        content : STRING, odd : BOOLEAN]
  <2>1. sessions \in Seq(Session)
    BY EngineerAssumption DEF EngineInv
  <2>2. \A i \in DOMAIN sessions : sessions[i] \in Session
    <3> HIDE DEF Session
    <3>1. QED  BY <2>1
  <2>3. \A i \in DOMAIN sessions : sessions[i].end \in Nat \cup {NoTime}
    BY <2>2
  <2>4. QED  BY <1>1, <2>3
<1>3. Times \subseteq Nat
  BY <1>1, <1>2 DEF Times
<1>4. PICK c \in Nat : \A d \in Times : d <= c
  <2> DEFINE f == [i \in 1 .. n |-> IF sessions[i].end = NoTime THEN 0
                                    ELSE sessions[i].end]
  <2>1. \A i \in 1 .. n : f[i] \in Nat
    BY <1>2
  <2>2. PICK c \in Nat : \A i \in 1 .. n : f[i] <= c
    <3> HIDE DEF f
    <3>1. QED  BY <2>1, ValuesBounded
  <2>3. \A d \in Times : d <= c
    BY <1>1, <2>2 DEF Times
  <2>4. QED  BY <2>3
<1>5. IsFiniteSet(DOMAIN sessions)
  BY <1>1, FS_Interval, 1 \in Int, n \in Int
<1>6. ASSUME Times # {}
      PROVE  /\ Earliest \in Times /\ Latest \in Times
             /\ \A d \in Times : Earliest <= d /\ d <= Latest
  <2>1. \E x \in Times : \A y \in Times : x <= y
    BY <1>3, <1>6, LeastNat
  <2>2. Times \subseteq 0 .. c
    BY <1>3, <1>4
  <2>3. \E x \in Times : \A y \in Times : y <= x
    BY <2>2, <1>6, GreatestNat
  <2>4. Earliest \in Times /\ \A d \in Times : Earliest <= d
    BY <2>1 DEF Earliest
  <2>5. Latest \in Times /\ \A d \in Times : d <= Latest
    BY <2>3 DEF Latest
  <2>6. QED  BY <2>4, <2>5
<1>7. \A i \in DOMAIN sessions : sessions[i].end # NoTime => sessions[i].end \in Times
  BY DEF Times
<1>8. QED  BY <1>3, <1>5, <1>6, <1>7

(* The week of a time bounds it, and is bounded by it.                     *)
LEMMA Bracket ==
    ASSUME NEW l \in Nat \ {0}, NEW w \in Nat, NEW v \in Nat, NEW a \in Nat,
           l * w <= a, a < l * w + l
    PROVE  (w <= v <=> a < l * v + l) /\ (v <= w <=> l * v <= a)
<1>1. PICK x \in Nat, y \in Nat : x = l * w /\ y = l * v
  BY SMT
<1>2. ASSUME NEW p \in Nat, NEW q \in Nat, p <= q
      PROVE  l * p <= l * q
  BY <1>2, SMT
<1>3. w <= v => x <= y
  BY <1>1, <1>2
<1>4. v <= w => y <= x
  BY <1>1, <1>2
<1>5. v + 1 <= w => y + l <= x
  <2>1. v + 1 <= w => l * (v + 1) <= x
    BY <1>1, <1>2
  <2>2. l * (v + 1) = y + l
    BY <1>1, SMT
  <2>3. QED  BY <2>1, <2>2
<1>6. w + 1 <= v => x + l <= y
  <2>1. w + 1 <= v => l * (w + 1) <= y
    BY <1>1, <1>2
  <2>2. l * (w + 1) = x + l
    BY <1>1, SMT
  <2>3. QED  BY <2>1, <2>2
<1>7. x <= a /\ a < x + l
  BY <1>1
<1>8. (w <= v <=> a < y + l) /\ (v <= w <=> y <= a)
  <2> HIDE <1>1
  <2>1. QED  BY <1>3, <1>4, <1>5, <1>6, <1>7, SMT
<1>9. QED  BY <1>1, <1>8

(* Weeks are counted from the first time.                                  *)
LEMMA WeekFacts ==
    ASSUME EngineInv, Times # {}, NEW d \in Times
    PROVE  /\ d \in Nat /\ Earliest \in Nat /\ d - Earliest \in Nat
           /\ Week(d) \in Weeks /\ Week(d) \in Nat
           /\ WeekLength * Week(d) <= d - Earliest
           /\ d - Earliest < WeekLength * Week(d) + WeekLength
<1>1. d \in Nat /\ Earliest \in Nat /\ Earliest <= d
  BY TimeFacts
<1>2. d - Earliest \in Nat /\ WeekLength \in Nat \ {0}
  BY <1>1, EngineerAssumption
<1>3. QED  BY <1>1, <1>2, Division DEF Week, Weeks

(* The sessions of two weeks, as a number of sessions in a span of time.   *)
LEMMA SessionsBetween ==
    ASSUME EngineInv, Times # {}, NEW W, NEW a \in Nat, NEW b \in Nat,
           \A d \in Times : Week(d) \in W <=> d - Earliest \in a .. b - 1
    PROVE  SessionsIn(W) = {i \in DOMAIN sessions :
                              /\ sessions[i].end # NoTime
                              /\ sessions[i].end - Earliest \in a .. b - 1}
BY TimeFacts DEF SessionsIn

(* The trend is that of the weeks at both ends, if these have sessions,    *)
(* and there is one if and only if the period is long enough.              *)
THEOREM TrendIsOfTheEnds == EngineSpec => []TrendComparesTheEnds
<1>1. EngineInv => TrendComparesTheEnds
  <2> SUFFICES ASSUME EngineInv, computed = "vector", Times # {}
               PROVE  TrendComparesTheEnds
    BY DEF TrendComparesTheEnds
  <2> DEFINE L == WeekLength
             span == Latest - Earliest
             last == span \div L
             Between(d, e) == Cardinality({i \in DOMAIN sessions :
                                /\ sessions[i].end # NoTime
                                /\ sessions[i].end - Earliest \in d .. e - 1})
             Full(w) == Between(L * w, L * (w + 1)) > 0
  <2>0. L \in Nat \ {0} /\ L * MinWeeks \in Nat /\ MinWeeks \in Nat \ {0, 1}
    <3>1. WeekLength \in Nat /\ MinWeeks \in Nat
      BY EngineerAssumption
    <3>2. WeekLength * MinWeeks \in Nat
      BY <3>1, SMT
    <3>3. QED  BY <3>2, EngineerAssumption
  <2>1. vector.trend = FrequencyTrend
    BY DEF EngineInv
  <2>2. /\ Earliest \in Times /\ Latest \in Times
        /\ Earliest \in Nat /\ Latest \in Nat
        /\ \A d \in Times : d \in Nat /\ Earliest <= d /\ d <= Latest
    BY TimeFacts
  <2>3. PICK m \in Nat : m = last /\ L * m <= span /\ span < L * m + L /\ span \in Nat
    <3>1. span \in Nat
      BY <2>2
    <3>2. QED  BY <2>0, <3>1, Division
  <2>4. \A d \in Times : d - Earliest \in 0 .. span
    BY <2>2
  <2>5. \A d \in Times : /\ Week(d) \in 0 .. m
                         /\ L * Week(d) <= d - Earliest
                         /\ d - Earliest < L * Week(d) + L
    <3>1. ASSUME NEW d \in Times
          PROVE  /\ Week(d) \in 0 .. m
                 /\ L * Week(d) <= d - Earliest
                 /\ d - Earliest < L * Week(d) + L
      <4>1. PICK w \in Nat, a \in 0 .. span :
               /\ w = Week(d) /\ a = d - Earliest
               /\ L * w <= a /\ a < L * w + L
        BY <2>4, WeekFacts
      <4>2. PICK x \in Nat, n \in Nat : x = L * m /\ n = span
        BY <2>0, <2>3, SMT
      <4>3. a < L * m + L
        BY <2>0, <2>3, <4>1, <4>2
      <4>4. w <= m
        BY <2>0, <4>1, <4>3, Bracket
      <4>5. QED  BY <4>1, <4>4
    <3>2. QED  BY <3>1
  <2>6. Weeks \subseteq 0 .. m
    BY <2>5 DEF Weeks
  <2>7. \A W : Cardinality(SessionsIn(W)) \in Nat
    <3>1. \A W : IsFiniteSet(SessionsIn(W))
      BY TimeFacts, FS_Subset DEF SessionsIn
    <3>2. QED  BY <3>1, FS_CardinalityType
  <2>8. FrequencyTrend = NoTrend <=> span < L * MinWeeks
    <3>1. LongEnough <=> ~(span < L * MinWeeks)
      BY <2>0, <2>3 DEF LongEnough
    <3>2. LongEnough => FrequencyTrend \in Int
      <4>1. PICK p \in Nat, q \in Nat :
               p = TwiceRate(LastWeeks) /\ q = TwiceRate(FirstWeeks)
        BY <2>7 DEF TwiceRate
      <4>2. p - q \in Int /\ 0 \in Int
        OBVIOUS
      <4>3. QED  BY <4>1, <4>2 DEF FrequencyTrend
    <3>3. ~LongEnough => FrequencyTrend = NoTrend
      BY DEF FrequencyTrend
    <3>4. QED  BY <3>1, <3>2, <3>3, EngineerAssumption
  <2>9. ASSUME vector.trend # NoTrend, Full(1), Full(last - 1)
        PROVE  vector.trend = Between(L * (last - 1), span + 1) - Between(0, 2 * L)
    <3>1. LongEnough /\ m >= 2
      <4>1. LongEnough
        BY <2>1, <2>9 DEF FrequencyTrend
      <4>2. ~(span < L * MinWeeks)
        BY <2>1, <2>8, <2>9
      <4>3. PICK n \in Nat, x \in Nat, y \in Nat :
               n = span /\ x = L * MinWeeks /\ y = L * m
        BY <2>0, <2>3, SMT
      <4>4. L * MinWeeks <= n /\ L * m <= n /\ n < L * m + L
        BY <2>3, <4>2, <4>3
      <4>5. MinWeeks <= m
        BY <2>0, <4>4, Bracket
      <4>6. QED  BY <2>0, <4>1, <4>5
    <3>2. ASSUME NEW w \in Nat, Full(w) PROVE w \in Weeks
      <4> DEFINE I == {i \in DOMAIN sessions :
                         /\ sessions[i].end # NoTime
                         /\ sessions[i].end - Earliest \in L * w .. L * (w + 1) - 1}
      <4>1. I # {}
        <5>1. Cardinality(I) > 0
          BY <3>2
        <5> HIDE DEF I
        <5>2. QED  BY <5>1, FS_EmptySet
      <4>2. PICK i \in DOMAIN sessions :
               /\ sessions[i].end \in Times
               /\ sessions[i].end - Earliest \in L * w .. L * (w + 1) - 1
        BY <4>1, TimeFacts
      <4>3. PICK v \in Nat, a \in Nat :
               /\ v = Week(sessions[i].end) /\ a = sessions[i].end - Earliest
               /\ v \in Weeks /\ L * v <= a /\ a < L * v + L
        BY <4>2, WeekFacts
      <4>4. L * w <= a /\ a < L * w + L
        <5>1. a \in L * w .. L * (w + 1) - 1
          BY <4>2, <4>3
        <5>2. PICK x \in Nat : x = L * w
          BY <2>0, SMT
        <5>3. L * (w + 1) = x + L
          BY <2>0, <5>2, SMT
        <5>4. a \in x .. (x + L) - 1
          BY <5>1, <5>2, <5>3
        <5>5. QED  BY <2>0, <5>2, <5>4
      <4>5. v = w
        <5>1. v \in Nat /\ a \in Nat /\ L * v <= a /\ a < L * v + L
          BY <4>3
        <5>2. (v <= w <=> a < L * w + L) /\ (w <= v <=> L * w <= a)
          BY <2>0, <5>1, Bracket
        <5>3. w <= v /\ v <= w
          BY <4>4, <5>2
        <5>4. QED  BY <5>3, <4>3
      <4>6. QED  BY <4>3, <4>5
    <3>3. 1 \in Weeks /\ m - 1 \in Weeks
      <4>1. Full(m - 1) /\ m - 1 \in Nat
        BY <2>3, <2>9, <3>1
      <4> HIDE DEF Full
      <4>2. QED  BY <2>9, <3>2, <4>1
    <3>4. 0 \in Weeks /\ m \in Weeks
      <4>1. PICK v \in Nat : /\ v = Week(Earliest) /\ v \in Weeks
                             /\ L * v <= Earliest - Earliest
        BY <2>2, WeekFacts
      <4>2. v = 0
        <5>1. L * v <= 0
          BY <2>2, <4>1
        <5>2. v >= 1 => L * v >= L
          BY <2>0, SMT
        <5>3. L * v \in Nat
          BY <2>0, SMT
        <5>4. QED  BY <2>0, <5>1, <5>2, <5>3
      <4>3. Week(Latest) = last
        BY DEF Week
      <4>4. Week(Latest) \in Weeks
        BY <2>2, WeekFacts
      <4>5. QED  BY <2>3, <4>1, <4>2, <4>3, <4>4
    <3>5. /\ FirstWeeks = {0, 1} /\ ~(Cardinality(Weeks) < 2)
          /\ LastWeeks = {m - 1, m}
      <4>1. FirstWeeks = {0, 1} /\ ~(Cardinality(Weeks) < 2)
        BY <2>6, <3>3, <3>4, TwoFirst DEF FirstWeeks
      <4>2. LastWeeks = {m - 1, m}
        <5>1. m \in Nat \ {0}
          BY <3>1
        <5>2. QED  BY <5>1, <2>6, <3>3, <3>4, TwoLast DEF LastWeeks
      <4>3. QED  BY <4>1, <4>2
    <3>6. vector.trend =
            Cardinality(SessionsIn({m - 1, m})) - Cardinality(SessionsIn({0, 1}))
      BY <2>1, <3>1, <3>5 DEF FrequencyTrend, TwiceRate
    <3>7. Cardinality(SessionsIn({0, 1})) = Between(0, 2 * L)
      <4>1. ASSUME NEW d \in Times
            PROVE  Week(d) \in {0, 1} <=> d - Earliest \in 0 .. 2 * L - 1
        <5>1. PICK w \in Nat, a \in Nat :
                 /\ w = Week(d) /\ a = d - Earliest
                 /\ L * w <= a /\ a < L * w + L
          BY WeekFacts
        <5>2. w <= 1 <=> a < L * 1 + L
          BY <2>0, <5>1, Bracket
        <5>3. w \in {0, 1} <=> a \in 0 .. 2 * L - 1
          <6>1. L * 1 + L = 2 * L /\ 2 * L \in Nat
            BY <2>0, SMT
          <6>2. QED  BY <5>2, <6>1
        <5>4. QED  BY <5>1, <5>3
      <4>2. 0 \in Nat /\ 2 * L \in Nat
        BY <2>0
      <4> HIDE DEF L
      <4>3. QED  BY <4>1, <4>2, SessionsBetween
    <3>8. Cardinality(SessionsIn({m - 1, m})) = Between(L * (last - 1), span + 1)
      <4>0. m - 1 \in Nat /\ L * (m - 1) \in Nat
        <5>1. m - 1 \in Nat
          BY <3>1
        <5>2. QED  BY <2>0, <5>1, SMT
      <4>1. ASSUME NEW d \in Times
            PROVE  Week(d) \in {m - 1, m} <=>
                      d - Earliest \in L * (last - 1) .. (span + 1) - 1
        <5>1. PICK w \in 0 .. m, a \in 0 .. span :
                 /\ w = Week(d) /\ a = d - Earliest
                 /\ L * w <= a /\ a < L * w + L
          BY <2>4, <2>5
        <5>2. PICK n \in Nat, x \in Nat : n = span /\ x = L * (m - 1)
          BY <2>3, <4>0
        <5>3. m - 1 <= w <=> x <= a
          BY <2>0, <4>0, <5>1, <5>2, <2>3, Bracket
        <5>4. w \in {m - 1, m} <=> a \in x .. (n + 1) - 1
          BY <5>1, <5>2, <5>3, <3>1
        <5>5. QED  BY <5>1, <5>2, <5>4, <2>3
      <4>2. L * (last - 1) \in Nat /\ span + 1 \in Nat
        BY <2>3, <4>0
      <4> HIDE DEF span, last, L
      <4>3. QED  BY <4>1, <4>2, SessionsBetween
    <3>9. QED  BY <3>6, <3>7, <3>8
  <2>10. QED  BY <2>1, <2>8, <2>9 DEF TrendComparesTheEnds
<1>2. QED  BY <1>1, EngineInvHolds, PTL

-----------------------------------------------------------------------------
(* Local pipeline runner                                                   *)

(* What BreachFoundWhereMade asks of the contract, the input and the       *)
(* handlers; no step of a run changes any of them.                         *)
Wired == WiringProblems = {} /\ InputSuffices /\ DropsNothingRequired

(* A field that the input brought or a stage before has produced and a     *)
(* stage still to come requires is in the event.                           *)
Supply ==
    \A k \in DOMAIN Order[runMode] : k >= next =>
        \A f \in Requires[Order[runMode][k]] :
            (\/ f \in input
             \/ \E j \in 1 .. next - 1 : f \in Produces[Order[runMode][j]])
                => f \in fields

RunInv ==
    /\ RunnerTypeOK
    /\ checked => Entered
    /\ Wired => Supply /\ outcome # "unmet"

USE RunnerAssumption

(* An order is a sequence of stages, and that of train begins that of      *)
(* predict.                                                                *)
LEMMA OrderFacts ==
    ASSUME NEW m \in DOMAIN Order
    PROVE  /\ DOMAIN Order[m] \subseteq Nat \ {0}
           /\ \A i \in DOMAIN Order[m] : \A j \in 1 .. i - 1 : j \in DOMAIN Order[m]
           /\ \A i \in DOMAIN Order[m] :
                 /\ Order[m][i] \in Stages
                 /\ i \in DOMAIN Order["predict"]
                 /\ Order[m][i] = Order["predict"][i]
<1>1. Order[m] \in Seq(Stages) /\ m \in {"train", "predict"}
  OBVIOUS
<1>2. DOMAIN Order[m] = 1 .. Len(Order[m]) /\ Len(Order[m]) \in Nat
  BY <1>1
<1>3. \A i \in DOMAIN Order[m] : Order[m][i] \in Stages
  BY <1>1
<1> QED
  BY <1>1, <1>2, <1>3

(* What a stage requires is in its event, if the wiring is right.          *)
LEMMA RequiredIsThere ==
    ASSUME RunnerTypeOK, Wired, Supply, Entered
    PROVE  Requires[Stage] \subseteq fields
<1> DEFINE m == runMode
<1>0. m \in DOMAIN Order /\ next \in DOMAIN Order[m] /\ next \in Nat \ {0}
  BY DEF RunnerTypeOK, Entered
<1> SUFFICES ASSUME NEW f \in Requires[Stage] PROVE f \in fields
  OBVIOUS
<1>1. Stage = Order[m][next] /\ Stage \in Stages
  BY <1>0, OrderFacts DEF Stage
<1>2. f \in Fields
  BY <1>1
<1>3. CASE next = 1
  <2>1. Requires[Order[runMode][1]] \subseteq input
    BY <1>0, <1>3 DEF Wired, InputSuffices
  <2>2. f \in Requires[Order[runMode][1]]
    BY <1>1, <1>3
  <2>3. f \in input
    BY <2>1, <2>2
  <2> QED
    BY <2>2, <2>3, <1>0, <1>3 DEF Supply
<1>4. CASE next > 1
  <2>1. next \in DOMAIN Order["predict"] /\ Stage = Order["predict"][next]
    BY <1>0, <1>1, OrderFacts
  <2>2. Requires[Order["predict"][next]] \subseteq Available(next)
    BY <2>1, <1>4 DEF Wired, WiringProblems
  <2>3. PICK j \in 1 .. next - 1 : f \in Produces[Order["predict"][j]]
    BY <2>1, <2>2 DEF Available
  <2>4. j \in DOMAIN Order[m] /\ Order[m][j] = Order["predict"][j]
    BY <1>0, OrderFacts
  <2> QED
    BY <2>3, <2>4, <1>0, <1>1 DEF Supply
<1> QED
  BY <1>0, <1>3, <1>4

(* The fields of later stages survive a handler that keeps the contract.   *)
LEMMA SupplyLasts ==
    ASSUME RunnerTypeOK, Wired, Supply, Entered, CallHandler
    PROVE  Supply'
<1> DEFINE m == runMode
<1>0. /\ m \in DOMAIN Order /\ next \in DOMAIN Order[m] /\ next \in Nat \ {0}
      /\ runMode' = m /\ input' = input /\ next' = next + 1
      /\ fields' = Output /\ Produces[Stage] \subseteq Output
      /\ Stage = Order[m][next] /\ Stage \in DOMAIN handlers
  BY DEF RunnerTypeOK, Entered, CallHandler, Stage
<1> SUFFICES ASSUME NEW k \in DOMAIN Order[m], k >= next + 1,
                    NEW f \in Requires[Order[m][k]],
                    \/ f \in input
                    \/ \E j \in 1 .. next : f \in Produces[Order[m][j]]
             PROVE  f \in Output
  <2>1. next' - 1 = next
    BY <1>0
  <2>2. Supply' <=> \A k \in DOMAIN Order[m] : k >= next + 1 =>
                       \A f \in Requires[Order[m][k]] :
                          (\/ f \in input
                           \/ \E j \in 1 .. next : f \in Produces[Order[m][j]])
                              => f \in Output
    BY <1>0, <2>1 DEF Supply
  <2> HIDE DEF m
  <2>3. QED  BY <2>2
<1>1. CASE f \in Produces[Stage]
  BY <1>0, <1>1
<1>2. CASE \/ f \in input
           \/ \E j \in 1 .. next - 1 : f \in Produces[Order[m][j]]
  <2>1. k \in Nat /\ k >= next
    BY <1>0, OrderFacts
  <2>2. f \in fields
    BY <2>1, <1>2 DEF Supply
  <2>3. handlers[Order[m][next]].drops \cap Requires[Order[m][k]] = {}
    <3>1. next < k /\ Order[m][next] \in DOMAIN handlers
      BY <1>0, <2>1
    <3> QED
      BY <1>0, <3>1 DEF Wired, DropsNothingRequired
  <2> QED
    BY <1>0, <2>2, <2>3 DEF Output
<1>3. \A j \in 1 .. next : j = next \/ j \in 1 .. next - 1
  BY <1>0
<1> QED
  BY <1>0, <1>1, <1>2, <1>3

(* A run begins with what the input brought.                               *)
LEMMA RunInit_RunInv == RunInit => RunInv
<1> SUFFICES ASSUME RunInit PROVE RunInv
  OBVIOUS
<1>1. RunnerTypeOK
  <2>1. input \in SUBSET Fields
    BY DEF RunInit
  <2>2. /\ runMode \in DOMAIN Order /\ input \in Inputs /\ handlers \in Handlers
        /\ fields = input /\ next = 1 /\ checked = FALSE /\ outcome = "running"
    BY DEF RunInit
  <2>3. next \in Nat \ {0}
    BY <2>2
  <2>4. checked \in BOOLEAN
    BY <2>2
  <2> QED
    BY <2>1, <2>2, <2>3, <2>4 DEF RunnerTypeOK
<1>2. ~checked /\ outcome = "running"
  BY DEF RunInit
<1>3. Supply
  BY DEF RunInit, Supply
<1> QED
  BY <1>1, <1>2, <1>3 DEF RunInv

(* A step keeps the supply of the stages to come.                          *)
LEMMA RunInv_Next == RunInv /\ [RunNext]_runVars => RunInv'
<1> SUFFICES ASSUME RunInv, [RunNext]_runVars PROVE RunInv'
  OBVIOUS
<1> USE DEF RunInv
<1>1. CASE CheckPreconditions
  <2>1. RunnerTypeOK'
    BY <1>1 DEF CheckPreconditions, RunnerTypeOK
  <2>2. (checked => Entered)'
    BY <1>1 DEF CheckPreconditions, Entered
  <2>3. Wired' = Wired /\ Supply' = Supply
    BY <1>1 DEF CheckPreconditions, Wired, Supply, InputSuffices,
                DropsNothingRequired, WiringProblems, Available
  <2>4. ASSUME Wired PROVE outcome' # "unmet"
    BY <1>1, <2>4, RequiredIsThere DEF CheckPreconditions
  <2> QED
    BY <2>1, <2>2, <2>3, <2>4
<1>2. CASE CallHandler
  <2>0. Entered
    BY <1>2 DEF CallHandler
  <2>1. RunnerTypeOK'
    <3>1. Stage \in Stages
      BY <2>0, OrderFacts DEF RunnerTypeOK, Entered, Stage
    <3>2. handlers[Stage] \in Handler
      BY <3>1, <1>2 DEF RunnerTypeOK, CallHandler
    <3>3. Output \in SUBSET Fields
      BY <3>2 DEF Output, Handler, RunnerTypeOK
    <3>4. (next \in Nat \ {0})'
      BY <1>2 DEF CallHandler, RunnerTypeOK
    <3> QED
      BY <1>2, <3>3, <3>4 DEF CallHandler, RunnerTypeOK
  <2>2. ~checked' /\ outcome' = outcome
    BY <1>2 DEF CallHandler
  <2>3. Wired' = Wired
    BY <1>2 DEF CallHandler, Wired, InputSuffices, DropsNothingRequired,
                WiringProblems, Available
  <2>4. ASSUME Wired PROVE Supply'
    BY <1>2, <2>0, <2>4, SupplyLasts
  <2> QED
    BY <2>1, <2>2, <2>3, <2>4
<1>3. CASE HandlerFails \/ HandlerMissing \/ RunReturns \/ UNCHANGED runVars
  <2>1. RunnerTypeOK'
    BY <1>3 DEF HandlerFails, HandlerMissing, RunReturns, runVars, RunnerTypeOK
  <2>2. (checked => Entered)'
    BY <1>3 DEF HandlerFails, HandlerMissing, RunReturns, runVars, Entered
  <2>3. Wired' = Wired /\ Supply' = Supply
    BY <1>3 DEF HandlerFails, HandlerMissing, RunReturns, runVars, Wired, Supply,
                InputSuffices, DropsNothingRequired, WiringProblems, Available
  <2>4. outcome' = "unmet" => outcome = "unmet"
    BY <1>3 DEF HandlerFails, HandlerMissing, RunReturns, runVars
  <2> QED
    BY <2>1, <2>2, <2>3, <2>4
<1> QED
  BY <1>1, <1>2, <1>3 DEF RunNext

(* In every run with a wired contract and handlers that drop nothing that  *)
(* a later stage requires, every stage finds what it requires.             *)
THEOREM WiringSuffices == RunSpec => []BreachFoundWhereMade
<1>1. RunInv => BreachFoundWhereMade
  BY DEF RunInv, Wired, BreachFoundWhereMade
<1> QED
  BY <1>1, RunInit_RunInv, RunInv_Next, PTL DEF RunSpec
=============================================================================
