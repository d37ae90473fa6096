-------------------------- MODULE FeatureStore_proofs --------------------------
(***************************************************************************)
(* Machine-checked proofs about FeatureStore, for any number of users,     *)
(* writers, readers, attempts and calls, with or without lagging replicas. *)
(*                                                                         *)
(* The argument: a put only lands on a free key, so items are never        *)
(* replaced (Immutable); a writer about to put version n has seen version  *)
(* n - 1 or found nothing (PutReady), and because items stay, that version *)
(* is still there when the put lands, however old the query's answer was.  *)
(*                                                                         *)
(* The versions of a user are therefore always an interval from 1, and a   *)
(* put stores the one after the newest (PutIsNext).  What writers and      *)
(* readers know (KInv) follows: a rejected put met a version more than its *)
(* query could see (Overtaken), of another call or a copy of its own       *)
(* (CopiesCounted); a page continues where the last one ended (ReadSoFar); *)
(* and the table is an append-only log per user.                           *)
(***************************************************************************)
EXTENDS FeatureStore, FiniteSetTheorems, SequenceTheorems,
        WellFoundedInduction, TLAPS

(* A call has begun wherever the writer is past "idle": Vector(w) is an    *)
(* identity of a call.                                                     *)
Started == \A w \in Writers : pc[w] # "idle" => calls[w] \in 1 .. MaxCalls

(* What a writer knows when it puts version n: n - 1 exists, or n = 1.     *)
PutReady ==
    \A w \in Writers : pc[w] = "put" =>
        /\ nextVersion[w] \in Nat \ {0}
        /\ nextVersion[w] = 1 \/ KeyTaken(user[w], nextVersion[w] - 1)

IInv == /\ TypeOK
        /\ IsFiniteSet(items)
        /\ Started
        /\ PutReady
        /\ Contiguous
        /\ ReturnedVersionIsOwn

-----------------------------------------------------------------------------

(* The versions of a user are finitely many naturals.                      *)
LEMMA VersionsFinite ==
    ASSUME IsFiniteSet(items), items \subseteq Item, NEW u \in Users
    PROVE  /\ VersionsOf(u) \subseteq Nat \ {0}
           /\ IsFiniteSet(VersionsOf(u))
           /\ Cardinality(VersionsOf(u)) \in Nat
<1> DEFINE own == {j \in items : j.user = u}
           f == [i \in own |-> i.version]
<1>1. VersionsOf(u) \subseteq Nat \ {0}
  BY DEF VersionsOf, Item
<1>2. IsFiniteSet(own)
  BY FS_Subset
<1>3. f \in Surjection(own, VersionsOf(u))
  BY DEF Surjection, VersionsOf
<1>4. IsFiniteSet(VersionsOf(u))
  BY <1>2, <1>3, FS_Surjection
<1>5. QED
  BY <1>1, <1>4, FS_CardinalityType

-----------------------------------------------------------------------------
(* The step that writes an item, shared by PutAccepted and PutAnswerLost.  *)

(* Where the condition holds, the put adds the writer's item and touches   *)
(* no other.                                                               *)
LEMMA WriteAdds ==
    ASSUME NEW w \in Writers, PutCondition(w), WriteItem(w)
    PROVE  items' = items \cup {[user |-> user[w], version |-> nextVersion[w],
                                 vector |-> Vector(w)]}
BY DEF PutCondition, WriteItem, KeyTaken

(* A write keeps the table well typed, finite and without gaps, and keeps  *)
(* every item and every key that was there.                                *)
LEMMA WriteKeeps ==
    ASSUME IInv, NEW w \in Writers, pc[w] = "put",
           PutCondition(w), WriteItem(w)
    PROVE  /\ items \subseteq items'
           /\ items' \subseteq Item
           /\ IsFiniteSet(items')
           /\ Contiguous'
           /\ \A u, v : KeyTaken(u, v) => KeyTaken(u, v)'
           /\ [user |-> user[w], version |-> nextVersion[w],
               vector |-> Vector(w)] \in items'
<1> DEFINE new == [user |-> user[w], version |-> nextVersion[w],
                   vector |-> Vector(w)]
<1>1. items' = items \cup {new}
  BY WriteAdds
<1>2. new \in Item
  BY DEF IInv, TypeOK, Started, PutReady, Item, Vector, VectorIds
<1>3. IsFiniteSet(items')
  BY <1>1, FS_AddElement DEF IInv
<1>4. \A u, v : KeyTaken(u, v) => KeyTaken(u, v)'
  BY <1>1 DEF KeyTaken
<1>5. ASSUME NEW i \in items', i.version > 1
      PROVE  KeyTaken(i.user, i.version - 1)'
  <2>1. CASE i \in items
    BY <2>1, <1>4, <1>5 DEF IInv, Contiguous
  <2>2. CASE i = new
    <3>1. /\ i.user = user[w]
          /\ i.version = nextVersion[w]
      BY <2>2
    <3>2. KeyTaken(i.user, i.version - 1)
      BY <3>1, <1>5 DEF IInv, PutReady
    <3>3. QED  BY <3>2, <1>4
  <2>3. QED  BY <1>1, <2>1, <2>2
<1>6. QED
  BY <1>1, <1>2, <1>3, <1>4, <1>5 DEF IInv, TypeOK, Contiguous

-----------------------------------------------------------------------------

(* Nobody is in store() at first.                                          *)
LEMMA InitIInv == Init => IInv
<1> SUFFICES ASSUME Init PROVE IInv  OBVIOUS
<1>1. Users # {} /\ MaxCalls \in Nat /\ StaleReads \subseteq BOOLEAN
  BY StoreAssumption
<1>2. TypeOK
  <2>1. << >> \in Seq(Item)
    OBVIOUS
  <2>2. QED  BY <1>1, <2>1 DEF Init, TypeOK
<1>3. IsFiniteSet(items)
  BY FS_EmptySet DEF Init
<1>4. Started /\ PutReady /\ Contiguous /\ ReturnedVersionIsOwn
  BY DEF Init, Started, PutReady, Contiguous, ReturnedVersionIsOwn
<1>5. QED  BY <1>2, <1>3, <1>4 DEF IInv

(* Writers' steps that leave the table alone.                              *)
LEMMA StartStoreIInv ==
    ASSUME IInv, NEW w \in Writers, NEW u \in Users, StartStore(w, u)
    PROVE  IInv'
<1>1. Cardinality(VersionsOf(u)) \in Nat
  BY VersionsFinite DEF IInv, TypeOK
<1>2. TypeOK'
  BY <1>1, StoreAssumption DEF IInv, TypeOK, StartStore, readerVars
<1>3. Started'
  BY StoreAssumption DEF IInv, TypeOK, Started, StartStore
<1>4. PutReady'
  BY DEF IInv, TypeOK, PutReady, StartStore, KeyTaken
<1>5. ReturnedVersionIsOwn'
  BY DEF IInv, TypeOK, ReturnedVersionIsOwn, StartStore, Vector
<1>6. Contiguous' /\ IsFiniteSet(items')
  BY DEF IInv, Contiguous, StartStore, KeyTaken
<1>7. QED  BY <1>2, <1>3, <1>4, <1>5, <1>6 DEF IInv

(* A query makes a writer ready: the version below its number exists.      *)
LEMMA QueryIInv ==
    ASSUME IInv, NEW w \in Writers, QueryNextVersion(w)
    PROVE  IInv'
<1>1. PICK m \in Visible(user[w]) :
        /\ nextVersion' = [nextVersion EXCEPT ![w] = m + 1]
        /\ lagged' = [lagged EXCEPT ![w] =
                         IF \E v \in VersionsOf(user[w]) : v > m
                         THEN @ + 1 ELSE @]
  BY DEF QueryNextVersion
<1>2. /\ m \in Nat
      /\ m = 0 \/ KeyTaken(user[w], m)
  BY DEF Visible, VersionsOf, KeyTaken, IInv, TypeOK, Item
<1>3. TypeOK'
  BY <1>1, <1>2 DEF IInv, TypeOK, QueryNextVersion, readerVars
<1>4. Started'
  BY DEF IInv, TypeOK, Started, QueryNextVersion
<1>5. PutReady'
  <2> SUFFICES ASSUME NEW x \in Writers, pc'[x] = "put"
               PROVE  (/\ nextVersion[x] \in Nat \ {0}
                       /\ \/ nextVersion[x] = 1
                          \/ KeyTaken(user[x], nextVersion[x] - 1))'
    BY DEF PutReady
  <2>1. user' = user /\ items' = items
    BY DEF QueryNextVersion
  <2>2. CASE x = w
    <3>1. nextVersion'[x] = m + 1
      BY <2>2, <1>1 DEF IInv, TypeOK
    <3>2. (m + 1) - 1 = m /\ m + 1 \in Nat \ {0} /\ (m = 0 => m + 1 = 1)
      BY <1>2
    <3>3. m = 0 \/ KeyTaken(user[x], m)
      BY <1>2, <2>2
    <3>4. QED  BY <3>1, <3>2, <3>3, <2>1 DEF KeyTaken
  <2>3. CASE x # w
    BY <2>1, <2>3, <1>1 DEF IInv, TypeOK, PutReady, QueryNextVersion, KeyTaken
  <2>4. QED  BY <2>2, <2>3
<1>6. ReturnedVersionIsOwn'
  BY <1>1 DEF IInv, TypeOK, ReturnedVersionIsOwn, QueryNextVersion, Vector
<1>7. Contiguous' /\ IsFiniteSet(items')
  BY DEF IInv, Contiguous, QueryNextVersion, KeyTaken
<1>8. QED  BY <1>3, <1>4, <1>5, <1>6, <1>7 DEF IInv

(* An accepted put adds the version after the newest.                      *)
LEMMA PutAcceptedIInv ==
    ASSUME IInv, NEW w \in Writers, PutAccepted(w)
    PROVE  IInv'
<1>1. /\ items \subseteq items'
      /\ items' \subseteq Item
      /\ IsFiniteSet(items')
      /\ Contiguous'
      /\ \A u, v : KeyTaken(u, v) => KeyTaken(u, v)'
      /\ [user |-> user[w], version |-> nextVersion[w],
          vector |-> Vector(w)] \in items'
  BY WriteKeeps DEF PutAccepted
<1>2. TypeOK'
  BY <1>1 DEF IInv, TypeOK, PutAccepted, readerVars
<1>3. Started'
  BY DEF IInv, TypeOK, Started, PutAccepted
<1>4. PutReady'
  BY <1>1 DEF IInv, TypeOK, PutReady, PutAccepted
<1>5. ReturnedVersionIsOwn'
  BY <1>1 DEF IInv, TypeOK, ReturnedVersionIsOwn, PutAccepted, Vector
<1>6. QED  BY <1>1, <1>2, <1>3, <1>4, <1>5 DEF IInv

(* So does one whose answer is lost; its writer goes on.                   *)
LEMMA PutAnswerLostIInv ==
    ASSUME IInv, NEW w \in Writers, PutAnswerLost(w)
    PROVE  IInv'
<1>1. /\ items \subseteq items'
      /\ items' \subseteq Item
      /\ IsFiniteSet(items')
      /\ Contiguous'
      /\ \A u, v : KeyTaken(u, v) => KeyTaken(u, v)'
  BY WriteKeeps DEF PutAnswerLost
<1>2. TypeOK'
  BY <1>1 DEF IInv, TypeOK, PutAnswerLost, readerVars
<1>3. Started'
  BY DEF IInv, TypeOK, Started, PutAnswerLost
<1>4. PutReady'
  BY <1>1 DEF IInv, TypeOK, PutReady, PutAnswerLost
<1>5. ReturnedVersionIsOwn'
  BY <1>1 DEF IInv, TypeOK, ReturnedVersionIsOwn, PutAnswerLost, Vector
<1>6. QED  BY <1>1, <1>2, <1>3, <1>4, <1>5 DEF IInv

(* Leaving store() changes no item.                                        *)
LEMMA GiveUpIInv ==
    ASSUME IInv, NEW w \in Writers, PutRejected(w) \/ StoreError(w)
    PROVE  IInv'
<1>1. TypeOK'
  <2>1. CASE PutRejected(w)
    BY <2>1 DEF IInv, TypeOK, PutRejected, readerVars
  <2>2. CASE StoreError(w)
    BY <2>2 DEF IInv, TypeOK, StoreError, readerVars
  <2>3. QED  BY <2>1, <2>2
<1>2. Started'
  BY DEF IInv, TypeOK, Started, PutRejected, StoreError, InStore
<1>3. PutReady'
  BY DEF IInv, TypeOK, PutReady, PutRejected, StoreError, KeyTaken
<1>4. ReturnedVersionIsOwn'
  BY DEF IInv, TypeOK, ReturnedVersionIsOwn, PutRejected, StoreError, Vector
<1>5. Contiguous' /\ IsFiniteSet(items')
  BY DEF IInv, Contiguous, PutRejected, StoreError, KeyTaken
<1>6. QED  BY <1>1, <1>2, <1>3, <1>4, <1>5 DEF IInv

(* A listing of some of the items is a finite sequence of items.           *)
LEMMA ListingTyped ==
    ASSUME NEW S \in SUBSET items, IsFiniteSet(items), items \subseteq Item,
           NEW list \in Listings(S)
    PROVE  /\ list \in Seq(Item)
           /\ S = {list[k] : k \in DOMAIN list}
           /\ \A j, k \in DOMAIN list :
                 j < k => list[j].version < list[k].version
<1>1. Cardinality(S) \in Nat
  BY FS_Subset, FS_CardinalityType
<1>2. list \in [1 .. Cardinality(S) -> Item]
  BY DEF Listings
<1>3. QED  BY <1>1, <1>2 DEF Listings

(* What ReadPage(r) takes from a replica whose newest version is m; list   *)
(* holds the items of its page that the filter lets pass.                  *)
PageTaken(r, m, list) ==
    LET left == Remaining(r, m)
        page == Page(left)
    IN  /\ list \in Listings({i \in page : InRange(r, i)})
        /\ got' = [got EXCEPT ![r] = @ \o list]
        /\ \/ /\ page = left
              /\ rpc' = [rpc EXCEPT ![r] = "complete"]
              /\ UNCHANGED cursor
           \/ /\ page # left
              /\ \E last \in page :
                   /\ \A i \in page : i.version <= last.version
                   /\ cursor' = [cursor EXCEPT ![r] = last.version]
              /\ UNCHANGED rpc

(* Every page is read from some replica.                                   *)
LEMMA PageRead ==
    ASSUME NEW r \in Readers, ReadPage(r)
    PROVE  \E m \in Visible(ruser[r]) : \E list : PageTaken(r, m, list)
BY DEF ReadPage, PageTaken

(* A reader changes nothing but its own variables.                         *)
LEMMA ReaderIInv ==
    ASSUME IInv, NEW r \in Readers,
           ReadPage(r) \/ \E u \in Users : StartHistory(r, u)
    PROVE  IInv'
<1>1. UNCHANGED <<items, storeVars, stale>>
  BY DEF ReadPage, StartHistory
<1>2. ASSUME NEW u \in Users, StartHistory(r, u)
      PROVE  TypeOK'
  <2>1. Cardinality(VersionsOf(u)) \in Nat
    BY VersionsFinite DEF IInv, TypeOK
  <2>2. PICK d \in FromDates : fromDate' = [fromDate EXCEPT ![r] = d]
    BY <1>2 DEF StartHistory
  <2>3. d \in Nat
    BY StoreAssumption
  <2>4. QED
    BY <2>1, <2>2, <2>3, <1>2 DEF IInv, TypeOK, StartHistory, storeVars
<1>3. ASSUME ReadPage(r)
      PROVE  TypeOK'
  <2>1. PICK m \in Visible(ruser[r]) : \E list : PageTaken(r, m, list)
    BY <1>3, PageRead
  <2>p. PICK list : PageTaken(r, m, list)
    BY <2>1
  <2>2. Page(Remaining(r, m)) \subseteq items /\ items \subseteq Item
    BY DEF Page, Remaining, IInv, TypeOK
  <2>3. got' \in [Readers -> Seq(Item)]
    <3>1. list \in Seq(Item)
      BY <2>2, <2>p, ListingTyped DEF IInv, PageTaken
    <3>2. got[r] \o list \in Seq(Item)
      BY <3>1, ConcatProperties DEF IInv, TypeOK
    <3>3. QED  BY <2>p, <3>2 DEF IInv, TypeOK, PageTaken
  <2>4. cursor' \in [Readers -> Nat]
    <3>1. \A i \in Page(Remaining(r, m)) : i.version \in Nat
      BY <2>2 DEF Item
    <3>2. QED  BY <2>p, <3>1 DEF IInv, TypeOK, PageTaken
  <2>5. rpc' \in [Readers -> {"idle", "paging", "complete"}]
    BY <2>p DEF IInv, TypeOK, PageTaken
  <2>6. QED
    BY <1>3, <2>3, <2>4, <2>5 DEF IInv, TypeOK, ReadPage, storeVars
<1>4. Started' /\ PutReady' /\ Contiguous' /\ ReturnedVersionIsOwn'
      /\ IsFiniteSet(items')
  BY <1>1 DEF IInv, Started, PutReady, Contiguous, ReturnedVersionIsOwn,
              KeyTaken, Vector, storeVars
<1>5. QED  BY <1>2, <1>3, <1>4 DEF IInv

(* A step that changes nothing keeps the invariant.                        *)
LEMMA StutterIInv == ASSUME IInv, UNCHANGED vars PROVE IInv'
BY DEF IInv, TypeOK, Started, PutReady, Contiguous, ReturnedVersionIsOwn,
       KeyTaken, Vector, vars, storeVars, readerVars

(* Every step of the store keeps the invariant.                            *)
LEMMA NextIInv == IInv /\ [Next]_vars => IInv'
<1> SUFFICES ASSUME IInv, [Next]_vars PROVE IInv'  OBVIOUS
<1>1. ASSUME NEW w \in Writers, NEW u \in Users, StartStore(w, u) PROVE IInv'
  BY <1>1, StartStoreIInv
<1>2. ASSUME NEW w \in Writers, StoreStep(w) \/ StoreError(w) PROVE IInv'
  BY <1>2, QueryIInv, PutAcceptedIInv, PutAnswerLostIInv, GiveUpIInv
     DEF StoreStep
<1>3. ASSUME NEW r \in Readers,
             ReadPage(r) \/ \E u \in Users : StartHistory(r, u)
      PROVE  IInv'
  BY <1>3, ReaderIInv
<1>4. CASE UNCHANGED vars
  BY <1>4, StutterIInv
<1>5. QED  BY <1>1, <1>2, <1>3, <1>4 DEF Next

-----------------------------------------------------------------------------
(* The theorems                                                            *)

(* The invariant holds in every state that store() and its readers reach.  *)
THEOREM InductiveInvariant == Spec => []IInv
BY InitIInv, NextIInv, PTL DEF Spec

(* Every variable of the store keeps its type, in every state of every     *)
(* instance of store() and get_history().                                  *)
THEOREM TypeCorrect == Spec => []TypeOK
<1>1. IInv => TypeOK  BY DEF IInv
<1>2. QED  BY <1>1, InductiveInvariant, PTL

(* R9.2: the versions store() hands out leave no gap, even when queries    *)
(* are answered by lagging replicas.                                       *)
THEOREM NoGaps == Spec => []Contiguous
<1>1. IInv => Contiguous  BY DEF IInv
<1>2. QED  BY <1>1, InductiveInvariant, PTL

(* The version store() returns holds the caller's own vector.              *)
THEOREM ReturnsOwnVersion == Spec => []ReturnedVersionIsOwn
<1>1. IInv => ReturnedVersionIsOwn  BY DEF IInv
<1>2. QED  BY <1>1, InductiveInvariant, PTL

(* R9.5: no step of any writer or reader removes or replaces an item.      *)
THEOREM Immutability == Spec => Immutable
<1>1. ASSUME [Next]_vars PROVE [items \subseteq items']_items
  <2>1. ASSUME NEW w \in Writers, PutCondition(w), WriteItem(w)
        PROVE  items \subseteq items'
    BY <2>1, WriteAdds
  <2>2. CASE UNCHANGED items
    BY <2>2
  <2>3. QED
    BY <1>1, <2>1, <2>2
       DEF Next, vars, StoreStep, StartStore, QueryNextVersion, PutAccepted,
           PutAnswerLost, PutRejected, StoreError, StartHistory, ReadPage
<1>2. QED  BY <1>1, PTL DEF Spec, Immutable

-----------------------------------------------------------------------------
(* Versions are intervals                                                  *)

(* A set of naturals that is not empty has a least element.                *)
LEMMA LeastNat ==
    ASSUME NEW T, T \subseteq Nat, T # {}
    PROVE  \E x \in T : \A y \in T : x <= y
<1> DEFINE R == {p \in Nat \X Nat : p[1] < p[2]}
<1>1. IsWellFoundedOn(R, Nat)
  BY NatLessThanWellFounded DEF OpToRel
<1>2. PICK x \in T : \A y \in T : <<y, x>> \notin R
  <2> HIDE DEF R
  <2>1. QED  BY <1>1, WFMin
<1>3. ASSUME NEW y \in T PROVE x <= y
  <2>1. <<y, x>> \in Nat \X Nat /\ <<y, x>>[1] = y /\ <<y, x>>[2] = x
    OBVIOUS
  <2>2. ~(y < x)
    BY <1>2, <2>1
  <2>3. QED  BY <2>2
<1>4. QED  BY <1>3

(* A finite set of positive numbers that holds the predecessor of each of  *)
(* its members but 1 is an interval from 1.                                *)
LEMMA GaplessIsInterval ==
    ASSUME NEW S, S \subseteq Nat \ {0}, IsFiniteSet(S),
           \A n \in S : n > 1 => n - 1 \in S
    PROVE  S = 1 .. Cardinality(S)
<1> DEFINE free == {n \in Nat \ {0} : n \notin S}
<1>1. free # {}
  <2> SUFFICES ASSUME free = {} PROVE FALSE  OBVIOUS
  <2>1. Cardinality(S) \in Nat
    BY FS_CardinalityType
  <2>2. 1 .. Cardinality(S) + 1 \subseteq S
    BY <2>1
  <2>3. Cardinality(1 .. Cardinality(S) + 1) <= Cardinality(S)
    BY <2>2, FS_Subset
  <2>4. Cardinality(1 .. Cardinality(S) + 1) = Cardinality(S) + 1
    BY <2>1, FS_Interval
  <2>5. QED  BY <2>1, <2>3, <2>4
<1>2. PICK n \in free : \A m \in free : n <= m
  BY <1>1, LeastNat
<1>3. 1 .. n - 1 \subseteq S
  BY <1>2
<1>4. S \subseteq 1 .. n - 1
  <2> DEFINE above == {m \in S : m >= n}
  <2> SUFFICES ASSUME above # {} PROVE FALSE  OBVIOUS
  <2>1. PICK m \in above : \A k \in above : m <= k
    BY LeastNat
  <2>2. m > n /\ m > 1
    BY <1>2, <2>1
  <2>3. m - 1 \in above
    BY <1>2, <2>1, <2>2
  <2>4. QED  BY <2>1, <2>3
<1>5. S = 1 .. n - 1
  BY <1>3, <1>4
<1>6. Cardinality(S) = n - 1
  BY <1>2, <1>5, FS_Interval
<1>7. QED  BY <1>5, <1>6

(* The versions of a user are 1, 2, ... up to their number.                *)
LEMMA VersionsAreInterval ==
    ASSUME IInv, NEW u \in Users
    PROVE  /\ VersionsOf(u) = 1 .. Cardinality(VersionsOf(u))
           /\ Cardinality(VersionsOf(u)) \in Nat
<1>1. VersionsOf(u) \subseteq Nat \ {0} /\ IsFiniteSet(VersionsOf(u))
      /\ Cardinality(VersionsOf(u)) \in Nat
  BY VersionsFinite DEF IInv, TypeOK
<1>2. \A n \in VersionsOf(u) : n > 1 => n - 1 \in VersionsOf(u)
  BY DEF IInv, Contiguous, VersionsOf, KeyTaken
<1>3. QED  BY <1>1, <1>2, GaplessIsInterval

(* A put stores the version after the newest.                              *)
LEMMA PutIsNext ==
    ASSUME IInv, NEW w \in Writers, pc[w] = "put", PutCondition(w)
    PROVE  nextVersion[w] = Cardinality(VersionsOf(user[w])) + 1
<1> DEFINE c == Cardinality(VersionsOf(user[w]))
<1>1. user[w] \in Users /\ nextVersion[w] \in Nat \ {0}
  BY DEF IInv, TypeOK, PutReady
<1>2. VersionsOf(user[w]) = 1 .. c /\ c \in Nat
  BY <1>1, VersionsAreInterval
<1>3. nextVersion[w] \notin VersionsOf(user[w])
  BY DEF PutCondition, KeyTaken, VersionsOf
<1>4. nextVersion[w] = 1 \/ nextVersion[w] - 1 \in VersionsOf(user[w])
  BY DEF IInv, PutReady, KeyTaken, VersionsOf
<1> HIDE DEF c
<1>5. nextVersion[w] \notin 1 .. c
      /\ (nextVersion[w] = 1 \/ nextVersion[w] - 1 \in 1 .. c)
  BY <1>2, <1>3, <1>4
<1>6. nextVersion[w] = c + 1
  BY <1>1, <1>2, <1>5
<1>7. QED  BY <1>6 DEF c

-----------------------------------------------------------------------------
(* What writers and readers know, beyond IInv                              *)

(* No two items have the same key.                                         *)
KeyUnique ==
    \A i, j \in items : i.user = j.user /\ i.version = j.version => i = j

(* An item holds the vector of a call that has begun.                      *)
CallsBegun == \A i \in items : i.vector[2] <= calls[i.vector[1]]

\* The items that hold the vector of w's call.
OwnCopies(w) == {i \in items : i.user = user[w] /\ i.vector = Vector(w)}

(* A call has stored its vector once per answer it lost, and once more     *)
(* when it returned.                                                       *)
CopiesCounted ==
    \A w \in Writers :
        Cardinality(OwnCopies(w)) <=
            lost[w] + (IF pc[w] = "returned" THEN 1 ELSE 0)

(* Each conflict stands for one more version than the user had when the    *)
(* call began or for a query that lagged; a put aims beyond them, unless a *)
(* later version or its own query's lag explains its conflict beforehand;  *)
(* an accepted put is one version more.                                    *)
Overtaken ==
    \A w \in Writers :
        LET explained == Cardinality(VersionsOf(user[w])) + lagged[w]
        IN  /\ base[w] + attempt[w] <= explained
            /\ pc[w] = "returned" => base[w] + attempt[w] < explained
            /\ pc[w] = "put" => \/ base[w] + attempt[w] < explained
                                \/ base[w] + attempt[w] < nextVersion[w] + lagged[w]

(* What reader r knows when it has read the versions up to c.              *)
ReadUpTo(r, c) ==
    /\ Collected(r) = {i \in Wanted(r) : i.version <= c}
    /\ c <= Cardinality(VersionsOf(ruser[r]))
    /\ rpc[r] = "paging" => cursor[r] = c
    /\ (~stale /\ rpc[r] = "complete") => floor[r] <= c

Ascending(s) == \A j, k \in DOMAIN s : j < k => s[j].version < s[k].version

(* What a reader has collected is what it wants of the first versions of   *)
(* its user, up to its cursor while it pages.                              *)
ReadSoFar ==
    \A r \in Readers :
        /\ Ascending(got[r])
        /\ floor[r] <= Cardinality(VersionsOf(ruser[r]))
        /\ \E c \in Nat : ReadUpTo(r, c)

(* What holds of the table and of all who use it, in every state.          *)
KInv == /\ IInv
        /\ KeyUnique
        /\ CallsBegun
        /\ CopiesCounted
        /\ Overtaken
        /\ ReadSoFar

(* A step leaves the table alone or is a put on a free key.                *)
LEMMA TableSteps ==
    ASSUME [Next]_vars
    PROVE  \/ UNCHANGED items
           \/ \E w \in Writers : pc[w] = "put" /\ PutCondition(w) /\ WriteItem(w)
BY DEF Next, vars, StoreStep, StartStore, QueryNextVersion, PutAccepted,
       PutAnswerLost, PutRejected, StoreError, StartHistory, ReadPage

(* The same, with the actions that put.                                    *)
LEMMA WritingSteps ==
    ASSUME [Next]_vars
    PROVE  \/ UNCHANGED items
           \/ \E w \in Writers :
                 /\ pc[w] = "put" /\ PutCondition(w) /\ WriteItem(w)
                 /\ PutAccepted(w) \/ PutAnswerLost(w)
BY DEF Next, vars, StoreStep, StartStore, QueryNextVersion, PutAccepted,
       PutAnswerLost, PutRejected, StoreError, StartHistory, ReadPage

(* The table only grows, and with it the number of every user's versions.  *)
LEMMA VersionsGrow ==
    ASSUME IInv, [Next]_vars
    PROVE  /\ items \subseteq items'
           /\ \A u \in Users :
                 /\ Cardinality(VersionsOf(u)) \in Nat
                 /\ Cardinality(VersionsOf(u))' \in Nat
                 /\ Cardinality(VersionsOf(u)) <= Cardinality(VersionsOf(u))'
                 /\ VersionsOf(u)' = 1 .. Cardinality(VersionsOf(u))'
<1>1. items \subseteq items'
  BY TableSteps, WriteAdds
<1>2. IInv'
  BY NextIInv
<1>i. IInv => \A u \in Users : /\ VersionsOf(u) = 1 .. Cardinality(VersionsOf(u))
                               /\ Cardinality(VersionsOf(u)) \in Nat
  BY VersionsAreInterval
<1>3. ASSUME NEW u \in Users
      PROVE  /\ Cardinality(VersionsOf(u)) \in Nat
             /\ Cardinality(VersionsOf(u))' \in Nat
             /\ Cardinality(VersionsOf(u)) <= Cardinality(VersionsOf(u))'
             /\ VersionsOf(u)' = 1 .. Cardinality(VersionsOf(u))'
  <2>1. Cardinality(VersionsOf(u)) \in Nat
    BY VersionsFinite DEF IInv, TypeOK
  <2>2. IsFiniteSet(VersionsOf(u)') /\ Cardinality(VersionsOf(u)') \in Nat
    <3> DEFINE own == {j \in items' : j.user = u}
               f == [i \in own |-> i.version]
    <3>1. IsFiniteSet(own)
      BY <1>2, FS_Subset DEF IInv
    <3>2. f \in Surjection(own, VersionsOf(u)')
      BY DEF Surjection, VersionsOf
    <3>3. QED  BY <3>1, <3>2, FS_Surjection, FS_CardinalityType
  <2>3. VersionsOf(u) \subseteq VersionsOf(u)'
    BY <1>1 DEF VersionsOf
  <2>4. (VersionsOf(u) = 1 .. Cardinality(VersionsOf(u)))'
    <3>1. VersionsOf(u)' \subseteq Nat \ {0}
      BY <1>2 DEF VersionsOf, IInv, TypeOK, Item
    <3>2. \A n \in VersionsOf(u)' : n > 1 => n - 1 \in VersionsOf(u)'
      BY <1>2 DEF IInv, Contiguous, VersionsOf, KeyTaken
    <3>3. QED  BY <2>2, <3>1, <3>2, GaplessIsInterval
  <2>5. QED  BY <2>1, <2>2, <2>3, <2>4, FS_Subset
<1>4. QED  BY <1>1, <1>3

(* A put on a free key keeps the keys apart.                               *)
LEMMA KeysStayUnique ==
    ASSUME IInv, KeyUnique, [Next]_vars
    PROVE  KeyUnique'
<1>1. CASE UNCHANGED items
  BY <1>1 DEF KeyUnique
<1>2. ASSUME NEW w \in Writers, PutCondition(w), WriteItem(w)
      PROVE  KeyUnique'
  BY <1>2, WriteAdds DEF KeyUnique, PutCondition, KeyTaken
<1>3. QED  BY <1>1, <1>2, TableSteps

-----------------------------------------------------------------------------
(* The writers                                                             *)

(* A query that misses no version finds as many as there are.              *)
LEMMA NewestIsAll ==
    ASSUME IInv, NEW u \in Users, NEW m \in Visible(u),
           \A v \in VersionsOf(u) : ~(v > m)
    PROVE  m = Cardinality(VersionsOf(u))
<1> DEFINE c == Cardinality(VersionsOf(u))
<1>1. VersionsOf(u) = 1 .. c /\ c \in Nat
  BY VersionsAreInterval
<1>2. m \in {0} \cup VersionsOf(u)
  BY DEF Visible
<1> HIDE DEF c
<1>3. m \in 0 .. c
  BY <1>1, <1>2
<1>4. \A v \in 1 .. c : ~(v > m)
  BY <1>1
<1>5. c = 0 \/ c \in 1 .. c
  BY <1>1
<1>6. m = c
  BY <1>1, <1>3, <1>4, <1>5
<1>7. QED  BY <1>6 DEF c

(* A rejected put found its version taken.                                 *)
LEMMA RejectedIsOvertaken ==
    ASSUME IInv, NEW w \in Writers, pc[w] = "put", ~PutCondition(w)
    PROVE  nextVersion[w] <= Cardinality(VersionsOf(user[w]))
<1> DEFINE c == Cardinality(VersionsOf(user[w]))
<1>1. user[w] \in Users
  BY DEF IInv, TypeOK
<1>2. VersionsOf(user[w]) = 1 .. c /\ c \in Nat
  BY <1>1, VersionsAreInterval
<1>3. nextVersion[w] \in VersionsOf(user[w])
  BY DEF PutCondition, KeyTaken, VersionsOf
<1> HIDE DEF c
<1>4. nextVersion[w] <= c
  BY <1>2, <1>3
<1>5. QED  BY <1>4 DEF c

(* The parts of a writer that a step of somebody else leaves alone.        *)
WriterIdle(w) ==
    UNCHANGED <<pc[w], calls[w], user[w], attempt[w], nextVersion[w], lost[w],
                lagged[w], base[w]>>

(* A step is one of a writer, and then the others stand still, or none.    *)
LEMMA WriterSteps ==
    ASSUME TypeOK, [Next]_vars, NEW w \in Writers
    PROVE  \/ WriterIdle(w)
           \/ \E u \in Users : StartStore(w, u)
           \/ StoreStep(w)
           \/ StoreError(w)
<1>1. ASSUME NEW x \in Writers, x # w,
             \/ \E u \in Users : StartStore(x, u)
             \/ QueryNextVersion(x)
             \/ PutAccepted(x)
      PROVE  WriterIdle(w)
  BY <1>1 DEF StartStore, QueryNextVersion, PutAccepted, TypeOK, WriterIdle
<1>2. ASSUME NEW x \in Writers, x # w,
             PutAnswerLost(x) \/ PutRejected(x) \/ StoreError(x)
      PROVE  WriterIdle(w)
  BY <1>2 DEF PutAnswerLost, PutRejected, StoreError, TypeOK, WriterIdle
<1>3. ASSUME NEW r \in Readers,
             ReadPage(r) \/ \E u \in Users : StartHistory(r, u)
      PROVE  UNCHANGED storeVars
  BY <1>3 DEF ReadPage, StartHistory
<1>4. CASE UNCHANGED storeVars
  BY <1>4 DEF storeVars, WriterIdle
<1>5. CASE UNCHANGED vars
  BY <1>4, <1>5 DEF vars
<1> HIDE DEF WriterIdle
<1>6. QED  BY <1>1, <1>2, <1>3, <1>4, <1>5 DEF Next, StoreStep

(* What w's steps do to what is said of its conflicts.                     *)
LEMMA OvertakenKept ==
    ASSUME IInv, Overtaken, [Next]_vars
    PROVE  Overtaken'
<1> DEFINE C(u) == Cardinality(VersionsOf(u))
           Known(w) ==
              /\ base[w] + attempt[w] <= C(user[w]) + lagged[w]
              /\ pc[w] = "returned" =>
                    base[w] + attempt[w] < C(user[w]) + lagged[w]
              /\ pc[w] = "put" =>
                    \/ base[w] + attempt[w] < C(user[w]) + lagged[w]
                    \/ base[w] + attempt[w] < nextVersion[w] + lagged[w]
<1> SUFFICES ASSUME NEW w \in Writers PROVE Known(w)'
  BY DEF Overtaken
<1>1. Known(w)
  BY DEF Overtaken
<1>2. PICK u \in Users : u = user[w]
  BY DEF IInv, TypeOK
<1>3. /\ base[w] \in Nat
      /\ attempt[w] \in Nat
      /\ nextVersion[w] \in Nat
      /\ lagged[w] \in Nat
  BY DEF IInv, TypeOK
<1>4. /\ C(u) \in Nat /\ C(u)' \in Nat /\ C(u) <= C(u)'
      /\ VersionsOf(u)' = 1 .. C(u)'
  BY VersionsGrow
<1>5. ASSUME user'[w] = user[w] PROVE C(user[w])' = C(u)'
  BY <1>2, <1>5 DEF VersionsOf
<1>6. C(user[w]) = C(u)
  BY <1>2
<1>7. CASE WriterIdle(w)
  <2>1. C(user[w])' = C(u)'
    BY <1>5, <1>7 DEF WriterIdle
  <2> HIDE DEF C
  <2>2. QED  BY <1>1, <1>3, <1>4, <1>6, <1>7, <2>1 DEF WriterIdle
<1>8. ASSUME NEW x \in Users, StartStore(w, x)
      PROVE  Known(w)'
  <2>1. /\ user'[w] = x
        /\ base'[w] = C(x)
        /\ attempt'[w] = 0
        /\ lagged'[w] = 0
        /\ pc'[w] = "query"
        /\ items' = items
    BY <1>8 DEF StartStore, IInv, TypeOK
  <2>2. C(user[w])' = C(x)
    BY <2>1 DEF VersionsOf
  <2>3. C(x) \in Nat
    BY VersionsGrow
  <2> HIDE DEF C
  <2>4. QED  BY <2>1, <2>2, <2>3
<1>9. ASSUME QueryNextVersion(w)
      PROVE  Known(w)'
  <2>1. PICK m \in Visible(user[w]) :
          /\ nextVersion' = [nextVersion EXCEPT ![w] = m + 1]
          /\ lagged' = [lagged EXCEPT ![w] =
                           IF \E v \in VersionsOf(user[w]) : v > m
                           THEN @ + 1 ELSE @]
    BY <1>9 DEF QueryNextVersion
  <2>2. /\ UNCHANGED <<items, user, base, attempt>>
        /\ nextVersion'[w] = m + 1
        /\ pc'[w] = "put"
    BY <1>9, <2>1 DEF QueryNextVersion, IInv, TypeOK
  <2>3. C(user[w])' = C(u)
    BY <1>2, <2>2 DEF VersionsOf
  <2>4. CASE \E v \in VersionsOf(user[w]) : v > m
    <3>1. lagged'[w] = lagged[w] + 1
      BY <2>1, <2>4 DEF IInv, TypeOK
    <3> HIDE DEF C
    <3>2. QED  BY <1>1, <1>3, <1>4, <1>6, <2>2, <2>3, <3>1
  <2>5. CASE ~\E v \in VersionsOf(user[w]) : v > m
    <3>1. lagged'[w] = lagged[w]
      BY <2>1, <2>5 DEF IInv, TypeOK
    <3>2. m = C(u)
      BY <1>2, <2>5, NewestIsAll
    <3> HIDE DEF C
    <3>3. QED  BY <1>1, <1>3, <1>4, <1>6, <2>2, <2>3, <3>1, <3>2
  <2>6. QED  BY <2>4, <2>5
<1>10. ASSUME PutAccepted(w) \/ PutAnswerLost(w)
       PROVE  Known(w)'
  <2>1. /\ pc[w] = "put"
        /\ WriteItem(w)
        /\ PutCondition(w)
        /\ UNCHANGED <<user, base, attempt, nextVersion, lagged>>
    BY <1>10 DEF PutAccepted, PutAnswerLost
  <2>2. C(user[w])' = C(u)'
    BY <1>5, <2>1
  <2>3. nextVersion[w] <= C(u)'
    <3>1. nextVersion[w] \in VersionsOf(u)'
      <4> DEFINE new == [user |-> user[w], version |-> nextVersion[w],
                         vector |-> Vector(w)]
      <4>1. new \in items' /\ new.user = u /\ new.version = nextVersion[w]
        BY <1>2, <2>1, WriteAdds
      <4> HIDE DEF new
      <4>2. QED  BY <4>1 DEF VersionsOf
    <3> HIDE DEF C
    <3>2. QED  BY <1>4, <3>1
  <2> HIDE DEF C
  <2>4. base[w] + attempt[w] < C(u)' + lagged[w]
    BY <1>1, <1>3, <1>4, <1>6, <2>1, <2>3
  <2>5. QED  BY <1>3, <1>4, <2>1, <2>2, <2>4
<1>11. ASSUME PutRejected(w)
       PROVE  Known(w)'
  <2>1. nextVersion[w] <= C(u)
    BY <1>2, <1>11, RejectedIsOvertaken DEF PutRejected
  <2>2. /\ attempt'[w] = attempt[w] + 1
        /\ pc'[w] \notin {"put", "returned"}
        /\ pc[w] = "put"
        /\ UNCHANGED <<items, user, base, lagged>>
    BY <1>11 DEF PutRejected, IInv, TypeOK
  <2>3. C(user[w])' = C(u)
    BY <1>2, <2>2 DEF VersionsOf
  <2> HIDE DEF C
  <2>4. QED  BY <1>1, <1>3, <1>4, <1>6, <2>1, <2>2, <2>3
<1>12. ASSUME StoreError(w)
       PROVE  Known(w)'
  <2>1. /\ pc'[w] \notin {"put", "returned"}
        /\ UNCHANGED <<items, user, base, attempt, lagged>>
    BY <1>12 DEF StoreError, IInv, TypeOK
  <2>2. C(user[w])' = C(u)
    BY <1>2, <2>1 DEF VersionsOf
  <2> HIDE DEF C
  <2>3. QED  BY <1>1, <1>6, <2>1, <2>2
<1>13. QED
  <2> HIDE DEF Known
  <2>1. QED
    BY <1>7, <1>8, <1>9, <1>10, <1>11, <1>12, WriterSteps DEF StoreStep, IInv

(* Items hold vectors of calls that have begun: a new call has no copies.  *)
LEMMA CallsBegunKept ==
    ASSUME IInv, CallsBegun, [Next]_vars
    PROVE  CallsBegun'
<1> SUFFICES ASSUME NEW i \in items' PROVE i.vector[2] <= calls'[i.vector[1]]
  BY DEF CallsBegun
<1>1. items' \subseteq Item
  BY NextIInv DEF IInv, TypeOK
<1>2. i.vector \in VectorIds /\ i.vector[1] \in Writers /\ i.vector[2] \in Nat
  BY <1>1, StoreAssumption DEF Item, VectorIds
<1>3. ASSUME NEW w \in Writers
      PROVE  calls[w] \in Nat /\ calls'[w] \in Nat /\ calls[w] <= calls'[w]
  <2>1. calls[w] \in Nat
    BY StoreAssumption DEF IInv, TypeOK
  <2>2. calls'[w] = calls[w] \/ calls'[w] = calls[w] + 1
    <3>1. \A u \in Users : StartStore(w, u) => calls'[w] = calls[w] + 1
      BY DEF StartStore, IInv, TypeOK
    <3>2. StoreStep(w) \/ StoreError(w) => calls' = calls
      BY DEF StoreStep, QueryNextVersion, PutAccepted, PutAnswerLost, PutRejected,
             StoreError
    <3>3. WriterIdle(w) => calls'[w] = calls[w]
      BY DEF WriterIdle
    <3>4. QED  BY <3>1, <3>2, <3>3, WriterSteps DEF IInv
  <2>3. QED  BY <2>1, <2>2
<1>4. CASE i \in items
  BY <1>2, <1>3, <1>4 DEF CallsBegun
<1>5. ASSUME NEW w \in Writers, PutCondition(w), WriteItem(w), i \notin items
      PROVE  i.vector[2] <= calls'[i.vector[1]]
  <2>1. i.vector = Vector(w)
    BY <1>5, WriteAdds
  <2>2. i.vector[1] = w /\ i.vector[2] = calls[w]
    BY <2>1 DEF Vector
  <2>3. QED  BY <1>3, <2>2
<1>6. QED  BY <1>4, <1>5, TableSteps

(* A call has as many copies as the answers it lost and the one it got.    *)
LEMMA CopiesCountedKept ==
    ASSUME IInv, IInv', CallsBegun, CopiesCounted, [Next]_vars
    PROVE  CopiesCounted'
<1> SUFFICES ASSUME NEW w \in Writers
             PROVE  Cardinality(OwnCopies(w)') <=
                      lost'[w] + (IF pc'[w] = "returned" THEN 1 ELSE 0)
  BY DEF CopiesCounted
<1>1. /\ Cardinality(OwnCopies(w)) <=
           lost[w] + (IF pc[w] = "returned" THEN 1 ELSE 0)
      /\ lost[w] \in Nat
  BY DEF CopiesCounted, IInv, TypeOK
<1>2. IsFiniteSet(OwnCopies(w)) /\ Cardinality(OwnCopies(w)) \in Nat
  BY FS_Subset, FS_CardinalityType DEF OwnCopies, IInv
<1>3. CASE WriterIdle(w)
  <2>1. UNCHANGED <<user[w], Vector(w), pc[w], lost[w]>>
    BY <1>3 DEF WriterIdle, Vector
  <2>2. OwnCopies(w)' = OwnCopies(w)
    <3>1. CASE UNCHANGED items
      BY <2>1, <3>1 DEF OwnCopies
    <3>2. ASSUME NEW x \in Writers, PutCondition(x), WriteItem(x), pc[x] = "put",
                 x # w
          PROVE  OwnCopies(w)' = OwnCopies(w)
      <4>1. Vector(x) # Vector(w)
        BY <3>2 DEF Vector
      <4>2. QED  BY <2>1, <3>2, <4>1, WriteAdds DEF OwnCopies
    <3>3. ASSUME NEW x \in Writers, PutAccepted(x) \/ PutAnswerLost(x), x = w
          PROVE  FALSE
      BY <3>3, <1>3 DEF PutAccepted, PutAnswerLost, WriterIdle, IInv, TypeOK
    <3>4. QED  BY <3>1, <3>2, <3>3, WritingSteps
  <2>3. QED  BY <1>1, <2>1, <2>2
<1>4. ASSUME NEW u \in Users, StartStore(w, u)
      PROVE  Cardinality(OwnCopies(w)') <= lost'[w]
  <2>1. /\ items' = items
        /\ calls'[w] = calls[w] + 1
        /\ lost'[w] = 0
    BY <1>4 DEF StartStore, IInv, TypeOK
  <2>2. \A i \in items : i.vector # <<w, calls[w] + 1>>
    <3>1. \A i \in items : i.vector[1] = w => i.vector[2] <= calls[w]
      BY DEF CallsBegun
    <3>2. calls[w] \in Nat
      BY StoreAssumption DEF IInv, TypeOK
    <3>3. QED  BY <3>1, <3>2
  <2>3. OwnCopies(w)' = {}
    BY <2>1, <2>2 DEF OwnCopies, Vector
  <2>4. QED  BY <2>1, <2>3, FS_EmptySet
<1>5. ASSUME PutAccepted(w) \/ PutAnswerLost(w)
      PROVE  Cardinality(OwnCopies(w)') <= Cardinality(OwnCopies(w)) + 1
  <2> DEFINE new == [user |-> user[w], version |-> nextVersion[w],
                     vector |-> Vector(w)]
  <2>1. /\ items' = items \cup {new}
        /\ UNCHANGED <<user, calls>>
    BY <1>5, WriteAdds DEF PutAccepted, PutAnswerLost
  <2>2. OwnCopies(w)' = OwnCopies(w) \cup {new}
    BY <2>1 DEF OwnCopies, Vector
  <2>3. Cardinality(OwnCopies(w) \cup {new}) \in
          {Cardinality(OwnCopies(w)), Cardinality(OwnCopies(w)) + 1}
    <3> HIDE DEF new
    <3>1. QED  BY <1>2, FS_AddElement
  <2>4. QED  BY <1>2, <2>2, <2>3
<1>6. ASSUME QueryNextVersion(w) \/ PutRejected(w) \/ StoreError(w)
      PROVE  /\ OwnCopies(w)' = OwnCopies(w) /\ lost'[w] = lost[w]
             /\ pc[w] # "returned"
  BY <1>6 DEF QueryNextVersion, PutRejected, StoreError, InStore, OwnCopies, Vector
<1>p. ASSUME PutAccepted(w) \/ PutAnswerLost(w)
      PROVE  /\ Cardinality(OwnCopies(w)') \in Nat
             /\ Cardinality(OwnCopies(w)) <= lost[w]
  <2>1. IsFiniteSet(OwnCopies(w)')
    BY FS_Subset DEF OwnCopies, IInv
  <2>2. Cardinality(OwnCopies(w)') \in Nat
    BY <2>1, FS_CardinalityType
  <2>3. pc[w] = "put"
    BY <1>p DEF PutAccepted, PutAnswerLost
  <2>4. QED  BY <1>1, <2>2, <2>3
<1>7. CASE PutAccepted(w)
  <2>1. lost'[w] = lost[w] /\ pc'[w] = "returned"
    BY <1>7 DEF PutAccepted, IInv, TypeOK
  <2>2. QED  BY <1>1, <1>2, <1>5, <1>p, <1>7, <2>1
<1>8. CASE PutAnswerLost(w)
  <2>1. lost'[w] = lost[w] + 1 /\ pc'[w] = "put"
    BY <1>8 DEF PutAnswerLost, IInv, TypeOK
  <2>2. QED  BY <1>1, <1>2, <1>5, <1>p, <1>8, <2>1
<1>9. CASE \E u \in Users : StartStore(w, u)
  <2>1. lost'[w] \in Nat /\ pc'[w] = "query"
    BY <1>9 DEF StartStore, IInv, TypeOK
  <2>2. QED  BY <1>4, <1>9, <2>1
<1>10. CASE QueryNextVersion(w) \/ PutRejected(w) \/ StoreError(w)
  <2>1. 0 <= (IF pc'[w] = "returned" THEN 1 ELSE 0)
    OBVIOUS
  <2>2. Cardinality(OwnCopies(w)') <= lost'[w] /\ lost'[w] \in Nat
    BY <1>1, <1>6, <1>10
  <2>3. QED  BY <1>2, <1>6, <1>10, <2>1, <2>2
<1>11. QED
  BY <1>3, <1>7, <1>8, <1>9, <1>10, WriterSteps DEF StoreStep, IInv

-----------------------------------------------------------------------------
(* The readers                                                             *)

(* What a page may see are versions that are there.                        *)
LEMMA VisibleIsThere ==
    ASSUME IInv, NEW u \in Users, NEW m \in Visible(u)
    PROVE  m \in Nat /\ m <= Cardinality(VersionsOf(u))
<1> DEFINE c == Cardinality(VersionsOf(u))
<1>1. VersionsOf(u) = 1 .. c /\ c \in Nat
  BY VersionsAreInterval
<1>2. m \in {0} \cup VersionsOf(u)
  BY DEF Visible
<1> HIDE DEF c
<1>3. m \in Nat /\ m <= c
  BY <1>1, <1>2
<1>4. QED  BY <1>3 DEF c

(* A page has no gap: it holds every remaining item below one it holds.    *)
LEMMA PageIsClosed ==
    ASSUME NEW S \in SUBSET Item, IsFiniteSet(S), NEW i \in Page(S), NEW j \in S,
           j.version <= i.version
    PROVE  j \in Page(S)
<1> DEFINE Below(k) == {l \in S : l.version < k.version}
<1>1. i \in S /\ Cardinality(Below(i)) < PageSize
  BY DEF Page
<1>2. \A k \in S : k.version \in Nat
  BY DEF Item
<1>3. Below(j) \subseteq Below(i)
  BY <1>1, <1>2
<1>4. IsFiniteSet(Below(i)) /\ IsFiniteSet(Below(j))
  BY FS_Subset
<1>5. Cardinality(Below(j)) <= Cardinality(Below(i))
  BY <1>3, <1>4, FS_Subset
<1>6. Cardinality(Below(j)) \in Nat /\ Cardinality(Below(i)) \in Nat
  BY <1>4, FS_CardinalityType
<1> HIDE DEF Below
<1>7. Cardinality(Below(j)) < PageSize
  BY <1>1, <1>5, <1>6, StoreAssumption
<1>8. QED  BY <1>7 DEF Page, Below

(* A page that is not the last holds what remains up to its last item.     *)
LEMMA PageUpToLast ==
    ASSUME NEW S \in SUBSET Item, IsFiniteSet(S), NEW last \in Page(S),
           \A i \in Page(S) : i.version <= last.version
    PROVE  Page(S) = {i \in S : i.version <= last.version}
<1>1. Page(S) \subseteq S
  BY DEF Page
<1>2. QED  BY <1>1, PageIsClosed

(* Reading on: a list of the wanted items between two versions continues   *)
(* what was collected up to the first.                                     *)
LEMMA ReadOn ==
    ASSUME NEW s \in Seq(Item), NEW list \in Seq(Item), Ascending(s), Ascending(list),
           NEW c \in Nat,
           \A k \in DOMAIN s : s[k].version <= c,
           \A k \in DOMAIN list : list[k].version > c
    PROVE  /\ Ascending(s \o list)
           /\ {(s \o list)[k] : k \in DOMAIN (s \o list)} =
                {s[k] : k \in DOMAIN s} \cup {list[k] : k \in DOMAIN list}
<1> DEFINE t == s \o list
<1>1. /\ t \in Seq(Item)
      /\ Len(t) = Len(s) + Len(list)
      /\ \A k \in 1 .. Len(s) + Len(list) :
            t[k] = IF k <= Len(s) THEN s[k] ELSE list[k - Len(s)]
  BY ConcatProperties
<1>2. Len(s) \in Nat /\ Len(list) \in Nat
  OBVIOUS
<1>3. /\ DOMAIN s = 1 .. Len(s) /\ DOMAIN list = 1 .. Len(list)
      /\ DOMAIN t = 1 .. Len(s) + Len(list)
  BY <1>1
<1> HIDE DEF t
<1>4. ASSUME NEW j \in DOMAIN t, NEW k \in DOMAIN t, j < k
      PROVE  t[j].version < t[k].version
  <2>1. CASE k <= Len(s)
    <3>1. j \in DOMAIN s /\ k \in DOMAIN s /\ t[j] = s[j] /\ t[k] = s[k]
      BY <1>1, <1>2, <1>3, <1>4, <2>1
    <3>2. QED  BY <1>4, <3>1 DEF Ascending
  <2>2. CASE j > Len(s)
    <3>1. /\ j - Len(s) \in DOMAIN list /\ k - Len(s) \in DOMAIN list
          /\ t[j] = list[j - Len(s)] /\ t[k] = list[k - Len(s)]
          /\ j - Len(s) < k - Len(s)
      BY <1>1, <1>2, <1>3, <1>4, <2>2
    <3>2. QED  BY <3>1 DEF Ascending
  <2>3. CASE j <= Len(s) /\ k > Len(s)
    <3>1. /\ j \in DOMAIN s /\ t[j] = s[j]
          /\ k - Len(s) \in DOMAIN list /\ t[k] = list[k - Len(s)]
      BY <1>1, <1>2, <1>3, <1>4, <2>3
    <3>2. t[j].version <= c /\ t[k].version > c
      BY <3>1
    <3>3. t[j] \in Item /\ t[k] \in Item
      BY <1>1, <1>4
    <3>4. t[j].version \in Nat /\ t[k].version \in Nat
      BY <3>3 DEF Item
    <3>5. QED  BY <3>2, <3>4
  <2>4. QED  BY <1>2, <1>3, <1>4, <2>1, <2>2, <2>3
<1>5. \A k \in DOMAIN t : \/ k \in DOMAIN s /\ t[k] = s[k]
                          \/ k - Len(s) \in DOMAIN list /\ t[k] = list[k - Len(s)]
  BY <1>1, <1>2, <1>3
<1>6. \A k \in DOMAIN s : k \in DOMAIN t /\ t[k] = s[k]
  BY <1>1, <1>2, <1>3
<1>7. \A k \in DOMAIN list : k + Len(s) \in DOMAIN t /\ t[k + Len(s)] = list[k]
  BY <1>1, <1>2, <1>3
<1>8. {t[k] : k \in DOMAIN t} =
        {s[k] : k \in DOMAIN s} \cup {list[k] : k \in DOMAIN list}
  BY <1>5, <1>6, <1>7
<1>9. QED  BY <1>4, <1>8 DEF Ascending, t

(* A page adds what is wanted of the versions that follow those read.      *)
LEMMA ReadPageCollects ==
    ASSUME IInv, NEW r \in Readers, ReadPage(r), Ascending(got[r]),
           floor[r] <= Cardinality(VersionsOf(ruser[r])),
           NEW c \in Nat, ReadUpTo(r, c)
    PROVE  /\ Ascending(got'[r])
           /\ \E d \in Nat : ReadUpTo(r, d)'
<1>1. PICK m \in Visible(ruser[r]) : \E list : PageTaken(r, m, list)
  BY PageRead
<1>2. PICK list : PageTaken(r, m, list)
  BY <1>1
<1> DEFINE left == Remaining(r, m)
           page == Page(left)
           all == Cardinality(VersionsOf(ruser[r]))
<1>3. /\ ruser[r] \in Users
      /\ all \in Nat
      /\ floor[r] \in Nat
      /\ got[r] \in Seq(Item)
      /\ items \subseteq Item
      /\ IsFiniteSet(items)
  BY VersionsAreInterval DEF IInv, TypeOK
<1>4. /\ rpc[r] = "paging"
      /\ cursor[r] = c
      /\ UNCHANGED <<items, ruser, fromDate, floor, stale>>
  BY DEF ReadPage, ReadUpTo
<1>5. m \in Nat /\ m <= all
  BY <1>3, VisibleIsThere
<1>6. ~stale => m = all
  <2> SUFFICES ASSUME ~stale PROVE m = all  OBVIOUS
  <2>1. \A v \in VersionsOf(ruser[r]) : v \in Nat /\ v <= m
    BY <1>3 DEF Visible, VersionsOf, Item
  <2>2. \A v \in VersionsOf(ruser[r]) : ~(v > m)
    BY <1>5, <2>1
  <2>3. QED  BY <1>3, <2>2, NewestIsAll
<1>7. left = {i \in items : i.user = ruser[r] /\ i.version > c /\ i.version <= m}
  BY <1>4 DEF Remaining
<1>8. page \subseteq left
  BY DEF Page
<1>9. /\ list \in Seq(Item)
      /\ {i \in page : InRange(r, i)} = {list[k] : k \in DOMAIN list}
      /\ Ascending(list)
  <2>1. list \in Listings({i \in page : InRange(r, i)})
    BY <1>2 DEF PageTaken
  <2>2. {i \in page : InRange(r, i)} \in SUBSET items
    BY <1>7, <1>8
  <2> HIDE DEF page
  <2>3. QED  BY <1>3, <2>1, <2>2, ListingTyped DEF Ascending
<1>10. got'[r] = got[r] \o list
  BY <1>2 DEF PageTaken, IInv, TypeOK
<1>11. /\ Ascending(got'[r])
       /\ Collected(r)' = Collected(r) \cup {i \in page : InRange(r, i)}
  <2>1. \A k \in DOMAIN got[r] : got[r][k].version <= c
    BY DEF ReadUpTo, Collected
  <2>2. \A k \in DOMAIN list : list[k].version > c
    BY <1>7, <1>8, <1>9
  <2> HIDE DEF page
  <2>3. /\ Ascending(got[r] \o list)
        /\ {(got[r] \o list)[k] : k \in DOMAIN (got[r] \o list)} =
             {got[r][k] : k \in DOMAIN got[r]} \cup {list[k] : k \in DOMAIN list}
    BY <1>3, <1>9, <2>1, <2>2, ReadOn
  <2>4. Collected(r)' =
          {(got[r] \o list)[k] : k \in DOMAIN (got[r] \o list)}
    BY <1>10 DEF Collected
  <2>5. QED  BY <1>9, <1>10, <2>3, <2>4 DEF Collected
<1>12. ASSUME NEW d \in Nat, d >= c,
              page = {i \in items : i.user = ruser[r] /\ i.version > c /\ i.version <= d}
       PROVE  Collected(r)' = {i \in Wanted(r)' : i.version <= d}
  <2>1. \A i \in items : i.version \in Nat
    BY <1>3 DEF Item
  <2>2. Wanted(r)' = Wanted(r)
    BY <1>4 DEF Wanted, InRange
  <2>3. Collected(r) = {i \in Wanted(r) : i.version <= c}
    BY DEF ReadUpTo
  <2> HIDE DEF page
  <2>4. QED  BY <1>11, <1>12, <2>1, <2>2, <2>3 DEF Wanted
<1>13. c <= all
  BY DEF ReadUpTo
<1>14. VersionsOf(ruser[r])' = VersionsOf(ruser[r])
  BY <1>4 DEF VersionsOf
<1>15. CASE page = left /\ rpc' = [rpc EXCEPT ![r] = "complete"]
  <2>1. rpc'[r] = "complete"
    BY <1>15 DEF IInv, TypeOK
  <2>2. PICK d \in Nat : d = IF m > c THEN m ELSE c
    BY <1>5
  <2>3. d >= c /\ d <= all /\ (m > c => d = m) /\ (~(m > c) => d = c) /\ d >= m
    BY <1>5, <1>13, <1>3, <2>2
  <2>4. \A i \in items : i.version \in Nat
    BY <1>3 DEF Item
  <2>5. page = {i \in items : i.user = ruser[r] /\ i.version > c /\ i.version <= d}
    BY <1>5, <1>7, <1>15, <2>3, <2>4
  <2>6. Collected(r)' = {i \in Wanted(r)' : i.version <= d}
    BY <1>12, <2>3, <2>5
  <2>7. ~stale => floor[r] <= d
    BY <1>3, <1>6, <2>3
  <2> HIDE DEF page, left
  <2>8. ReadUpTo(r, d)'
    BY <1>4, <1>14, <2>1, <2>3, <2>6, <2>7 DEF ReadUpTo
  <2>9. QED  BY <1>11, <2>8
<1>16. ASSUME NEW last \in page,
              \A i \in page : i.version <= last.version,
              cursor' = [cursor EXCEPT ![r] = last.version],
              UNCHANGED rpc
       PROVE  \E d \in Nat : ReadUpTo(r, d)'
  <2>1. last.version \in Nat /\ last.version > c /\ last.version <= m
    BY <1>3, <1>7, <1>8 DEF Item
  <2>2. page = {i \in left : i.version <= last.version}
    <3>1. left \in SUBSET Item /\ IsFiniteSet(left)
      BY <1>3, <1>7, FS_Subset
    <3> HIDE DEF left
    <3>2. QED  BY <1>16, <3>1, PageUpToLast
  <2>3. page = {i \in items : /\ i.user = ruser[r]
                              /\ i.version > c
                              /\ i.version <= last.version}
    <3>1. \A i \in items : i.version \in Nat
      BY <1>3 DEF Item
    <3>2. QED  BY <1>5, <1>7, <2>1, <2>2, <3>1
  <2>4. Collected(r)' = {i \in Wanted(r)' : i.version <= last.version}
    BY <1>12, <2>1, <2>3
  <2>5. cursor'[r] = last.version /\ rpc'[r] = "paging" /\ last.version <= all
    BY <1>3, <1>4, <1>5, <1>16, <2>1 DEF IInv, TypeOK
  <2> HIDE DEF page, left
  <2>6. ReadUpTo(r, last.version)'
    BY <1>4, <1>14, <2>4, <2>5 DEF ReadUpTo
  <2>7. QED  BY <2>1, <2>6
<1>17. QED
  BY <1>2, <1>11, <1>15, <1>16 DEF PageTaken

(* Writers and other readers take nothing away from what was read, and a   *)
(* new version is later than any.                                          *)
LEMMA ReadSoFarKept ==
    ASSUME IInv, ReadSoFar, [Next]_vars
    PROVE  ReadSoFar'
<1> DEFINE Own(r) == /\ Ascending(got[r])
                     /\ floor[r] <= Cardinality(VersionsOf(ruser[r]))
                     /\ \E c \in Nat : ReadUpTo(r, c)
<1> SUFFICES ASSUME NEW r \in Readers PROVE Own(r)'
  BY DEF ReadSoFar
<1>1. Own(r)
  BY DEF ReadSoFar
<1>2. PICK u \in Users : u = ruser[r]
  BY DEF IInv, TypeOK
<1>3. /\ Cardinality(VersionsOf(u)) \in Nat
      /\ Cardinality(VersionsOf(u))' \in Nat
      /\ Cardinality(VersionsOf(u)) <= Cardinality(VersionsOf(u))'
      /\ items \subseteq items'
  BY VersionsGrow
<1>4. floor[r] \in Nat
  BY DEF IInv, TypeOK
<1>5. ASSUME ruser'[r] = ruser[r]
      PROVE  /\ Cardinality(VersionsOf(ruser[r]))' = Cardinality(VersionsOf(u))'
             /\ Cardinality(VersionsOf(ruser[r])) = Cardinality(VersionsOf(u))
  BY <1>2, <1>5 DEF VersionsOf
<1>6. stale' = stale
  BY DEF Next, vars, StoreStep, StartStore, QueryNextVersion, PutAccepted,
         PutAnswerLost, PutRejected, StoreError, StartHistory, ReadPage
<1>7. CASE UNCHANGED <<rpc[r], ruser[r], fromDate[r], cursor[r], got[r], floor[r]>>
  <2>1. PICK c \in Nat : ReadUpTo(r, c)
    BY <1>1
  <2>2. {i \in Wanted(r)' : i.version <= c} = {i \in Wanted(r) : i.version <= c}
    <3>1. CASE UNCHANGED items
      BY <1>7, <3>1 DEF Wanted, InRange
    <3>2. ASSUME NEW w \in Writers, pc[w] = "put", PutCondition(w), WriteItem(w)
          PROVE  {i \in Wanted(r)' : i.version <= c} =
                   {i \in Wanted(r) : i.version <= c}
      <4> DEFINE new == [user |-> user[w], version |-> nextVersion[w],
                         vector |-> Vector(w)]
      <4>1. items' = items \cup {new}
        BY <3>2, WriteAdds
      <4>2. new.user = ruser[r] => ~(new.version <= c)
        <5>1. nextVersion[w] = Cardinality(VersionsOf(user[w])) + 1
          BY <3>2, PutIsNext
        <5>2. user[w] = ruser[r] => nextVersion[w] = Cardinality(VersionsOf(u)) + 1
          BY <1>2, <5>1
        <5>3. c <= Cardinality(VersionsOf(u))
          BY <1>2, <2>1 DEF ReadUpTo
        <5>4. QED  BY <1>3, <5>2, <5>3
      <4> HIDE DEF new
      <4>3. QED  BY <1>7, <4>1, <4>2 DEF Wanted, InRange
    <3>3. QED  BY <3>1, <3>2, TableSteps
  <2>3. Collected(r)' = Collected(r)
    BY <1>7 DEF Collected
  <2>4. floor'[r] <= Cardinality(VersionsOf(ruser[r]))'
        /\ c <= Cardinality(VersionsOf(ruser[r]))'
    <3>1. floor[r] <= Cardinality(VersionsOf(u)) /\ c <= Cardinality(VersionsOf(u))
      BY <1>1, <1>2, <2>1 DEF ReadUpTo
    <3>2. QED  BY <1>3, <1>4, <1>5, <1>7, <3>1
  <2>5. ReadUpTo(r, c)'
    BY <1>6, <1>7, <2>1, <2>2, <2>3, <2>4 DEF ReadUpTo
  <2>6. QED  BY <1>1, <1>7, <2>4, <2>5
<1>8. ASSUME NEW x \in Users, StartHistory(r, x)
      PROVE  Own(r)'
  <2>1. /\ ruser'[r] = x
        /\ got'[r] = << >>
        /\ cursor'[r] = 0
        /\ rpc'[r] = "paging"
        /\ floor'[r] = Cardinality(VersionsOf(x))
        /\ items' = items
    BY <1>8 DEF StartHistory, IInv, TypeOK
  <2>2. Cardinality(VersionsOf(x)) \in Nat
    BY VersionsGrow
  <2>3. Cardinality(VersionsOf(ruser[r]))' = Cardinality(VersionsOf(x))
    BY <2>1 DEF VersionsOf
  <2>4. \A i \in items : i.version \in Nat \ {0}
    BY DEF IInv, TypeOK, Item
  <2>5. Collected(r)' = {} /\ {i \in Wanted(r)' : i.version <= 0} = {}
    BY <2>1, <2>4 DEF Collected, Wanted
  <2>6. ReadUpTo(r, 0)'
    BY <2>1, <2>2, <2>3, <2>5 DEF ReadUpTo
  <2>7. QED  BY <2>1, <2>2, <2>3, <2>6 DEF Ascending
<1>9. ASSUME ReadPage(r)
      PROVE  Own(r)'
  <2>1. ruser' = ruser /\ floor' = floor /\ items' = items
    BY <1>9 DEF ReadPage
  <2>2. Ascending(got'[r]) /\ \E c \in Nat : ReadUpTo(r, c)'
    BY <1>1, <1>9, ReadPageCollects
  <2>3. floor'[r] <= Cardinality(VersionsOf(ruser[r]))'
    BY <1>1, <2>1 DEF VersionsOf
  <2>4. QED  BY <2>2, <2>3
<1>10. ASSUME NEW q \in Readers, q # r,
              ReadPage(q) \/ \E x \in Users : StartHistory(q, x)
       PROVE  UNCHANGED <<rpc[r], ruser[r], fromDate[r], cursor[r], got[r], floor[r]>>
  BY <1>10 DEF ReadPage, StartHistory, IInv, TypeOK
<1>11. ASSUME NEW w \in Writers,
              \/ \E x \in Users : StartStore(w, x)
              \/ StoreStep(w)
              \/ StoreError(w)
       PROVE  UNCHANGED readerVars
  BY <1>11 DEF StoreStep, StartStore, QueryNextVersion, PutAccepted,
               PutAnswerLost, PutRejected, StoreError
<1>12. QED
  <2> HIDE DEF Own
  <2>1. CASE UNCHANGED readerVars
    BY <2>1, <1>7 DEF readerVars
  <2>2. CASE \E q \in Readers : \/ \E x \in Users : StartHistory(q, x)
                                \/ ReadPage(q)
    BY <2>2, <1>7, <1>8, <1>9, <1>10
  <2>3. QED  BY <2>1, <2>2, <1>11 DEF Next, vars

-----------------------------------------------------------------------------
(* The log that the table implements                                       *)

(* The log of a user lists the vectors of the user's items by version.     *)
LogMatches ==
    \A u \in Users :
        /\ AbstractLog[u] \in Seq(VectorIds)
        /\ VersionsOf(u) = 1 .. Len(AbstractLog[u])
        /\ \A i \in items : i.user = u => AbstractLog[u][i.version] = i.vector

(* A key finds one item, so the entries are well defined.                  *)
LEMMA LogEntries == IInv /\ KeyUnique => LogMatches
<1> SUFFICES ASSUME IInv, KeyUnique, NEW u \in Users
             PROVE  /\ AbstractLog[u] \in Seq(VectorIds)
                    /\ VersionsOf(u) = 1 .. Len(AbstractLog[u])
                    /\ \A i \in items : i.user = u =>
                          AbstractLog[u][i.version] = i.vector
  BY DEF LogMatches
<1> DEFINE c == Cardinality(VersionsOf(u))
<1>1. VersionsOf(u) = 1 .. c /\ c \in Nat
  BY VersionsAreInterval
<1>2. \A v \in 1 .. c : \E i \in items : i.user = u /\ i.version = v
  BY <1>1 DEF VersionsOf
<1>3. \A i \in items : i.user = u => i.version \in 1 .. c
  BY <1>1 DEF VersionsOf
<1>4. ASSUME NEW i \in items, i.user = u
      PROVE  AbstractLog[u][i.version] = i.vector
  <2>1. (CHOOSE j \in items : j.user = u /\ j.version = i.version) = i
    BY <1>4 DEF KeyUnique
  <2>2. QED  BY <1>3, <1>4, <2>1 DEF AbstractLog
<1>5. \A v \in 1 .. c : AbstractLog[u][v] \in VectorIds
  BY <1>2, <1>4 DEF IInv, TypeOK, Item
<1>6. AbstractLog[u] = [v \in 1 .. c |-> AbstractLog[u][v]]
  BY DEF AbstractLog
<1>7. VersionsOf(u) = 1 .. c
  BY <1>1
<1> HIDE DEF c
<1>8. AbstractLog[u] \in [1 .. c -> VectorIds]
  BY <1>5, <1>6
<1>9. AbstractLog[u] \in Seq(VectorIds) /\ Len(AbstractLog[u]) = c
  BY <1>1, <1>8
<1>10. QED  BY <1>4, <1>7, <1>9

(* A put on a free key is an append to the log of its user.                *)
LEMMA PutAppends ==
    ASSUME IInv, KeyUnique, IInv', KeyUnique',
           NEW w \in Writers, pc[w] = "put", PutCondition(w), WriteItem(w)
    PROVE  Log!LogNext
<1> DEFINE new == [user |-> user[w], version |-> nextVersion[w],
                   vector |-> Vector(w)]
           L(u) == AbstractLog[u]
<1>1. items' = items \cup {new}
  BY WriteAdds
<1>n. new.user = user[w] /\ new.version = nextVersion[w] /\ new.vector = Vector(w)
  OBVIOUS
<1> HIDE DEF new
<1>2. PICK x \in Users : x = user[w]
  BY DEF IInv, TypeOK
<1>3. PICK d \in VectorIds : d = Vector(w)
  BY DEF IInv, Started, Vector, VectorIds
<1>4. nextVersion[w] \notin VersionsOf(x) /\ nextVersion[w] \in Nat \ {0}
  BY <1>2 DEF PutCondition, KeyTaken, VersionsOf, IInv, PutReady
<1>5. LogMatches
  BY LogEntries
<1>6. LogMatches'
  BY LogEntries, PTL
<1>7. ASSUME NEW u \in Users, u # x
      PROVE  L(u)' = L(u)
  <2>1. VersionsOf(u)' = VersionsOf(u)
    BY <1>1, <1>n, <1>2, <1>7 DEF VersionsOf
  <2>2. /\ L(u) \in Seq(VectorIds) /\ L(u)' \in Seq(VectorIds)
        /\ VersionsOf(u) = 1 .. Len(L(u)) /\ VersionsOf(u)' = 1 .. Len(L(u)')
    BY <1>5, <1>6 DEF LogMatches
  <2>3. \A v \in VersionsOf(u) : L(u)'[v] = L(u)[v]
    BY <1>1, <1>5, <1>6 DEF LogMatches, VersionsOf
  <2> HIDE DEF L
  <2>4. Len(L(u)) = Len(L(u)')
    BY <2>1, <2>2
  <2>5. QED  BY <2>2, <2>3, <2>4, SeqEqual
<1>8. L(x)' = Append(L(x), d)
  <2>1. VersionsOf(x)' = VersionsOf(x) \cup {nextVersion[w]}
    BY <1>1, <1>n, <1>2 DEF VersionsOf
  <2>2. /\ L(x) \in Seq(VectorIds) /\ L(x)' \in Seq(VectorIds)
        /\ VersionsOf(x) = 1 .. Len(L(x)) /\ VersionsOf(x)' = 1 .. Len(L(x)')
    BY <1>5, <1>6 DEF LogMatches
  <2>3. \A v \in VersionsOf(x) : L(x)'[v] = L(x)[v]
    BY <1>1, <1>5, <1>6 DEF LogMatches, VersionsOf
  <2>4. L(x)'[nextVersion[w]] = d
    BY <1>1, <1>n, <1>2, <1>3, <1>6 DEF LogMatches
  <2> HIDE DEF L
  <2>5. nextVersion[w] = Len(L(x)) + 1
    <3>1. PICK m \in Nat : m = Len(L(x))
      BY <2>2
    <3>2. Cardinality(1 .. m) = m
      BY FS_Interval
    <3>3. Cardinality(VersionsOf(x)) = m
      BY <2>2, <3>1, <3>2
    <3>4. QED  BY <1>2, <3>1, <3>3, PutIsNext
  <2>6. Len(L(x)') = Len(L(x)) + 1
    <3>1. PICK m \in Nat : m = Len(L(x))
      BY <2>2
    <3>2. PICK n \in Nat : n = Len(L(x)')
      BY <2>2
    <3>3. 1 .. n = 1 .. m \cup {m + 1}
      BY <2>1, <2>2, <2>5, <3>1, <3>2
    <3>4. n \in {0} \cup 1 .. n /\ m + 1 \in 1 .. n
      BY <3>3
    <3>5. n = m + 1
      BY <3>3, <3>4
    <3>6. QED  BY <3>1, <3>2, <3>5
  <2>7. /\ Append(L(x), d) \in Seq(VectorIds)
        /\ Len(Append(L(x), d)) = Len(L(x)) + 1
        /\ \A v \in 1 .. Len(L(x)) : Append(L(x), d)[v] = L(x)[v]
        /\ Append(L(x), d)[Len(L(x)) + 1] = d
    BY <2>2
  <2>8. QED  BY <2>2, <2>3, <2>4, <2>5, <2>6, <2>7, SeqEqual
<1>9. AbstractLog' = [AbstractLog EXCEPT ![x] = Append(@, d)]
  <2>1. /\ AbstractLog = [u \in Users |-> L(u)]
        /\ AbstractLog' = [u \in Users |-> L(u)']
    BY DEF AbstractLog
  <2> HIDE DEF L
  <2>2. QED  BY <1>7, <1>8, <2>1
<1>10. QED  BY <1>9 DEF Log!LogNext, Log!Store

(* What writers and readers know holds in every state.                     *)
LEMMA KInvHolds == Spec => []KInv
<1>1. Init => KInv
  <2> SUFFICES ASSUME Init PROVE KInv  OBVIOUS
  <2>1. IInv
    BY InitIInv
  <2>2. \A u : Cardinality(VersionsOf(u)) = 0
    BY FS_EmptySet DEF Init, VersionsOf
  <2>3. KeyUnique
    BY DEF Init, KeyUnique
  <2>4. ReadSoFar
    <3> SUFFICES ASSUME NEW r \in Readers
                 PROVE  /\ Ascending(got[r])
                        /\ floor[r] <= Cardinality(VersionsOf(ruser[r]))
                        /\ ReadUpTo(r, 0)
      BY DEF ReadSoFar
    <3>1. Cardinality(VersionsOf(ruser[r])) = 0
      BY <2>2
    <3>2. got[r] = << >> /\ floor[r] = 0 /\ rpc[r] = "idle" /\ items = {}
      BY DEF Init
    <3>3. QED  BY <3>1, <3>2 DEF Ascending, ReadUpTo, Collected, Wanted
  <2>5. Overtaken
    <3> SUFFICES ASSUME NEW w \in Writers
                 PROVE  /\ base[w] + attempt[w] <=
                             Cardinality(VersionsOf(user[w])) + lagged[w]
                        /\ pc[w] \notin {"put", "returned"}
      BY DEF Overtaken
    <3>1. QED  BY <2>2 DEF Init
  <2>6. CallsBegun
    BY DEF Init, CallsBegun
  <2>7. CopiesCounted
    <3> SUFFICES ASSUME NEW w \in Writers
                 PROVE  Cardinality(OwnCopies(w)) <= lost[w] /\ pc[w] = "idle"
      BY DEF CopiesCounted, Init
    <3>1. OwnCopies(w) = {}
      BY DEF Init, OwnCopies
    <3>2. QED  BY <3>1, FS_EmptySet DEF Init
  <2>8. QED  BY <2>1, <2>3, <2>4, <2>5, <2>6, <2>7 DEF KInv
<1>2. KInv /\ [Next]_vars => KInv'
  BY NextIInv, KeysStayUnique, ReadSoFarKept, OvertakenKept, CallsBegunKept,
     CopiesCountedKept DEF KInv
<1>3. QED  BY <1>1, <1>2, PTL DEF Spec

(* The versions above what a user had when w's call began are those of     *)
(* others and w's own.                                                     *)
LEMMA SinceTheCallBegan ==
    ASSUME IInv, KeyUnique, NEW w \in Writers
    PROVE  Cardinality(VersionsOf(user[w])) - base[w] <=
             Cardinality(Competing(w)) + Cardinality(OwnCopies(w))
<1> DEFINE c == Cardinality(VersionsOf(user[w]))
           newer == {i \in items : i.user = user[w] /\ i.version > base[w]}
           f == [i \in newer |-> i.version]
<1>1. user[w] \in Users /\ base[w] \in Nat /\ IsFiniteSet(items)
  BY DEF IInv, TypeOK
<1>2. VersionsOf(user[w]) = 1 .. c /\ c \in Nat
  BY <1>1, VersionsAreInterval
<1>3. IsFiniteSet(newer) /\ Cardinality(newer) \in Nat
  BY <1>1, FS_Subset, FS_CardinalityType
<1>4. f \in Bijection(newer, {v \in VersionsOf(user[w]) : v > base[w]})
  <2>1. \A i, j \in newer : i.version = j.version => i = j
    BY DEF KeyUnique
  <2>2. QED
    BY <2>1 DEF Bijection, Injection, Surjection, IsInjective, VersionsOf
<1>5. Cardinality(newer) = Cardinality(base[w] + 1 .. c)
  <2>1. {v \in VersionsOf(user[w]) : v > base[w]} = base[w] + 1 .. c
    <3> HIDE DEF c
    <3>1. QED  BY <1>1, <1>2
  <2> HIDE DEF newer, f, c
  <2>2. QED  BY <1>3, <1>4, <2>1, FS_Bijection DEF ExistsBijection
<1> HIDE DEF c
<1>6. c - base[w] <= Cardinality(newer)
  <2>1. Cardinality(base[w] + 1 .. c) =
          IF base[w] + 1 > c THEN 0 ELSE c - (base[w] + 1) + 1
    <3>1. base[w] + 1 \in Int /\ c \in Int
      BY <1>1, <1>2
    <3>2. QED  BY <3>1, FS_Interval
  <2> HIDE DEF newer
  <2>2. QED  BY <1>1, <1>2, <1>5, <2>1
<1>7. Cardinality(newer) <= Cardinality(Competing(w)) + Cardinality(OwnCopies(w))
  <2>1. newer \subseteq Competing(w) \cup OwnCopies(w)
    BY DEF Competing, OwnCopies
  <2>2. IsFiniteSet(Competing(w)) /\ IsFiniteSet(OwnCopies(w))
    BY <1>1, FS_Subset DEF Competing, OwnCopies
  <2>3. IsFiniteSet(Competing(w) \cup OwnCopies(w))
    BY <2>2, FS_Union
  <2>4. Cardinality(newer) <= Cardinality(Competing(w) \cup OwnCopies(w))
    BY <2>1, <2>3, FS_Subset
  <2>5. /\ Cardinality(Competing(w)) \in Nat /\ Cardinality(OwnCopies(w)) \in Nat
        /\ Cardinality(Competing(w) \cap OwnCopies(w)) \in Nat
    BY <2>2, FS_CardinalityType, FS_Intersection
  <2>6. Cardinality(Competing(w) \cup OwnCopies(w)) =
          Cardinality(Competing(w)) + Cardinality(OwnCopies(w))
            - Cardinality(Competing(w) \cap OwnCopies(w))
    BY <2>2, FS_Union
  <2> HIDE DEF newer
  <2>7. QED  BY <1>3, <2>4, <2>5, <2>6
<1>8. /\ Cardinality(Competing(w)) \in Nat
      /\ Cardinality(OwnCopies(w)) \in Nat
  BY <1>1, FS_Subset, FS_CardinalityType DEF Competing, OwnCopies
<1> HIDE DEF newer
<1>9. QED  BY <1>1, <1>2, <1>3, <1>6, <1>7, <1>8 DEF c

(* Each conflict of a call has a cause of its own: a version that another  *)
(* call stored since it began, a put of its own whose answer was lost, or  *)
(* a query of its own that a lagging replica answered; for any number of   *)
(* competing writers and retries.                                          *)
THEOREM ConflictsExplained == Spec => []ConflictsAreContention
<1>1. KInv => ConflictsAreContention
  <2> SUFFICES ASSUME KInv, NEW w \in Writers
               PROVE  attempt[w] <= Cardinality(Competing(w)) + lost[w] + lagged[w]
    BY DEF ConflictsAreContention
  <2> DEFINE c == Cardinality(VersionsOf(user[w]))
             returned == IF pc[w] = "returned" THEN 1 ELSE 0
  <2>1. /\ user[w] \in Users
        /\ base[w] \in Nat
        /\ attempt[w] \in Nat
        /\ lost[w] \in Nat
        /\ lagged[w] \in Nat
        /\ IsFiniteSet(items)
    BY DEF KInv, IInv, TypeOK
  <2>2. c \in Nat
    BY <2>1, VersionsAreInterval DEF KInv
  <2>3. base[w] + attempt[w] <= c + lagged[w] - returned
    <3>1. /\ base[w] + attempt[w] <= c + lagged[w]
          /\ pc[w] = "returned" => base[w] + attempt[w] < c + lagged[w]
      BY DEF KInv, Overtaken
    <3> HIDE DEF c
    <3>2. QED  BY <2>1, <2>2, <3>1
  <2>4. c - base[w] <= Cardinality(Competing(w)) + Cardinality(OwnCopies(w))
    BY SinceTheCallBegan DEF KInv
  <2>5. Cardinality(OwnCopies(w)) <= lost[w] + returned
    BY DEF KInv, CopiesCounted
  <2>6. /\ Cardinality(Competing(w)) \in Nat
        /\ Cardinality(OwnCopies(w)) \in Nat
        /\ returned \in Nat
    BY <2>1, FS_Subset, FS_CardinalityType DEF Competing, OwnCopies
  <2> HIDE DEF c, returned
  <2>7. QED  BY <2>1, <2>2, <2>3, <2>4, <2>5, <2>6
<1>2. QED  BY <1>1, KInvHolds, PTL

(* get_history() collects, in their order and each once, the first of the  *)
(* versions it looks for, for any page size and date filter, beside any    *)
(* number of writers and however much the replicas lag; and all of them    *)
(* that were stored when it began, if they do not lag.                     *)
THEOREM HistoryComplete == Spec => []HistoryIsWhole
<1>1. KInv => HistoryIsWhole
  <2> SUFFICES ASSUME KInv, NEW r \in Readers
               PROVE  /\ Ascending(got[r])
                      /\ Collected(r) \subseteq Wanted(r)
                      /\ \A i \in Wanted(r), c \in Collected(r) :
                            i.version <= c.version => i \in Collected(r)
                      /\ (~stale /\ rpc[r] = "complete") =>
                            \A i \in Wanted(r) :
                                i.version <= floor[r] => i \in Collected(r)
    BY DEF HistoryIsWhole, Ascending
  <2>1. PICK c \in Nat : ReadUpTo(r, c)
    BY DEF KInv, ReadSoFar
  <2>2. \A i \in Wanted(r) : i.version \in Nat
    BY DEF Wanted, KInv, IInv, TypeOK, Item
  <2>3. floor[r] \in Nat
    BY DEF KInv, IInv, TypeOK
  <2>4. Ascending(got[r])
    BY DEF KInv, ReadSoFar
  <2>5. Collected(r) = {i \in Wanted(r) : i.version <= c}
    BY <2>1 DEF ReadUpTo
  <2>6. (~stale /\ rpc[r] = "complete") => floor[r] <= c
    BY <2>1 DEF ReadUpTo
  <2>7. QED  BY <2>2, <2>3, <2>4, <2>5, <2>6
<1>2. QED  BY <1>1, KInvHolds, PTL

(* R9: the table under any number of racing writers implements the append- *)
(* only log: it starts empty, every accepted put appends its own vector to *)
(* the log of its user, and no other step changes any log.                 *)
THEOREM ImplementsAppendOnlyLog == Spec => ImplementsLog
<1>1. Init => Log!LogInit
  <2> SUFFICES ASSUME Init PROVE Log!LogInit  OBVIOUS
  <2>1. \A u \in Users : Cardinality(VersionsOf(u)) = 0
    BY FS_EmptySet DEF Init, VersionsOf
  <2>2. \A u \in Users : AbstractLog[u] = << >>
    BY <2>1 DEF AbstractLog
  <2>3. AbstractLog = [u \in Users |-> AbstractLog[u]]
    BY DEF AbstractLog
  <2>4. QED  BY <2>2, <2>3 DEF Log!LogInit
<1>2. KInv /\ KInv' /\ [Next]_vars => [Log!LogNext]_AbstractLog
  <2> SUFFICES ASSUME KInv, KInv', [Next]_vars
               PROVE  [Log!LogNext]_AbstractLog
    OBVIOUS
  <2>1. CASE UNCHANGED items
    BY <2>1 DEF AbstractLog, VersionsOf
  <2>2. ASSUME NEW w \in Writers, pc[w] = "put", PutCondition(w), WriteItem(w)
        PROVE  Log!LogNext
    BY <2>2, PutAppends DEF KInv
  <2>3. QED  BY <2>1, <2>2, TableSteps
<1>3. QED
  BY <1>1, <1>2, KInvHolds, PTL DEF Spec, ImplementsLog, Log!LogSpec
=============================================================================
