------------------------- MODULE StoreFeatures_proofs -------------------------
(***************************************************************************)
(* Machine-checked proofs about StoreFeatures, for any number of           *)
(* executions, any lists and any number of invocations.                    *)
(*                                                                         *)
(* Every step of the handlers is a step of FeatureStore or leaves the      *)
(* store alone (StageImplementsStore), so what is proved of store() holds  *)
(* while the handlers run it.  The call a handler waits for was given the  *)
(* vector the loop has come to (Sending); what store() returns for it is   *)
(* the key of that vector (ReturnedVersionIsOwn), and items stay.          *)
(*                                                                         *)
(* A put is the newest version of its user when it lands (PutIsNewest), so *)
(* the version noted in stored is the newest copy of its vector, and stays *)
(* so because the loop has passed that vector (StoredAreNewest); a list    *)
(* may name a subscriber several times.  The copies of a vector are        *)
(* counted against the invocations begun and the answers lost              *)
(* (CopiesBounded).                                                        *)
(***************************************************************************)
EXTENDS StoreFeatures, FeatureStore_proofs

(* A state waiting to be started has an invocation left.                   *)
TriesLeft == \A w \in Writers : at[w] = "scheduled" => tries[w] < MaxTries

(* sent records the vector of every store() call; the running one was      *)
(* given the vector the loop has come to.                                  *)
Sending ==
    \A w \in Writers :
        /\ sent[w] \in Seq(Nat \ {0})
        /\ Len(sent[w]) = calls[w]
        /\ at[w] = "storing" =>
              /\ pc[w] # "idle"
              /\ position[w] \in DOMAIN list[w]
              /\ user[w] = list[w][position[w]].user
              /\ sent[w][calls[w]] = position[w]

(* The key (u, v) holds the vector of u in w's list.                       *)
HoldsOwn(w, u, v) ==
    \E k \in DOMAIN list[w] :
        /\ list[w][k].user = u
        /\ \E i \in CopiesOf(w, k) : i.user = u /\ i.version = v

(* Every entry of stored is the key of the execution's own vector.         *)
StoredAreOwn ==
    \A w \in Writers : \A u \in DOMAIN stored[w] : HoldsOwn(w, u, stored[w][u])

StageInv == /\ IInv
            /\ StageTypeOK
            /\ TriesLeft
            /\ Sending
            /\ StoredAreOwn

-----------------------------------------------------------------------------
(* The refinement                                                          *)


(* The lists are what the assumption says, and never change.               *)
LEMMA ListEntries ==
    ASSUME list \in Lists, NEW w \in Writers, NEW k \in DOMAIN list[w]
    PROVE  list[w][k].user \in Users
<1> DEFINE Entry == [user : Users, ok : BOOLEAN]
<1>1. Lists \subseteq [Writers -> Seq(Entry)]
  BY ListAssumption
<1>2. list[w] \in Seq(Entry)
  BY <1>1
<1> HIDE DEF Entry
<1>3. list[w][k] \in Entry
  BY <1>2
<1>4. QED  BY <1>3 DEF Entry

(* The lists are chosen before the first invocation.                       *)
LEMMA ListsStay == ASSUME list \in Lists, [StageNext]_stageVars
                   PROVE  list' = list
BY DEF StageNext, StageStep, BeginHandler, CallStore, VectorInvalid,
       StoreProceeds, VectorStored, VectorFailed, HandlerReturns,
       HandlerKilled, stageVars, loopVars

(* Every step of a stage is one of the store, or none of it.               *)
LEMMA StageStepIsStoreStep ==
    ASSUME list \in Lists, [StageNext]_stageVars
    PROVE  [Next]_vars
<1>1. CASE UNCHANGED stageVars
  BY <1>1 DEF stageVars
<1>2. ASSUME NEW w \in Writers, CallStore(w)
      PROVE  \E u \in Users : StartStore(w, u)
  <2>1. StartStore(w, Current(w).user)
    BY <1>2 DEF CallStore
  <2>2. Current(w).user \in Users
    BY <1>2, ListEntries DEF CallStore, InLoop, Current
  <2>3. QED  BY <2>1, <2>2
<1>3. ASSUME NEW w \in Writers, StageStep(w) \/ HandlerKilled(w),
             ~CallStore(w)
      PROVE  \/ UNCHANGED vars
             \/ StoreStep(w)
             \/ StoreError(w)
  BY <1>3 DEF StageStep, BeginHandler, VectorInvalid, StoreProceeds,
              VectorStored, VectorFailed, HandlerReturns, HandlerKilled
<1>4. QED
  BY <1>1, <1>2, <1>3 DEF StageNext, Next

(* The handlers implement the store: whatever is proved of FeatureStore    *)
(* holds while they run it.                                                *)
THEOREM StageImplementsStore == StageSpec => Spec
<1>1. StageInit => Init /\ list \in Lists
  BY DEF StageInit
<1>2. list \in Lists /\ [StageNext]_stageVars =>
          (list \in Lists)' /\ [Next]_vars
  BY StageStepIsStoreStep, ListsStay
<1>3. QED
  BY <1>1, <1>2, PTL DEF StageSpec, Spec

-----------------------------------------------------------------------------
(* The types of the handlers' variables                                    *)

StageTypes == StageTypeOK /\ TriesLeft

(* The stages begin with nothing stored.                                   *)
LEMMA StageInitTypes == StageInit => StageTypes
<1> SUFFICES ASSUME StageInit PROVE StageTypes  OBVIOUS
<1>1. MaxTries \in Nat \ {0}
  BY ListAssumption
<1>2. NothingStored \in UNION {[S -> Nat] : S \in SUBSET Users}
  <2>1. NothingStored \in [{} -> Nat]  BY DEF NothingStored
  <2>2. QED  BY <2>1
<1>3. stored \in [Writers -> UNION {[S -> Nat] : S \in SUBSET Users}]
  BY <1>2 DEF StageInit
<1>4. QED  BY <1>1, <1>3 DEF StageInit, StageTypes, StageTypeOK, TriesLeft

(* A step taken while store() is at work leaves the rest alone; the others *)
(* keep the types because the store's do.                                  *)
LEMMA StageStepTypes ==
    ASSUME IInv, StageTypes, [StageNext]_stageVars
    PROVE  StageTypes'
<1> USE DEF StageTypes, StageTypeOK, TriesLeft
<1>a. MaxTries \in Nat \ {0}
  BY ListAssumption
<1>1. CASE UNCHANGED stageVars
  BY <1>1 DEF stageVars, loopVars
<1>2. ASSUME NEW w \in Writers, BeginHandler(w) PROVE StageTypes'
  BY <1>2, <1>a DEF BeginHandler
<1>3. ASSUME NEW w \in Writers, CallStore(w) PROVE StageTypes'
  <2>1. sent' \in [Writers -> Seq(Nat \ {0})]
    BY <1>3 DEF CallStore
  <2>2. QED  BY <1>3, <2>1 DEF CallStore
<1>4. ASSUME NEW w \in Writers, VectorInvalid(w) PROVE StageTypes'
  BY <1>4 DEF VectorInvalid
<1>5. ASSUME NEW w \in Writers, StoreProceeds(w) PROVE StageTypes'
  BY <1>5 DEF StoreProceeds, loopVars
<1>6. ASSUME NEW w \in Writers, VectorStored(w) PROVE StageTypes'
  <2> DEFINE Versions == UNION {[S -> Nat] : S \in SUBSET Users}
             new == WithVersion(stored[w], user[w], nextVersion[w])
  <2>1. user[w] \in Users /\ nextVersion[w] \in Nat
    BY DEF IInv, TypeOK
  <2>2. PICK S \in SUBSET Users : stored[w] \in [S -> Nat]
    OBVIOUS
  <2>3. new \in [S \cup {user[w]} -> Nat]
    BY <2>1, <2>2 DEF WithVersion
  <2>4. new \in Versions
    BY <2>1, <2>3
  <2> HIDE DEF new, Versions
  <2>5. stored' = [stored EXCEPT ![w] = new]
    BY <1>6 DEF VectorStored, new
  <2>6. stored' \in [Writers -> Versions]
    BY <2>4, <2>5 DEF Versions
  <2>7. QED  BY <1>6, <2>6 DEF VectorStored, Versions
<1>7. ASSUME NEW w \in Writers, VectorFailed(w) PROVE StageTypes'
  BY <1>7 DEF VectorFailed
<1>8. ASSUME NEW w \in Writers, HandlerReturns(w) PROVE StageTypes'
  BY <1>8 DEF HandlerReturns
<1>9. ASSUME NEW w \in Writers, HandlerKilled(w) PROVE StageTypes'
  <2>1. NothingStored \in UNION {[S -> Nat] : S \in SUBSET Users}
    <3>1. NothingStored \in [{} -> Nat]  BY DEF NothingStored
    <3>2. QED  BY <3>1
  <2>2. stored' \in [Writers -> UNION {[S -> Nat] : S \in SUBSET Users}]
    BY <1>9, <2>1 DEF HandlerKilled
  <2>3. QED  BY <1>9, <2>2, <1>a DEF HandlerKilled
<1>10. QED
  BY <1>1, <1>2, <1>3, <1>4, <1>5, <1>6, <1>7, <1>8, <1>9
     DEF StageNext, StageStep

-----------------------------------------------------------------------------
(* The running call and the versions reported                              *)

(* Items stay: the write step is the only one that touches the table.      *)
LEMMA ItemsStay == ASSUME [Next]_vars PROVE items \subseteq items'
<1>1. ASSUME NEW w \in Writers, PutCondition(w), WriteItem(w)
      PROVE  items \subseteq items'
  BY <1>1, WriteAdds
<1>2. QED
  BY <1>1 DEF Next, vars, StoreStep, StartStore, QueryNextVersion, PutAccepted,
              PutAnswerLost, PutRejected, StoreError, StartHistory, ReadPage

(* Inside store() the call and its user do not change.                     *)
LEMMA CallStays ==
    ASSUME NEW w \in Writers, StoreStep(w) \/ StoreError(w), TypeOK
    PROVE  /\ calls' = calls
           /\ user' = user
           /\ \A x \in Writers : pc'[x] # "idle" \/ pc[x] = "idle"
BY DEF StoreStep, StoreError, InStore, QueryNextVersion, PutAccepted,
       PutAnswerLost, PutRejected, TypeOK

(* A writer sends the vector of its current subscriber.                    *)
LEMMA SendingStep ==
    ASSUME IInv, StageTypes, Sending, [StageNext]_stageVars
    PROVE  Sending'
<1> USE DEF Sending
<1>t. /\ calls \in [Writers -> 0 .. MaxCalls] /\ MaxCalls \in Nat
      /\ TypeOK
  BY StoreAssumption DEF IInv, TypeOK
<1>1. CASE UNCHANGED stageVars
  BY <1>1 DEF stageVars, loopVars, vars, storeVars
<1>2. ASSUME NEW w \in Writers, CallStore(w) PROVE Sending'
  <2>1. /\ calls' = [calls EXCEPT ![w] = @ + 1]
        /\ pc' = [pc EXCEPT ![w] = "query"]
        /\ user' = [user EXCEPT ![w] = list[w][position[w]].user]
        /\ sent' = [sent EXCEPT ![w] = Append(@, position[w])]
        /\ at' = [at EXCEPT ![w] = "storing"]
        /\ UNCHANGED <<list, position>>
        /\ position[w] \in DOMAIN list[w]
    BY <1>2 DEF CallStore, StartStore, Current, InLoop
  <2>2. /\ sent \in [Writers -> Seq(Nat \ {0})]
        /\ position[w] \in Nat \ {0}
        /\ at \in [Writers -> {"scheduled", "loop", "storing",
                               "returned", "failed"}]
        /\ user \in [Writers -> Users]
        /\ pc \in [Writers -> {"idle", "query", "put", "returned", "raised"}]
    BY DEF StageTypes, StageTypeOK, IInv, TypeOK
  <2>3. ASSUME NEW x \in Writers, x # w
        PROVE  /\ sent'[x] = sent[x] /\ calls'[x] = calls[x]
               /\ at'[x] = at[x] /\ pc'[x] = pc[x] /\ user'[x] = user[x]
    BY <2>1, <2>2, <2>3, <1>t
  <2>4. /\ sent'[w] \in Seq(Nat \ {0})
        /\ Len(sent'[w]) = calls'[w]
        /\ sent'[w][calls'[w]] = position'[w]
    <3>1. /\ sent'[w] = Append(sent[w], position[w])
          /\ calls'[w] = calls[w] + 1
      BY <2>1, <2>2, <1>t
    <3>2. Len(sent[w]) = calls[w]
      OBVIOUS
    <3>3. QED  BY <2>1, <2>2, <3>1, <3>2
  <2>5. pc'[w] = "query" /\ user'[w] = list[w][position[w]].user
    BY <2>1, <2>2
  <2>6. QED  BY <2>1, <2>3, <2>4, <2>5
<1>3. ASSUME NEW w \in Writers, StoreProceeds(w) PROVE Sending'
  <2>1. /\ calls' = calls /\ user' = user
        /\ \A x \in Writers : pc'[x] # "idle" \/ pc[x] = "idle"
    BY <1>3, <1>t, CallStays DEF StoreProceeds
  <2>2. QED  BY <1>3, <2>1 DEF StoreProceeds, loopVars
<1>4. ASSUME NEW w \in Writers, HandlerKilled(w) PROVE Sending'
  <2>1. /\ calls' = calls /\ user' = user
        /\ \A x \in Writers : pc'[x] # "idle" \/ pc[x] = "idle"
    BY <1>4, <1>t, CallStays DEF HandlerKilled, vars, storeVars
  <2>2. /\ \A x \in Writers : at'[x] = "storing" => at[x] = "storing" /\ x # w
        /\ \A x \in Writers : x # w => position'[x] = position[x]
        /\ UNCHANGED <<list, sent>>
    BY <1>4 DEF HandlerKilled, StageTypes, StageTypeOK
  <2>3. QED  BY <2>1, <2>2
<1>5. ASSUME NEW w \in Writers,
             \/ BeginHandler(w) \/ VectorInvalid(w) \/ VectorStored(w)
             \/ VectorFailed(w) \/ HandlerReturns(w)
      PROVE  Sending'
  <2>1. /\ \A x \in Writers : at'[x] = "storing" => at[x] = "storing" /\ x # w
        /\ \A x \in Writers : x # w => position'[x] = position[x]
        /\ UNCHANGED <<list, sent, calls, user, pc>>
    BY <1>5 DEF BeginHandler, VectorInvalid, VectorStored, VectorFailed,
                HandlerReturns, InLoop, StageTypes, StageTypeOK, vars, storeVars
  <2>2. QED  BY <2>1
<1>6. QED
  BY <1>1, <1>2, <1>3, <1>4, <1>5 DEF StageNext, StageStep

(* An entry once right stays right: items stay, and sent only grows.       *)
LEMMA OwnStays ==
    ASSUME IInv, StageTypes, Sending, [StageNext]_stageVars, [Next]_vars,
           NEW w \in Writers, NEW u, NEW v, HoldsOwn(w, u, v)
    PROVE  HoldsOwn(w, u, v)'
<1>1. items \subseteq items'
  BY ItemsStay
<1>2. list' = list
  BY ListsStay DEF StageTypes, StageTypeOK
<1>3. \A c \in DOMAIN sent[w] : c \in DOMAIN sent'[w] /\ sent'[w][c] = sent[w][c]
  <2>1. \/ sent' = sent
        \/ \E x \in Writers : sent' = [sent EXCEPT ![x] = Append(@, position[x])]
    BY DEF StageNext, StageStep, BeginHandler, CallStore, VectorInvalid,
           StoreProceeds, VectorStored, VectorFailed, HandlerReturns,
           HandlerKilled, stageVars, loopVars
  <2>2. sent \in [Writers -> Seq(Nat \ {0})] /\ position \in [Writers -> Nat \ {0}]
    BY DEF StageTypes, StageTypeOK
  <2>3. CASE sent' = sent
    BY <2>3
  <2>4. ASSUME NEW x \in Writers,
               sent' = [sent EXCEPT ![x] = Append(@, position[x])]
        PROVE  \A c \in DOMAIN sent[w] :
                  c \in DOMAIN sent'[w] /\ sent'[w][c] = sent[w][c]
    <3>1. CASE x # w
      BY <2>2, <2>4, <3>1
    <3>2. CASE x = w
      <4>1. sent'[w] = Append(sent[w], position[w])
        BY <2>2, <2>4, <3>2
      <4>2. sent[w] \in Seq(Nat \ {0}) /\ position[w] \in Nat \ {0}
        BY <2>2
      <4>3. QED  BY <4>1, <4>2
    <3>3. QED  BY <3>1, <3>2
  <2>5. QED  BY <2>1, <2>3, <2>4
<1>4. QED
  BY <1>1, <1>2, <1>3 DEF HoldsOwn, CopiesOf, HoldsVector

(* What a stage noted as stored stays its own vector.                      *)
LEMMA StoredStep ==
    ASSUME IInv, StageTypes, Sending, StoredAreOwn,
           [StageNext]_stageVars, [Next]_vars
    PROVE  StoredAreOwn'
<1> SUFFICES ASSUME NEW w \in Writers, NEW u \in DOMAIN stored'[w],
                    NEW v, v = stored'[w][u]
             PROVE  HoldsOwn(w, u, v)'
  BY DEF StoredAreOwn, HoldsOwn
<1>1. CASE u \in DOMAIN stored[w] /\ stored[w][u] = v
  <2>1. HoldsOwn(w, u, v)
    BY <1>1 DEF StoredAreOwn
  <2>2. QED  BY <2>1, OwnStays
<1>2. CASE ~(u \in DOMAIN stored[w] /\ stored[w][u] = v)
  <2>1. stored' # stored /\ u \in DOMAIN stored'[w]
    BY <1>2
  <2>2. PICK x \in Writers : VectorStored(x)
    <3>1. ASSUME NEW x \in Writers, BeginHandler(x) \/ HandlerKilled(x)
          PROVE  FALSE
      <4>1. BeginHandler(x) => stored' = stored
        BY DEF BeginHandler
      <4>2. CASE HandlerKilled(x)
        <5>1. stored' = [stored EXCEPT ![x] = NothingStored]
          BY <4>2 DEF HandlerKilled
        <5>2. DOMAIN stored'[w] = {} \/ stored'[w] = stored[w]
          BY <5>1 DEF StageTypes, StageTypeOK, NothingStored
        <5>3. QED  BY <5>2, <1>2
      <4>3. QED  BY <3>1, <4>1, <4>2, <2>1
    <3>2. QED
      BY <2>1, <3>1
         DEF StageNext, StageStep, CallStore, VectorInvalid, StoreProceeds,
             VectorFailed, HandlerReturns, stageVars, loopVars
  <2>3. /\ stored' = [stored EXCEPT ![x] = WithVersion(@, user[x], nextVersion[x])]
        /\ at[x] = "storing" /\ pc[x] = "returned"
        /\ UNCHANGED <<items, list, sent>>
    BY <2>2 DEF VectorStored, vars
  <2>4. x = w
    BY <2>3, <1>2 DEF StageTypes, StageTypeOK
  <2>5. stored'[w] = WithVersion(stored[w], user[w], nextVersion[w])
    BY <2>3, <2>4 DEF StageTypes, StageTypeOK
  <2>6. u = user[w] /\ v = nextVersion[w]
    BY <2>5, <1>2 DEF WithVersion
  <2>7. [user |-> user[w], version |-> nextVersion[w], vector |-> Vector(w)]
            \in items
    BY <2>3, <2>4 DEF IInv, ReturnedVersionIsOwn
  <2>8. /\ position[w] \in DOMAIN list[w]
        /\ list[w][position[w]].user = u
        /\ sent[w][calls[w]] = position[w]
        /\ calls[w] \in DOMAIN sent[w]
    <3>1. calls[w] \in 1 .. MaxCalls /\ MaxCalls \in Nat
      BY <2>3, <2>4, StoreAssumption DEF IInv, Started
    <3>2. sent[w] \in Seq(Nat \ {0}) /\ Len(sent[w]) = calls[w]
      BY DEF Sending
    <3>3. calls[w] \in DOMAIN sent[w]
      BY <3>1, <3>2
    <3>4. QED  BY <2>3, <2>4, <2>6, <3>3 DEF Sending
  <2>9. HoldsOwn(w, u, v)
    <3> DEFINE item == [user |-> user[w], version |-> nextVersion[w],
                        vector |-> Vector(w)]
    <3>1. HoldsVector(item, w, position[w])
      BY <2>8 DEF HoldsVector, Vector
    <3>2. item \in CopiesOf(w, position[w])
      BY <3>1, <2>7 DEF CopiesOf
    <3>3. item.user = u /\ item.version = v
      BY <2>6
    <3> HIDE DEF item
    <3>4. QED  BY <2>8, <3>2, <3>3 DEF HoldsOwn
  <2>10. QED  BY <2>9, OwnStays
<1>3. QED  BY <1>1, <1>2

-----------------------------------------------------------------------------
(* The theorems                                                            *)

(* The invariant of the stages over the store they share.                  *)
THEOREM StageInvariant == StageSpec => []StageInv
<1>1. StageInit => StageInv
  <2>1. StageInit => IInv
    BY InitIInv DEF StageInit
  <2>2. StageInit => Sending /\ StoredAreOwn
    BY DEF StageInit, Init, Sending, StoredAreOwn, NothingStored
  <2>3. QED  BY <2>1, <2>2, StageInitTypes DEF StageInv, StageTypes
<1>2. StageInv /\ [StageNext]_stageVars => StageInv'
  <2> SUFFICES ASSUME StageInv, [StageNext]_stageVars PROVE StageInv'
    OBVIOUS
  <2>1. IInv /\ StageTypes /\ Sending /\ StoredAreOwn
    BY DEF StageInv, StageTypes
  <2>2. [Next]_vars
    BY <2>1, StageStepIsStoreStep DEF StageTypes, StageTypeOK
  <2>3. IInv'
    BY <2>1, <2>2, NextIInv
  <2>4. StageTypes' /\ Sending' /\ StoredAreOwn'
    BY <2>1, <2>2, StageStepTypes, SendingStep, StoredStep
  <2>5. QED  BY <2>3, <2>4 DEF StageInv, StageTypes
<1>3. QED  BY <1>1, <1>2, PTL DEF StageSpec

(* The variables of the handlers keep their types; in particular the       *)
(* state never runs more than MaxTries invocations.                        *)
THEOREM StageTypeCorrect == StageSpec => []StageTypeOK
<1>1. StageInv => StageTypeOK  BY DEF StageInv
<1>2. QED  BY <1>1, StageInvariant, PTL

(* The version the event carries on for a subscriber is the key of this    *)
(* execution's own vector of that subscriber.                              *)
THEOREM OutputHoldsOwnVectors == StageSpec => []OutputIsStored
<1>1. StageInv => OutputIsStored
  BY DEF StageInv, StoredAreOwn, OutputIsStored, HoldsOwn
<1>2. QED  BY <1>1, StageInvariant, PTL

-----------------------------------------------------------------------------
(* The newest copy                                                         *)

(* The item that ends a call is the newest its writer has for that user.   *)
NewestIsReturned ==
    \A w \in Writers : pc[w] = "returned" =>
        \A i \in items : i.vector[1] = w /\ i.user = user[w] =>
            i.version <= nextVersion[w]

(* Only a handler that waits for store() is inside it.                     *)
PutsAreStoring == \A w \in Writers : InStore(w) => at[w] = "storing"

(* The copies of a vector are stored under the subscriber the list names.  *)
CopiesOwner ==
    \A w \in Writers : \A k \in DOMAIN list[w] :
        \A i \in CopiesOf(w, k) : i.user = list[w][k].user

(* The entry of u in stored is the newest copy of the k-th vector.         *)
NotedNewest(w, u, k) ==
    /\ list[w][k].user = u
    /\ \E i \in CopiesOf(w, k) : i.user = u /\ i.version = stored[w][u]
    /\ \A i \in CopiesOf(w, k) : i.version <= stored[w][u]

(* Every entry of stored is that of a vector the loop has passed.          *)
StoredAreNewest ==
    \A w \in Writers : \A u \in DOMAIN stored[w] :
        \E k \in DOMAIN list[w] : k < position[w] /\ NotedNewest(w, u, k)

(* A step of the stages leaves the table alone or is a put, on a free key, *)
(* of a handler that waits for store().                                    *)
LEMMA StageTableSteps ==
    ASSUME [StageNext]_stageVars
    PROVE  \/ UNCHANGED items
           \/ \E w \in Writers : /\ at[w] = "storing"
                                 /\ PutAccepted(w) \/ PutAnswerLost(w)
                                 /\ UNCHANGED loopVars
BY DEF StageNext, StageStep, BeginHandler, CallStore, VectorInvalid,
       StoreProceeds, VectorStored, VectorFailed, HandlerReturns, HandlerKilled,
       StoreStep, StartStore, QueryNextVersion, PutRejected, StoreError,
       stageVars, vars

(* A put adds one item, newer than all the user had.                       *)
LEMMA PutIsNewest ==
    ASSUME IInv, NEW w \in Writers, PutAccepted(w) \/ PutAnswerLost(w)
    PROVE  \E new \in items' :
              /\ items' = items \cup {new}
              /\ new.user = user[w]
              /\ new.version = nextVersion[w]
              /\ new.vector = Vector(w)
              /\ \A i \in items : i.user = user[w] => i.version < nextVersion[w]
<1>1. pc[w] = "put" /\ PutCondition(w) /\ WriteItem(w)
  BY DEF PutAccepted, PutAnswerLost
<1> DEFINE new == [user |-> user[w], version |-> nextVersion[w],
                   vector |-> Vector(w)]
           c == Cardinality(VersionsOf(user[w]))
<1>2. items' = items \cup {new}
  BY <1>1, WriteAdds
<1>3. VersionsOf(user[w]) = 1 .. c /\ c \in Nat
  BY VersionsAreInterval DEF IInv, TypeOK
<1>4. nextVersion[w] = c + 1
  BY <1>1, PutIsNext
<1>5. \A i \in items : i.user = user[w] => i.version \in 1 .. c
  BY <1>3 DEF VersionsOf
<1>6. new.user = user[w] /\ new.version = nextVersion[w] /\ new.vector = Vector(w)
  OBVIOUS
<1> HIDE DEF c, new
<1>7. \A i \in items : i.user = user[w] => i.version < nextVersion[w]
  BY <1>3, <1>4, <1>5
<1>8. QED  BY <1>2, <1>6, <1>7

(* No later put of another writer changes what is the newest of a writer.  *)
LEMMA NewestReturnedKept ==
    ASSUME IInv, NewestIsReturned, [Next]_vars
    PROVE  NewestIsReturned'
<1> SUFFICES ASSUME NEW w \in Writers, pc'[w] = "returned",
                    NEW i \in items', i.vector[1] = w, i.user = user'[w]
             PROVE  i.version <= nextVersion'[w]
  BY DEF NewestIsReturned
<1>t. /\ pc \in [Writers -> {"idle", "query", "put", "returned", "raised"}]
      /\ user \in [Writers -> Users]
      /\ nextVersion \in [Writers -> Nat]
      /\ items \subseteq Item
  BY DEF IInv, TypeOK
<1>1. CASE pc[w] = "returned" /\ i \in items
           /\ user'[w] = user[w] /\ nextVersion'[w] = nextVersion[w]
  BY <1>1 DEF NewestIsReturned
<1>2. ASSUME NEW x \in Writers, PutAccepted(x) \/ PutAnswerLost(x)
      PROVE  i.version <= nextVersion'[w]
  <2>1. PICK new \in items' :
          /\ items' = items \cup {new}
          /\ new.version = nextVersion[x]
          /\ new.vector = Vector(x)
          /\ \A j \in items : j.user = user[x] => j.version < nextVersion[x]
    BY <1>2, PutIsNewest
  <2>2. nextVersion' = nextVersion /\ user' = user
    BY <1>2 DEF PutAccepted, PutAnswerLost
  <2>3. CASE x = w
    <3>1. nextVersion[w] \in Nat /\ \A j \in items : j.version \in Nat
      BY <1>t DEF Item
    <3>2. QED  BY <2>1, <2>2, <2>3, <3>1
  <2>4. CASE x # w
    <3>1. i \in items
      BY <2>1, <2>4 DEF Vector
    <3>2. pc[w] = "returned"
      BY <1>2, <1>t, <2>4 DEF PutAccepted, PutAnswerLost
    <3>3. QED  BY <1>1, <2>2, <3>1, <3>2
  <2>5. QED  BY <2>3, <2>4
<1>3. ASSUME NEW x \in Writers,
             \/ \E u \in Users : StartStore(x, u)
             \/ QueryNextVersion(x) \/ PutRejected(x) \/ StoreError(x)
      PROVE  i.version <= nextVersion'[w]
  <2>1. items' = items
    BY <1>3 DEF StartStore, QueryNextVersion, PutRejected, StoreError
  <2>2. x # w
    BY <1>3, <1>t DEF StartStore, QueryNextVersion, PutRejected, StoreError, InStore
  <2>3. pc'[w] = pc[w] /\ user'[w] = user[w] /\ nextVersion'[w] = nextVersion[w]
    BY <1>3, <1>t, <2>2 DEF StartStore, QueryNextVersion, PutRejected, StoreError
  <2>4. QED  BY <1>1, <2>1, <2>3
<1>4. CASE UNCHANGED <<items, storeVars>>
  BY <1>1, <1>4 DEF storeVars
<1>5. ASSUME NEW r \in Readers,
             ReadPage(r) \/ \E u \in Users : StartHistory(r, u)
      PROVE  UNCHANGED <<items, storeVars>>
  BY <1>5 DEF ReadPage, StartHistory
<1>6. QED
  BY <1>2, <1>3, <1>4, <1>5 DEF Next, StoreStep, vars

(* store() runs only for the handler that called it.                       *)
LEMMA PutsStayStoring ==
    ASSUME IInv, StageTypes, PutsAreStoring, [StageNext]_stageVars
    PROVE  PutsAreStoring'
<1> SUFFICES ASSUME NEW w \in Writers, InStore(w)' PROVE at'[w] = "storing"
  BY DEF PutsAreStoring
<1>t. /\ pc \in [Writers -> {"idle", "query", "put", "returned", "raised"}]
      /\ at \in [Writers -> {"scheduled", "loop", "storing", "returned", "failed"}]
      /\ MaxAttempts \in Nat
  BY StoreAssumption DEF IInv, TypeOK, StageTypes, StageTypeOK
<1>1. InStore(w) => at[w] = "storing"
  BY DEF PutsAreStoring
<1>2. ASSUME NEW x \in Writers, StoreProceeds(x) PROVE at'[w] = "storing"
  <2>1. at' = at /\ at[x] = "storing"
    BY <1>2 DEF StoreProceeds, loopVars
  <2>2. x # w => pc'[w] = pc[w]
    BY <1>2, <1>t DEF StoreProceeds, StoreStep, QueryNextVersion, PutAccepted,
                      PutAnswerLost, PutRejected, StoreError
  <2>3. QED  BY <1>1, <2>1, <2>2 DEF InStore
<1>3. ASSUME NEW x \in Writers, CallStore(x) PROVE at'[w] = "storing"
  BY <1>3, <1>1, <1>t DEF CallStore, StartStore, InStore
<1>4. ASSUME NEW x \in Writers, HandlerKilled(x) PROVE at'[w] = "storing"
  <2>1. pc' = pc \/ pc' = [pc EXCEPT ![x] = "raised"]
    BY <1>4 DEF HandlerKilled, StoreError, vars, storeVars
  <2>2. InStore(w)
    BY <2>1, <1>t DEF InStore
  <2>3. x # w
    BY <1>4, <1>1, <2>2, <1>t DEF HandlerKilled, StoreError, InStore
  <2>4. QED  BY <1>4, <1>1, <2>2, <2>3, <1>t DEF HandlerKilled
<1>5. ASSUME NEW x \in Writers,
             \/ BeginHandler(x) \/ VectorInvalid(x) \/ VectorStored(x)
             \/ VectorFailed(x) \/ HandlerReturns(x)
      PROVE  at'[w] = "storing"
  <2>1. pc' = pc
    BY <1>5 DEF BeginHandler, VectorInvalid, VectorStored, VectorFailed,
                HandlerReturns, vars, storeVars
  <2>2. at[w] = "storing" /\ pc[w] \in {"query", "put"}
    BY <2>1, <1>1 DEF InStore
  <2>3. x # w \/ at' = at
    BY <1>5, <2>2 DEF BeginHandler, VectorInvalid, VectorStored, VectorFailed,
                      HandlerReturns, InLoop
  <2>4. QED
    BY <1>5, <2>2, <2>3, <1>t
       DEF BeginHandler, VectorInvalid, VectorStored, VectorFailed, HandlerReturns
<1>6. CASE UNCHANGED stageVars
  BY <1>6, <1>1 DEF stageVars, loopVars, vars, storeVars, InStore
<1>7. QED
  BY <1>2, <1>3, <1>4, <1>5, <1>6 DEF StageNext, StageStep

-----------------------------------------------------------------------------
(* The number of copies                                                    *)

LostBounded == \A w \in Writers : lost[w] <= MaxLost

(* The copies t invocations may leave of one vector.                       *)
Full(t) == t * (1 + MaxLost)

(* The copies of the vector at position k so far.                          *)
CopyBound(w, k) ==
    IF at[w] = "storing" /\ k = position[w]
    THEN Full(tries[w] - 1) + lost[w] + (IF pc[w] = "returned" THEN 1 ELSE 0)
    ELSE IF at[w] \in {"loop", "storing"} /\ k >= position[w]
         THEN Full(tries[w] - 1)
         ELSE Full(tries[w])

CopiesBounded ==
    \A w \in Writers :
        /\ at[w] \in {"loop", "storing"} => tries[w] >= 1
        /\ \A k \in DOMAIN list[w] : Cardinality(CopiesOf(w, k)) <= CopyBound(w, k)

(* One more invocation allows for one more copy, and one per lost answer.  *)
LEMMA FullGrows ==
    ASSUME NEW t \in Nat
    PROVE  /\ Full(t) \in Nat
           /\ Full(t + 1) = Full(t) + 1 + MaxLost
           /\ t >= 1 => Full(t - 1) \in Nat /\ Full(t) = Full(t - 1) + 1 + MaxLost
BY StoreAssumption DEF Full

(* The model loses at most MaxLost answers of a call.                      *)
LEMMA LostBoundedKept ==
    ASSUME IInv, LostBounded, [Next]_vars
    PROVE  LostBounded'
<1>t. lost \in [Writers -> Nat] /\ MaxLost \in Nat
  BY StoreAssumption DEF IInv, TypeOK
<1>1. CASE \E w \in Writers : lost' = [lost EXCEPT ![w] = 0]
  BY <1>1, <1>t DEF LostBounded
<1>2. CASE \E w \in Writers : lost[w] < MaxLost /\ lost' = [lost EXCEPT ![w] = @ + 1]
  BY <1>2, <1>t DEF LostBounded
<1>3. CASE UNCHANGED lost
  BY <1>3 DEF LostBounded
<1>4. QED
  BY <1>1, <1>2, <1>3
     DEF Next, StoreStep, StartStore, QueryNextVersion, PutAccepted,
         PutAnswerLost, PutRejected, StoreError, ReadPage, StartHistory, vars,
         storeVars

(* The copies of an execution are finitely many.                           *)
LEMMA CopiesFinite ==
    ASSUME IInv, NEW w, NEW k
    PROVE  IsFiniteSet(CopiesOf(w, k)) /\ Cardinality(CopiesOf(w, k)) \in Nat
BY FS_Subset, FS_CardinalityType DEF IInv, CopiesOf

(* A step that is no put changes no copies: the vector a call is given is  *)
(* not in the table before the call puts it.                               *)
LEMMA CopiesStay ==
    ASSUME IInv, StageTypes, Sending, CallsBegun, [StageNext]_stageVars,
           UNCHANGED items, NEW w \in Writers, NEW k
    PROVE  CopiesOf(w, k)' = CopiesOf(w, k)
<1>t. /\ sent[w] \in Seq(Nat \ {0}) /\ Len(sent[w]) = calls[w]
      /\ sent \in [Writers -> Seq(Nat \ {0})]
      /\ position \in [Writers -> Nat \ {0}]
  BY DEF Sending, StageTypes, StageTypeOK
<1>1. \A i \in items : i.vector[1] = w => i.vector[2] \in 1 .. Len(sent[w])
  <2>1. \A i \in items : i.vector \in Writers \X (1 .. MaxCalls)
    BY DEF IInv, TypeOK, Item, VectorIds
  <2>2. \A i \in items : i.vector[2] \in 1 .. MaxCalls
    BY <2>1
  <2>3. calls[w] \in Nat /\ MaxCalls \in Nat
    BY StoreAssumption DEF IInv, TypeOK
  <2>4. QED  BY <2>2, <2>3, <1>t DEF CallsBegun
<1>2. CASE sent'[w] = sent[w]
  BY <1>2 DEF CopiesOf, HoldsVector
<1>3. CASE sent'[w] = Append(sent[w], position[w])
  <2>1. \A c \in 1 .. Len(sent[w]) :
           /\ c \in DOMAIN sent[w] /\ c \in DOMAIN sent'[w]
           /\ sent'[w][c] = sent[w][c]
    BY <1>3, <1>t
  <2>2. \A i \in items : HoldsVector(i, w, k)' <=> HoldsVector(i, w, k)
    BY <1>1, <2>1 DEF HoldsVector
  <2>3. QED  BY <2>2 DEF CopiesOf
<1>4. \/ sent' = sent
      \/ \E x \in Writers : sent' = [sent EXCEPT ![x] = Append(@, position[x])]
  BY DEF StageNext, StageStep, BeginHandler, CallStore, VectorInvalid,
         StoreProceeds, VectorStored, VectorFailed, HandlerReturns,
         HandlerKilled, stageVars, loopVars
<1>5. QED  BY <1>2, <1>3, <1>4, <1>t

(* An element adds at most one to a finite set.                            *)
LEMMA AtMostOneMore ==
    ASSUME NEW S, IsFiniteSet(S), NEW x
    PROVE  Cardinality(S \cup {x}) <= Cardinality(S) + 1
<1>1. Cardinality(S) \in Nat
  BY FS_CardinalityType
<1>2. Cardinality(S \cup {x}) = IF x \in S THEN Cardinality(S)
                                          ELSE Cardinality(S) + 1
  BY FS_AddElement
<1>3. CASE x \in S
  BY <1>1, <1>2, <1>3
<1>4. CASE x \notin S
  BY <1>1, <1>2, <1>4
<1>5. QED  BY <1>3, <1>4

(* A put adds one copy of the vector the loop has come to.                 *)
LEMMA PutAddsCopy ==
    ASSUME IInv, Sending, NEW x \in Writers, at[x] = "storing",
           PutAccepted(x) \/ PutAnswerLost(x), UNCHANGED loopVars,
           NEW w \in Writers, NEW k
    PROVE  /\ Cardinality(CopiesOf(w, k)') <= Cardinality(CopiesOf(w, k)) + 1
           /\ w # x \/ k # position[x] => CopiesOf(w, k)' = CopiesOf(w, k)
<1>1. PICK new \in items' : items' = items \cup {new} /\ new.vector = Vector(x)
  BY PutIsNewest
<1>2. sent' = sent /\ sent[x][calls[x]] = position[x]
  BY DEF Sending, loopVars
<1>3. \A i : HoldsVector(i, w, k)' <=> HoldsVector(i, w, k)
  BY <1>2 DEF HoldsVector
<1>4. \/ CopiesOf(w, k)' = CopiesOf(w, k)
      \/ HoldsVector(new, w, k) /\ CopiesOf(w, k)' = CopiesOf(w, k) \cup {new}
  BY <1>1, <1>3 DEF CopiesOf
<1>5. HoldsVector(new, w, k) => w = x /\ k = position[x]
  BY <1>1, <1>2 DEF HoldsVector, Vector
<1>6. IsFiniteSet(CopiesOf(w, k)) /\ Cardinality(CopiesOf(w, k)) \in Nat
  BY CopiesFinite
<1> DEFINE old == CopiesOf(w, k)
           cur == CopiesOf(w, k)'
<1>7. \/ cur = old
      \/ w = x /\ k = position[x] /\ cur = old \cup {new}
  BY <1>4, <1>5
<1>8. IsFiniteSet(old) /\ Cardinality(old) \in Nat
  BY <1>6
<1> HIDE DEF old, cur
<1>9. Cardinality(old \cup {new}) <= Cardinality(old) + 1
  BY <1>8, AtMostOneMore
<1>10. Cardinality(cur) <= Cardinality(old) + 1
  <2>1. CASE cur = old
    BY <1>8, <2>1
  <2>2. CASE cur = old \cup {new}
    BY <1>9, <2>2
  <2>3. QED  BY <1>7, <2>1, <2>2
<1>11. QED  BY <1>7, <1>10 DEF old, cur

(* Copies of a vector belong to the subscriber the list names.             *)
LEMMA CopiesOwnerKept ==
    ASSUME IInv, StageTypes, Sending, CallsBegun, CopiesOwner,
           [StageNext]_stageVars
    PROVE  CopiesOwner'
<1> SUFFICES ASSUME NEW w \in Writers, NEW k \in DOMAIN list'[w],
                    NEW i \in CopiesOf(w, k)'
             PROVE  i.user = list'[w][k].user
  BY DEF CopiesOwner
<1>1. list' = list
  BY ListsStay DEF StageTypes, StageTypeOK
<1>2. CASE i \in CopiesOf(w, k)
  BY <1>1, <1>2 DEF CopiesOwner
<1>3. CASE UNCHANGED items
  BY <1>2, <1>3, CopiesStay
<1>4. ASSUME NEW x \in Writers, at[x] = "storing",
             PutAccepted(x) \/ PutAnswerLost(x), UNCHANGED loopVars
      PROVE  i.user = list'[w][k].user
  <2>1. CASE w # x \/ k # position[x]
    <3>1. CopiesOf(w, k)' = CopiesOf(w, k)
      BY <1>4, <2>1, PutAddsCopy
    <3>2. QED  BY <1>2, <3>1
  <2>2. CASE w = x /\ k = position[x]
    <3>1. PICK new \in items' : items' = items \cup {new} /\ new.user = user[x]
      BY <1>4, PutIsNewest
    <3>2. user[x] = list[x][position[x]].user
      BY <1>4 DEF Sending
    <3>3. sent' = sent
      BY <1>4 DEF loopVars
    <3>4. i = new \/ i \in CopiesOf(w, k)
      BY <3>1, <3>3 DEF CopiesOf, HoldsVector
    <3>5. QED  BY <1>1, <1>2, <2>2, <3>1, <3>2, <3>4
  <2>3. QED  BY <2>1, <2>2
<1>5. QED  BY <1>3, <1>4, StageTableSteps

(* What an invocation has noted stays the newest copy of its vector: the   *)
(* loop has passed that vector, though perhaps not its subscriber.         *)
LEMMA StoredNewestKept ==
    ASSUME IInv, StageTypes, Sending, CallsBegun, CopiesOwner, NewestIsReturned,
           StoredAreNewest, [StageNext]_stageVars
    PROVE  StoredAreNewest'
<1> SUFFICES ASSUME NEW w \in Writers, NEW u \in DOMAIN stored'[w]
             PROVE  \E k \in DOMAIN list'[w] :
                       k < position'[w] /\ NotedNewest(w, u, k)'
  BY DEF StoredAreNewest
<1>t. /\ position \in [Writers -> Nat \ {0}]
      /\ stored \in [Writers -> UNION {[S -> Nat] : S \in SUBSET Users}]
      /\ DOMAIN list[w] \subseteq Nat
  <2> DEFINE Entry == [user : Users, ok : BOOLEAN]
  <2>1. Lists \subseteq [Writers -> Seq(Entry)] /\ list \in Lists
    BY ListAssumption DEF StageTypes, StageTypeOK
  <2> HIDE DEF Entry
  <2>2. DOMAIN list[w] \subseteq Nat
    <3>1. list[w] \in Seq(Entry)
      BY <2>1
    <3>2. QED  BY <3>1
  <2>3. QED  BY <2>2 DEF StageTypes, StageTypeOK
<1>l. list' = list
  BY ListsStay DEF StageTypes, StageTypeOK
<1>1. ASSUME u \in DOMAIN stored[w], stored'[w][u] = stored[w][u],
             position'[w] \in {position[w], position[w] + 1},
             \A k \in DOMAIN list[w] : k < position[w] =>
                 CopiesOf(w, k)' = CopiesOf(w, k)
      PROVE  \E k \in DOMAIN list'[w] : k < position'[w] /\ NotedNewest(w, u, k)'
  <2>1. PICK k \in DOMAIN list[w] : k < position[w] /\ NotedNewest(w, u, k)
    BY <1>1 DEF StoredAreNewest
  <2>2. k < position'[w]
    BY <1>1, <1>t, <2>1
  <2>3. NotedNewest(w, u, k)'
    BY <1>1, <1>l, <2>1 DEF NotedNewest
  <2>4. QED  BY <1>l, <2>2, <2>3
<1>2. ASSUME NEW x \in Writers, at[x] = "storing",
             PutAccepted(x) \/ PutAnswerLost(x), UNCHANGED loopVars
      PROVE  \E k \in DOMAIN list'[w] : k < position'[w] /\ NotedNewest(w, u, k)'
  <2>1. UNCHANGED <<stored, position>>
    BY <1>2 DEF loopVars
  <2>2. \A k \in DOMAIN list[w] : k < position[w] =>
            CopiesOf(w, k)' = CopiesOf(w, k)
    <3> SUFFICES ASSUME NEW k \in DOMAIN list[w], k < position[w]
                 PROVE  CopiesOf(w, k)' = CopiesOf(w, k)
      OBVIOUS
    <3>1. w # x \/ k # position[x]
      BY <1>t
    <3>2. QED  BY <1>2, <3>1, PutAddsCopy
  <2>3. QED  BY <1>1, <2>1, <2>2
<1>3. ASSUME UNCHANGED items PROVE \A k : CopiesOf(w, k)' = CopiesOf(w, k)
  BY <1>3, CopiesStay
<1>4. ASSUME VectorStored(w)
      PROVE  \E k \in DOMAIN list'[w] : k < position'[w] /\ NotedNewest(w, u, k)'
  <2>1. /\ at[w] = "storing" /\ pc[w] = "returned"
        /\ stored'[w] = WithVersion(stored[w], user[w], nextVersion[w])
        /\ position'[w] = position[w] + 1
        /\ UNCHANGED items
    BY <1>4, <1>t DEF VectorStored, vars
  <2>2. CASE u = user[w]
    <3> DEFINE item == [user |-> user[w], version |-> nextVersion[w],
                        vector |-> Vector(w)]
    <3>1. stored'[w][u] = nextVersion[w]
      BY <2>1, <2>2 DEF WithVersion
    <3>2. /\ position[w] \in DOMAIN list[w]
          /\ u = list[w][position[w]].user
          /\ sent[w][calls[w]] = position[w]
          /\ calls[w] \in DOMAIN sent[w]
      <4>1. calls[w] \in 1 .. MaxCalls /\ MaxCalls \in Nat
        BY <2>1, StoreAssumption DEF IInv, Started
      <4>2. sent[w] \in Seq(Nat \ {0}) /\ Len(sent[w]) = calls[w]
        BY DEF Sending
      <4>3. QED  BY <2>1, <2>2, <4>1, <4>2 DEF Sending
    <3>3. \A i \in CopiesOf(w, position[w]) : i.version <= nextVersion[w]
      <4> SUFFICES ASSUME NEW i \in CopiesOf(w, position[w])
                   PROVE  i.version <= nextVersion[w]
        OBVIOUS
      <4>1. i.user = user[w]
        BY <2>2, <3>2 DEF CopiesOwner
      <4>2. i \in items /\ i.vector[1] = w
        BY DEF CopiesOf, HoldsVector
      <4>3. QED  BY <2>1, <4>1, <4>2 DEF NewestIsReturned
    <3>4. item \in CopiesOf(w, position[w])
      <4>1. item \in items
        BY <2>1 DEF IInv, ReturnedVersionIsOwn
      <4>2. HoldsVector(item, w, position[w])
        BY <3>2 DEF HoldsVector, Vector
      <4>3. QED  BY <4>1, <4>2 DEF CopiesOf
    <3>5. item.user = u /\ item.version = nextVersion[w]
      BY <2>2
    <3> HIDE DEF item
    <3>6. PICK k \in DOMAIN list[w] : k = position[w]
      BY <3>2
    <3>7. CopiesOf(w, k)' = CopiesOf(w, k)
      BY <1>3, <2>1
    <3>8. NotedNewest(w, u, k)'
      BY <1>l, <3>1, <3>2, <3>3, <3>4, <3>5, <3>6, <3>7 DEF NotedNewest
    <3>9. k < position'[w]
      BY <1>t, <2>1, <3>6
    <3>10. QED  BY <1>l, <3>8, <3>9
  <2>3. CASE u # user[w]
    <3>1. u \in DOMAIN stored[w] /\ stored'[w][u] = stored[w][u]
      BY <2>1, <2>3 DEF WithVersion
    <3>2. QED  BY <1>1, <1>3, <2>1, <3>1
  <2>4. QED  BY <2>2, <2>3
<1>5. ASSUME NEW x \in Writers, VectorStored(x) \/ HandlerKilled(x), x # w
      PROVE  stored'[w] = stored[w] /\ position'[w] = position[w]
  BY <1>5, <1>t DEF VectorStored, HandlerKilled
<1>6. ASSUME HandlerKilled(w) PROVE FALSE
  BY <1>6, <1>t DEF HandlerKilled, NothingStored
<1>7. ASSUME NEW x \in Writers, StageStep(x) \/ HandlerKilled(x), UNCHANGED items,
             ~(x = w /\ (VectorStored(x) \/ HandlerKilled(x)))
      PROVE  /\ stored'[w] = stored[w]
             /\ position'[w] \in {position[w], position[w] + 1}
  BY <1>7, <1>5, <1>t
     DEF StageStep, BeginHandler, CallStore, VectorInvalid, StoreProceeds,
         VectorFailed, HandlerReturns, loopVars
<1>8. CASE UNCHANGED items
  <2> DEFINE Goal == \E k \in DOMAIN list'[w] :
                        k < position'[w] /\ NotedNewest(w, u, k)'
  <2>1. CASE UNCHANGED stageVars
    BY <2>1, <1>1, <1>3, <1>8 DEF stageVars, loopVars
  <2>2. ASSUME NEW x \in Writers, StageStep(x) \/ HandlerKilled(x)
        PROVE  Goal
    <3>1. CASE x = w /\ VectorStored(x)
      BY <3>1, <1>4
    <3>2. CASE x = w /\ HandlerKilled(x)
      BY <3>2, <1>6
    <3>3. CASE ~(x = w /\ (VectorStored(x) \/ HandlerKilled(x)))
      <4>1. /\ stored'[w] = stored[w]
            /\ position'[w] \in {position[w], position[w] + 1}
        BY <1>7, <1>8, <2>2, <3>3
      <4>2. QED  BY <4>1, <1>1, <1>3, <1>8
    <3>4. QED  BY <3>1, <3>2, <3>3
  <2>3. QED  BY <2>1, <2>2 DEF StageNext
<1>9. QED  BY <1>2, <1>8, StageTableSteps

(* Every copy is accounted for: by an earlier invocation, or by the call   *)
(* that put it and the answers it lost.                                    *)
LEMMA CopiesBoundedKept ==
    ASSUME IInv, StageTypes, Sending, CallsBegun, LostBounded,
           CopiesBounded, [StageNext]_stageVars
    PROVE  CopiesBounded'
<1> DEFINE Begun(w) == at[w] \in {"loop", "storing"} => tries[w] >= 1
           Copies(w, k) == Cardinality(CopiesOf(w, k))
<1> SUFFICES ASSUME NEW w \in Writers, NEW k \in DOMAIN list[w]
             PROVE  Begun(w)' /\ Copies(w, k)' <= CopyBound(w, k)'
  <2>1. list' = list
    BY ListsStay DEF StageTypes, StageTypeOK
  <2>2. ASSUME NEW w \in Writers PROVE Begun(w)'
    <3>1. /\ Begun(w)
          /\ tries \in [Writers -> 0 .. MaxTries] /\ MaxTries \in Nat
          /\ at \in [Writers -> {"scheduled", "loop", "storing",
                                 "returned", "failed"}]
      BY ListAssumption DEF CopiesBounded, StageTypes, StageTypeOK
    <3>2. ASSUME NEW x \in Writers, BeginHandler(x) PROVE Begun(w)'
      BY <3>1, <3>2 DEF BeginHandler
    <3>3. ASSUME tries' = tries,
                 at'[w] \in {"loop", "storing"} => at[w] \in {"loop", "storing"}
          PROVE  Begun(w)'
      BY <3>1, <3>3
    <3>4. ASSUME NEW x \in Writers, StageStep(x) \/ HandlerKilled(x),
                 ~BeginHandler(x)
          PROVE  /\ tries' = tries
                 /\ at'[w] \in {"loop", "storing"} =>
                       at[w] \in {"loop", "storing"}
      BY <3>1, <3>4
         DEF StageStep, CallStore, VectorInvalid, StoreProceeds, VectorStored,
             VectorFailed, HandlerReturns, HandlerKilled, InLoop, loopVars
    <3>5. CASE UNCHANGED stageVars
      BY <3>3, <3>5 DEF stageVars, loopVars
    <3>6. QED
      <4> HIDE DEF Begun
      <4>1. QED  BY <3>2, <3>3, <3>4, <3>5 DEF StageNext
  <2>3. QED  BY <2>1, <2>2 DEF CopiesBounded
<1>t. /\ pc \in [Writers -> {"idle", "query", "put", "returned", "raised"}]
      /\ lost \in [Writers -> Nat]
      /\ lost[w] <= MaxLost
      /\ MaxLost \in Nat
      /\ at \in [Writers -> {"scheduled", "loop", "storing", "returned", "failed"}]
      /\ position \in [Writers -> Nat \ {0}]
      /\ tries \in [Writers -> Nat]
  BY StoreAssumption, ListAssumption
     DEF IInv, TypeOK, LostBounded, StageTypes, StageTypeOK
<1>k. k \in Nat
  <2> DEFINE Entry == [user : Users, ok : BOOLEAN]
  <2>1. Lists \subseteq [Writers -> Seq(Entry)] /\ list \in Lists
    BY ListAssumption DEF StageTypes, StageTypeOK
  <2> HIDE DEF Entry
  <2>2. list[w] \in Seq(Entry)
    BY <2>1
  <2>3. QED  BY <2>2
<1>b. Begun(w) /\ Copies(w, k) <= CopyBound(w, k) /\ Copies(w, k) \in Nat
  BY CopiesFinite DEF CopiesBounded
<1>f. /\ Full(tries[w]) \in Nat
      /\ Full(tries[w] + 1) = Full(tries[w]) + 1 + MaxLost
      /\ tries[w] >= 1 => /\ Full(tries[w] - 1) \in Nat
                          /\ Full(tries[w]) = Full(tries[w] - 1) + 1 + MaxLost
  BY <1>t, FullGrows
<1> HIDE DEF Copies
<1>1. ASSUME UNCHANGED <<at[w], position[w], tries[w], lost[w]>>,
             pc'[w] = "returned" <=> pc[w] = "returned"
      PROVE  CopyBound(w, k)' = CopyBound(w, k) /\ Begun(w)'
  BY <1>1, <1>b DEF CopyBound
<1>2. ASSUME NEW x \in Writers, at[x] = "storing",
             PutAccepted(x) \/ PutAnswerLost(x), UNCHANGED loopVars
      PROVE  Begun(w)' /\ Copies(w, k)' <= CopyBound(w, k)'
  <2>1. UNCHANGED <<at, position, tries>>
    BY <1>2 DEF loopVars
  <2>2. /\ Copies(w, k)' <= Copies(w, k) + 1
        /\ w # x \/ k # position[x] => Copies(w, k)' = Copies(w, k)
    BY <1>2, PutAddsCopy DEF Copies
  <2>3. CASE x # w
    <3>1. lost'[w] = lost[w] /\ pc'[w] = pc[w]
      BY <1>2, <1>t, <2>3 DEF PutAccepted, PutAnswerLost
    <3>2. QED  BY <1>1, <1>b, <2>1, <2>2, <2>3, <3>1
  <2>4. CASE x = w /\ k # position[w]
    BY <1>b, <2>1, <2>2, <2>4 DEF CopyBound
  <2>5. CASE x = w /\ k = position[w]
    <3>1. pc[w] = "put"
          /\ \/ pc'[w] = "returned" /\ lost'[w] = lost[w]
             \/ pc'[w] = "put" /\ lost'[w] = lost[w] + 1
      BY <1>2, <1>t, <2>5 DEF PutAccepted, PutAnswerLost
    <3>2. /\ CopyBound(w, k) = Full(tries[w] - 1) + lost[w]
          /\ CopyBound(w, k)' = Full(tries[w] - 1) + lost'[w]
                                    + (IF pc'[w] = "returned" THEN 1 ELSE 0)
      <4>1. CopyBound(w, k) = Full(tries[w] - 1) + lost[w] + 0
        BY <1>2, <2>5, <3>1 DEF CopyBound
      <4>2. Full(tries[w] - 1) + lost[w] \in Nat
        BY <1>2, <1>b, <1>f, <1>t, <2>5
      <4>3. QED  BY <1>2, <2>1, <2>5, <4>1, <4>2 DEF CopyBound, Full
    <3>3. tries[w] >= 1
      BY <1>2, <1>b, <2>5
    <3>4. Copies(w, k)' <= CopyBound(w, k)'
      <4>1. CopyBound(w, k)' = CopyBound(w, k) + 1
        <5>1. CASE pc'[w] = "returned" /\ lost'[w] = lost[w]
          BY <1>t, <1>f, <3>2, <3>3, <5>1
        <5>2. CASE pc'[w] = "put" /\ lost'[w] = lost[w] + 1
          BY <1>t, <1>f, <3>2, <3>3, <5>2
        <5>3. QED  BY <3>1, <5>1, <5>2
      <4>2. CopyBound(w, k) \in Nat
        BY <1>t, <1>f, <3>2, <3>3
      <4>3. Copies(w, k)' \in Nat
        <5>1. IInv'
          <6>1. [Next]_vars
            BY StageStepIsStoreStep DEF StageTypes, StageTypeOK
          <6>2. QED  BY <6>1, NextIInv
        <5>2. IsFiniteSet(CopiesOf(w, k)')
          BY <5>1, FS_Subset DEF IInv, CopiesOf
        <5>3. QED  BY <5>2, FS_CardinalityType DEF Copies
      <4>4. QED  BY <1>b, <2>2, <4>1, <4>2, <4>3
    <3>5. QED  BY <1>b, <2>1, <3>4
  <2>6. QED  BY <2>3, <2>4, <2>5
<1>3. ASSUME UNCHANGED items PROVE Copies(w, k)' = Copies(w, k)
  BY <1>3, CopiesStay DEF Copies
<1>4. ASSUME NEW x \in Writers, StageStep(x) \/ HandlerKilled(x), x # w
      PROVE  /\ UNCHANGED <<at[w], position[w], tries[w]>>
             /\ UNCHANGED <<lost[w], pc[w]>>
  <2>1. UNCHANGED <<at[w], position[w], tries[w]>>
    BY <1>4, <1>t
       DEF StageStep, BeginHandler, CallStore, VectorInvalid, StoreProceeds,
           VectorStored, VectorFailed, HandlerReturns, HandlerKilled, loopVars
  <2>2. ASSUME \/ UNCHANGED vars \/ StoreStep(x) \/ StoreError(x)
               \/ \E u \in Users : StartStore(x, u)
        PROVE  UNCHANGED <<lost[w], pc[w]>>
    BY <2>2, <1>4, <1>t
       DEF StoreStep, QueryNextVersion, PutAccepted, PutAnswerLost, PutRejected,
           StoreError, StartStore, vars, storeVars
  <2>3. CASE CallStore(x)
    <3>1. StartStore(x, Current(x).user) /\ Current(x).user \in Users
      BY <2>3, ListEntries DEF CallStore, InLoop, Current, StageTypes, StageTypeOK
    <3>2. QED  BY <2>1, <2>2, <3>1
  <2>4. CASE ~CallStore(x)
    <3>1. UNCHANGED vars \/ StoreStep(x) \/ StoreError(x)
      BY <1>4, <2>4
         DEF StageStep, BeginHandler, VectorInvalid, StoreProceeds,
             VectorStored, VectorFailed, HandlerReturns, HandlerKilled
    <3>2. QED  BY <2>1, <2>2, <3>1
  <2>5. QED  BY <2>3, <2>4
<1>5. CASE UNCHANGED stageVars
  <2>1. UNCHANGED <<items, at, position, tries, lost, pc>>
    BY <1>5 DEF stageVars, loopVars, vars, storeVars
  <2>2. QED  BY <1>1, <1>3, <1>b, <2>1
<1>6. CASE BeginHandler(w)
  <2>1. /\ at[w] = "scheduled" /\ at'[w] = "loop"
        /\ tries'[w] = tries[w] + 1
        /\ UNCHANGED items
    BY <1>6, <1>t DEF BeginHandler, vars
  <2>2. CopyBound(w, k) = Full(tries[w])
    BY <2>1 DEF CopyBound
  <2>3. CopyBound(w, k)' \in {Full(tries[w]), Full(tries[w] + 1)}
    <3>1. tries'[w] - 1 = tries[w]
      BY <1>t, <2>1
    <3>2. CopyBound(w, k)' \in {Full(tries'[w] - 1), Full(tries'[w])}
      BY <2>1 DEF CopyBound, Full
    <3>3. QED  BY <2>1, <3>1, <3>2
  <2>4. QED  BY <1>t, <1>b, <1>f, <1>3, <2>1, <2>2, <2>3
<1>7. CASE CallStore(w)
  <2>1. /\ at[w] = "loop" /\ at'[w] = "storing"
        /\ lost'[w] = 0 /\ pc'[w] = "query"
        /\ UNCHANGED <<items, tries, position>>
    BY <1>7, <1>t DEF CallStore, StartStore, InLoop
  <2>2. /\ tries[w] >= 1
        /\ CopyBound(w, k) = IF k >= position[w] THEN Full(tries[w] - 1)
                                                 ELSE Full(tries[w])
    BY <1>b, <2>1 DEF CopyBound
  <2>3. CopyBound(w, k)' = CopyBound(w, k)
    <3>1. CASE k = position[w]
      <4>1. CopyBound(w, k)' = Full(tries[w] - 1) + 0 + 0
        BY <2>1, <3>1 DEF CopyBound, Full
      <4>2. CopyBound(w, k) = Full(tries[w] - 1)
        BY <1>k, <2>2, <3>1
      <4>3. QED  BY <1>f, <2>2, <4>1, <4>2
    <3>2. CASE k # position[w]
      BY <2>1, <2>2, <3>2 DEF CopyBound, Full
    <3>3. QED  BY <3>1, <3>2
  <2>4. QED  BY <1>b, <1>3, <2>1, <2>2, <2>3
<1>8. CASE StoreProceeds(w) /\ UNCHANGED items
  <2>1. UNCHANGED <<at, position, tries>>
    BY <1>8 DEF StoreProceeds, loopVars
  <2>2. CASE QueryNextVersion(w) \/ PutRejected(w) \/ StoreError(w)
    <3>1. UNCHANGED lost /\ pc[w] # "returned" /\ pc'[w] # "returned"
      BY <2>2, <1>t DEF QueryNextVersion, PutRejected, StoreError, InStore
    <3>2. QED  BY <1>1, <1>3, <1>8, <1>b, <2>1, <3>1
  <2>3. CASE PutAccepted(w) \/ PutAnswerLost(w)
    BY <1>2, <1>8, <2>3 DEF StoreProceeds
  <2>4. QED  BY <1>8, <2>2, <2>3 DEF StoreProceeds, StoreStep
<1>9. CASE VectorInvalid(w)
  <2>1. /\ at[w] = "loop" /\ at'[w] = "loop"
        /\ position'[w] = position[w] + 1
        /\ UNCHANGED <<items, tries>>
    BY <1>9, <1>t DEF VectorInvalid, InLoop, vars
  <2>2. /\ tries[w] >= 1
        /\ CopyBound(w, k) = IF k >= position[w] THEN Full(tries[w] - 1)
                                                 ELSE Full(tries[w])
        /\ CopyBound(w, k)' = IF k >= position[w] + 1 THEN Full(tries[w] - 1)
                                                      ELSE Full(tries[w])
    BY <1>b, <2>1 DEF CopyBound, Full
  <2>3. CopyBound(w, k) <= CopyBound(w, k)' /\ CopyBound(w, k)' \in Nat
        /\ CopyBound(w, k) \in Nat
    BY <1>k, <1>t, <1>f, <2>2
  <2>4. QED  BY <1>b, <1>3, <2>1, <2>2, <2>3
<1>10. CASE VectorStored(w) \/ VectorFailed(w)
  <2>1. /\ at[w] = "storing" /\ at'[w] = "loop"
        /\ position'[w] = position[w] + 1
        /\ UNCHANGED <<items, tries>>
    BY <1>10, <1>t DEF VectorStored, VectorFailed, vars
  <2>2. tries[w] >= 1
    BY <1>b, <2>1
  <2>3. CopyBound(w, k)' = IF k >= position[w] + 1 THEN Full(tries[w] - 1)
                                                   ELSE Full(tries[w])
    BY <2>1 DEF CopyBound, Full
  <2>4. CASE k = position[w]
    <3>1. CopyBound(w, k) = Full(tries[w] - 1) + lost[w]
                                + (IF pc[w] = "returned" THEN 1 ELSE 0)
      BY <2>1, <2>4 DEF CopyBound
    <3>2. CopyBound(w, k)' = Full(tries[w])
      BY <1>k, <2>3, <2>4
    <3>3. CopyBound(w, k) <= CopyBound(w, k)' /\ CopyBound(w, k)' \in Nat
          /\ CopyBound(w, k) \in Nat
      BY <1>t, <1>f, <2>2, <3>1, <3>2
    <3>4. QED  BY <1>b, <1>3, <2>1, <2>2, <3>3
  <2>5. CASE k # position[w]
    <3>1. CopyBound(w, k) = IF k >= position[w] THEN Full(tries[w] - 1)
                                                ELSE Full(tries[w])
      BY <2>1, <2>5 DEF CopyBound
    <3>2. CopyBound(w, k)' = CopyBound(w, k)
      BY <1>k, <1>t, <2>3, <2>5, <3>1
    <3>3. QED  BY <1>b, <1>3, <2>1, <2>2, <3>2
  <2>6. QED  BY <2>4, <2>5
<1>11. CASE HandlerReturns(w) \/ HandlerKilled(w)
  <2>1. /\ at[w] \in {"loop", "storing"}
        /\ at'[w] \in {"scheduled", "returned", "failed"}
        /\ UNCHANGED <<items, tries>>
    BY <1>11, <1>t DEF HandlerReturns, HandlerKilled, StoreError, vars
  <2>2. tries[w] >= 1
    BY <1>b, <2>1
  <2>3. CopyBound(w, k)' = Full(tries[w])
    BY <2>1 DEF CopyBound, Full
  <2>4. CopyBound(w, k) <= Full(tries[w])
    <3>1. CASE CopyBound(w, k) = Full(tries[w] - 1) + lost[w]
                                     + (IF pc[w] = "returned" THEN 1 ELSE 0)
      BY <1>t, <1>f, <2>2, <3>1
    <3>2. CASE CopyBound(w, k) \in {Full(tries[w] - 1), Full(tries[w])}
      BY <1>t, <1>f, <2>2, <3>2
    <3>3. QED  BY <3>1, <3>2 DEF CopyBound
  <2>5. CopyBound(w, k) \in Int
    <3>1. CASE CopyBound(w, k) = Full(tries[w] - 1) + lost[w]
                                     + (IF pc[w] = "returned" THEN 1 ELSE 0)
      BY <1>t, <1>f, <2>2, <3>1
    <3>2. CASE CopyBound(w, k) \in {Full(tries[w] - 1), Full(tries[w])}
      BY <1>t, <1>f, <2>2, <3>2
    <3>3. QED  BY <3>1, <3>2 DEF CopyBound
  <2>6. QED  BY <1>b, <1>f, <1>3, <2>1, <2>3, <2>4, <2>5
<1>12. QED
  <2> HIDE DEF Begun
  <2>1. CASE UNCHANGED items
    <3>1. ASSUME NEW x \in Writers, StageStep(x) \/ HandlerKilled(x), x # w
          PROVE  Begun(w)' /\ Copies(w, k)' <= CopyBound(w, k)'
      <4>1. CopyBound(w, k)' = CopyBound(w, k) /\ Begun(w)'
        BY <1>1, <1>4, <3>1
      <4>2. QED  BY <1>3, <1>b, <2>1, <4>1
    <3>2. ASSUME StageStep(w) \/ HandlerKilled(w)
          PROVE  Begun(w)' /\ Copies(w, k)' <= CopyBound(w, k)'
      BY <3>2, <2>1, <1>6, <1>7, <1>8, <1>9, <1>10, <1>11 DEF StageStep
    <3>3. QED  BY <3>1, <3>2, <1>5 DEF StageNext
  <2>2. QED  BY <1>2, <2>1, StageTableSteps

-----------------------------------------------------------------------------
(* What the event carries on, and what retries leave behind                *)

(* What relates the items to the calls that put them.                      *)
CopyInv ==
    /\ NewestIsReturned
    /\ PutsAreStoring
    /\ StoredAreNewest
    /\ CopiesOwner
    /\ CallsBegun
    /\ LostBounded
    /\ CopiesBounded

(* It holds in every state.                                                *)
LEMMA CopyInvHolds == StageSpec => [](StageInv /\ CopyInv)
<1>1. StageInit => CopyInv
  <2> SUFFICES ASSUME StageInit PROVE CopyInv  OBVIOUS
  <2>1. MaxLost \in Nat
    BY StoreAssumption
  <2>2. \A w \in Writers : \A k : CopiesOf(w, k) = {}
    BY DEF StageInit, Init, CopiesOf
  <2>3. CopiesBounded
    <3>1. ASSUME NEW w \in Writers, NEW k \in DOMAIN list[w]
          PROVE  Cardinality(CopiesOf(w, k)) <= CopyBound(w, k)
      <4>1. CopyBound(w, k) = 0
        <5>1. CopyBound(w, k) = Full(0)
          BY DEF StageInit, CopyBound
        <5>2. QED  BY <5>1, <2>1 DEF Full
      <4>2. Cardinality(CopiesOf(w, k)) = 0
        BY <2>2, FS_EmptySet
      <4>3. QED  BY <4>1, <4>2
    <3>2. QED  BY <3>1 DEF StageInit, CopiesBounded
  <2>4. NewestIsReturned /\ PutsAreStoring /\ StoredAreNewest /\ CallsBegun
        /\ LostBounded /\ CopiesOwner
    BY <2>1, <2>2
       DEF StageInit, Init, NewestIsReturned, PutsAreStoring, InStore,
           StoredAreNewest, NothingStored, CallsBegun, LostBounded,
           CopiesOwner
  <2>5. QED  BY <2>3, <2>4 DEF CopyInv
<1>2. StageInv /\ CopyInv /\ [StageNext]_stageVars => CopyInv'
  <2> SUFFICES ASSUME StageInv, CopyInv, [StageNext]_stageVars PROVE CopyInv'
    OBVIOUS
  <2>1. IInv /\ StageTypes /\ Sending
    BY DEF StageInv, StageTypes
  <2>2. [Next]_vars
    BY <2>1, StageStepIsStoreStep DEF StageTypes, StageTypeOK
  <2>3. NewestIsReturned' /\ CallsBegun' /\ LostBounded'
    BY <2>1, <2>2, NewestReturnedKept, CallsBegunKept, LostBoundedKept
       DEF CopyInv
  <2>4. PutsAreStoring' /\ CopiesOwner' /\ StoredAreNewest' /\ CopiesBounded'
    BY <2>1, PutsStayStoring, CopiesOwnerKept, StoredNewestKept, CopiesBoundedKept
       DEF CopyInv
  <2>5. QED  BY <2>3, <2>4 DEF CopyInv
<1>3. QED  BY <1>1, <1>2, StageInvariant, PTL DEF StageSpec

(* The version the event carries on for a subscriber is the newest copy    *)
(* this execution has left in the table of the vector stored there,        *)
(* whatever earlier invocations and lost answers left behind and however   *)
(* often the list names the subscriber.                                    *)
THEOREM OutputIsNewest == StageSpec => []OutputIsNewestCopy
<1>1. CopyInv /\ KeyUnique => OutputIsNewestCopy
  <2> SUFFICES ASSUME CopyInv, KeyUnique,
                      NEW w \in Writers, NEW u \in DOMAIN stored[w],
                      NEW k \in Reported(w, u)
               PROVE  \A i \in CopiesOf(w, k) : i.version <= stored[w][u]
    BY DEF OutputIsNewestCopy
  <2>1. PICK j \in DOMAIN list[w] : NotedNewest(w, u, j)
    BY DEF CopyInv, StoredAreNewest
  <2>2. PICK a \in CopiesOf(w, j) : a.user = u /\ a.version = stored[w][u]
    BY <2>1 DEF NotedNewest
  <2>3. PICK b \in CopiesOf(w, k) : b.user = u /\ b.version = stored[w][u]
    BY DEF Reported
  <2>4. a = b
    BY <2>2, <2>3 DEF KeyUnique, CopiesOf
  <2>5. j = k
    BY <2>4 DEF CopiesOf, HoldsVector
  <2>6. QED  BY <2>1, <2>5 DEF NotedNewest
<1>2. KInv => KeyUnique
  BY DEF KInv
<1>3. QED
  BY <1>1, <1>2, CopyInvHolds, StageImplementsStore, KInvHolds, PTL

(* A vector is in the table at most once per invocation of the state and   *)
(* once more per lost answer, for any lists and any number of retries.     *)
THEOREM RetriesAreBounded == StageSpec => []CopiesPerTry
<1>1. StageInv /\ CopyInv => CopiesPerTry
  <2> SUFFICES ASSUME StageInv, CopyInv, NEW w \in Writers, NEW k \in DOMAIN list[w]
               PROVE  Cardinality(CopiesOf(w, k)) <= Full(tries[w])
    BY DEF CopiesPerTry, Full
  <2>1. /\ tries[w] \in Nat
        /\ lost[w] \in Nat /\ lost[w] <= MaxLost /\ MaxLost \in Nat
    BY StoreAssumption, ListAssumption
       DEF StageInv, IInv, TypeOK, StageTypeOK, CopyInv, LostBounded
  <2>2. /\ at[w] \in {"loop", "storing"} => tries[w] >= 1
        /\ Cardinality(CopiesOf(w, k)) <= CopyBound(w, k)
        /\ Cardinality(CopiesOf(w, k)) \in Nat
    BY CopiesFinite DEF CopyInv, CopiesBounded, StageInv
  <2>3. /\ Full(tries[w]) \in Nat
        /\ tries[w] >= 1 => /\ Full(tries[w] - 1) \in Nat
                            /\ Full(tries[w]) = Full(tries[w] - 1) + 1 + MaxLost
    BY <2>1, FullGrows
  <2>4. CASE tries[w] >= 1 /\ CopyBound(w, k) = Full(tries[w] - 1) + lost[w]
                                   + (IF pc[w] = "returned" THEN 1 ELSE 0)
    BY <2>1, <2>2, <2>3, <2>4
  <2>5. CASE tries[w] >= 1 /\ CopyBound(w, k) = Full(tries[w] - 1)
    BY <2>1, <2>2, <2>3, <2>5
  <2>6. CASE CopyBound(w, k) = Full(tries[w])
    BY <2>2, <2>3, <2>6
  <2>7. QED  BY <2>2, <2>4, <2>5, <2>6 DEF CopyBound
<1>2. QED  BY <1>1, CopyInvHolds, PTL
=============================================================================
