----------------------------- MODULE StoreFeatures ----------------------------
(***************************************************************************)
(* The StoreFeatures state of several executions at once                   *)
(* (src/src/orchestrator/handlers/store_handler.py), each a Lambda that    *)
(* stores a list of vectors one by one through FeatureStore.store() and    *)
(* reports the version every subscriber got.                               *)
(*                                                                         *)
(* An error of one vector is counted and the loop goes on.  When the       *)
(* Lambda itself dies, what it has stored stays and the state machine      *)
(* starts it again with the same event (Retry of the state, MaxTries - 1   *)
(* times), so a vector can end up in the table several times.              *)
(***************************************************************************)
EXTENDS FeatureStore

CONSTANTS Lists,    \* lists of [user, ok], one per execution
          MaxTries  \* invocations of the state: 1 + the Retry's MaxAttempts

ASSUME ListAssumption ==
    /\ Lists \subseteq [Writers -> Seq([user : Users, ok : BOOLEAN])]
    /\ MaxTries \in Nat \ {0}

VARIABLES
    list,         \* feature_vectors of each execution's event
    at,           \* where each execution's StoreFeatures state stands
    tries,        \* Lambda invocations begun for the state
    position,     \* the vector the loop has come to
    stored,       \* stored_versions: user -> version, of a user's last vector
    failures,     \* users_store_failed
    sent          \* the vector each store() call was given

loopVars == <<list, at, tries, position, stored, failures, sent>>
stageVars == <<vars, loopVars>>

-----------------------------------------------------------------------------

NothingStored == [u \in {} |-> 0]

(* stored_versions[u] = v                                                  *)
WithVersion(versions, u, v) ==
    [x \in DOMAIN versions \cup {u} |-> IF x = u THEN v ELSE versions[x]]

Current(w) == list[w][position[w]]

StageInit ==
    /\ Init
    /\ list \in Lists
    /\ at = [w \in Writers |-> "scheduled"]
    /\ tries = [w \in Writers |-> 0]
    /\ position = [w \in Writers |-> 1]
    /\ stored = [w \in Writers |-> NothingStored]
    /\ failures = [w \in Writers |-> 0]
    /\ sent = [w \in Writers |-> << >>]

BeginHandler(w) ==
    /\ at[w] = "scheduled"
    /\ at' = [at EXCEPT ![w] = "loop"]
    /\ tries' = [tries EXCEPT ![w] = @ + 1]
    /\ UNCHANGED <<vars, list, position, stored, failures, sent>>

InLoop(w) == at[w] = "loop" /\ position[w] \in DOMAIN list[w]

CallStore(w) ==
    /\ InLoop(w)
    /\ Current(w).ok
    /\ StartStore(w, Current(w).user)
    /\ at' = [at EXCEPT ![w] = "storing"]
    /\ sent' = [sent EXCEPT ![w] = Append(@, position[w])]
    /\ UNCHANGED <<list, tries, position, stored, failures>>

(* FeatureVector( **fv_data) raises: store() is never called.              *)
VectorInvalid(w) ==
    /\ InLoop(w)
    /\ ~Current(w).ok
    /\ position' = [position EXCEPT ![w] = @ + 1]
    /\ failures' = [failures EXCEPT ![w] = @ + 1]
    /\ UNCHANGED <<vars, list, at, tries, stored, sent>>

(* The steps inside store(), and an error it raises.                       *)
StoreProceeds(w) ==
    /\ at[w] = "storing"
    /\ StoreStep(w) \/ StoreError(w)
    /\ UNCHANGED loopVars

\* Mutant: the version the first attempt tried is reported.
VectorStoredStale(w) ==
    /\ at[w] = "storing"
    /\ pc[w] = "returned"
    /\ stored' = [stored EXCEPT ![w] =
                     WithVersion(@, user[w], nextVersion[w] - attempt[w])]
    /\ position' = [position EXCEPT ![w] = @ + 1]
    /\ at' = [at EXCEPT ![w] = "loop"]
    /\ UNCHANGED <<vars, list, tries, failures, sent>>

VectorStored(w) ==
    /\ at[w] = "storing"
    /\ pc[w] = "returned"
    /\ stored' = [stored EXCEPT ![w] =
                     WithVersion(@, user[w], nextVersion[w])]
    /\ position' = [position EXCEPT ![w] = @ + 1]
    /\ at' = [at EXCEPT ![w] = "loop"]
    /\ UNCHANGED <<vars, list, tries, failures, sent>>

\* Mutant: a vector that could not be stored is tried again at once.
VectorFailedRepeats(w) ==
    /\ at[w] = "storing"
    /\ pc[w] = "raised"
    /\ failures' = [failures EXCEPT ![w] = @ + 1]
    /\ at' = [at EXCEPT ![w] = "loop"]
    /\ UNCHANGED <<vars, list, tries, position, stored, sent>>

VectorFailed(w) ==
    /\ at[w] = "storing"
    /\ pc[w] = "raised"
    /\ position' = [position EXCEPT ![w] = @ + 1]
    /\ failures' = [failures EXCEPT ![w] = @ + 1]
    /\ at' = [at EXCEPT ![w] = "loop"]
    /\ UNCHANGED <<vars, list, tries, stored, sent>>

(* The output lists the vectors whose user has an entry in stored.         *)
HandlerReturns(w) ==
    /\ at[w] = "loop"
    /\ position[w] \notin DOMAIN list[w]
    /\ at' = [at EXCEPT ![w] = "returned"]
    /\ UNCHANGED <<vars, list, tries, position, stored, failures, sent>>

(* The Lambda dies (timeout, memory, a lost instance), between two vectors *)
(* or inside store().  The next invocation starts from empty counters:     *)
(* only the table remembers what this one did.                             *)
HandlerKilled(w) ==
    /\ \/ at[w] = "loop" /\ UNCHANGED vars
       \/ at[w] = "storing" /\ StoreError(w)
       \/ at[w] = "storing" /\ ~InStore(w) /\ UNCHANGED vars
    /\ at' = [at EXCEPT ![w] =
                 IF tries[w] < MaxTries THEN "scheduled" ELSE "failed"]
    /\ position' = [position EXCEPT ![w] = 1]
    /\ stored' = [stored EXCEPT ![w] = NothingStored]
    /\ failures' = [failures EXCEPT ![w] = 0]
    /\ UNCHANGED <<list, tries, sent>>

StageStep(w) == \/ BeginHandler(w)
                \/ CallStore(w)
                \/ VectorInvalid(w)
                \/ StoreProceeds(w)
                \/ VectorStored(w)
                \/ VectorFailed(w)
                \/ HandlerReturns(w)

StageNext == \E w \in Writers : StageStep(w) \/ HandlerKilled(w)

StageSpec == StageInit /\ [][StageNext]_stageVars

-----------------------------------------------------------------------------
(* Properties                                                              *)

(* Type invariant of the stages; that of the store is part of it.          *)
StageTypeOK ==
    /\ list \in Lists
    /\ at \in [Writers -> {"scheduled", "loop", "storing", "returned", "failed"}]
    /\ tries \in [Writers -> 0 .. MaxTries]
    /\ position \in [Writers -> Nat \ {0}]
    /\ stored \in [Writers -> UNION {[S -> Nat] : S \in SUBSET Users}]
    /\ failures \in [Writers -> Nat]
    /\ sent \in [Writers -> Seq(Nat \ {0})]

(* i holds the vector that stands at position k of w's list.               *)
HoldsVector(i, w, k) ==
    /\ i.vector[1] = w
    /\ i.vector[2] \in DOMAIN sent[w]
    /\ sent[w][i.vector[2]] = k

CopiesOf(w, k) == {i \in items : HoldsVector(i, w, k)}

(* The version the event carries on for a subscriber is the key of this    *)
(* execution's own vector of that subscriber, although other executions    *)
(* store vectors of the same subscriber and earlier invocations of this    *)
(* one may have left copies behind.                                        *)
OutputIsStored ==
    \A w \in Writers : at[w] = "returned" =>
        \A u \in DOMAIN stored[w] :
            \E k \in DOMAIN list[w] :
                /\ list[w][k].user = u
                /\ \E i \in CopiesOf(w, k) :
                      i.user = u /\ i.version = stored[w][u]

\* The positions of the list whose vector the reported version holds.
Reported(w, u) ==
    {k \in DOMAIN list[w] :
        \E i \in CopiesOf(w, k) : i.user = u /\ i.version = stored[w][u]}

(* The version the event carries on is the newest of the copies this       *)
(* execution has left in the table of that vector, also when the list has  *)
(* several vectors of the subscriber and the last one overwrites its entry.*)
OutputIsNewestCopy ==
    \A w \in Writers : at[w] = "returned" =>
        \A u \in DOMAIN stored[w] : \A k \in Reported(w, u) :
            \A i \in CopiesOf(w, k) : i.version <= stored[w][u]

(* A vector is in the table at most once per invocation of the state and   *)
(* once more per lost answer of its put: a retry repeats the whole list,   *)
(* but nothing else repeats a vector.                                      *)
CopiesPerTry ==
    \A w \in Writers : \A k \in DOMAIN list[w] :
        Cardinality(CopiesOf(w, k)) <= tries[w] * (1 + MaxLost)
=============================================================================
