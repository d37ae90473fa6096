---------------------------- MODULE AppendOnlyLog ----------------------------
(***************************************************************************)
(* What the Feature Store promises its callers (requirements.md, Req. 9):  *)
(* per subscriber, a log of feature vectors whose version numbers are the  *)
(* positions 1, 2, 3, ... of the log, which only grows at its end.         *)
(***************************************************************************)
EXTENDS Naturals, Sequences

CONSTANTS Users,     \* subscribers
          Vectors    \* what may be stored

VARIABLE log         \* log[u][v] is version v of u's features

(* Type invariant.                                                         *)
LogTypeOK == log \in [Users -> Seq(Vectors)]

LogInit == log = [u \in Users |-> << >>]

Store(u, d) == log' = [log EXCEPT ![u] = Append(@, d)]

LogNext == \E u \in Users, d \in Vectors : Store(u, d)

LogSpec == LogInit /\ [][LogNext]_log
=============================================================================
