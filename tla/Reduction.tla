----------------------------- MODULE Reduction -----------------------------
(***************************************************************************)
(* How the results of several services become one answer: the reductions   *)
(* of canhttp that ReductionStrategy selects, and collapse, with which     *)
(* MultiRpcResult::map and and_then end.  A result is a record whose kind  *)
(* is "ok" or names an error.  A set of answers means that the code leaves *)
(* open which one it is.                                                   *)
(***************************************************************************)
EXTENDS Integers, FiniteSets

CONSTANT NoResult   \* no result, in a place where one could be

Consistent(res) == [kind |-> "consistent", res |-> res]
Inconsistent == [kind |-> "inconsistent", res |-> NoResult]

(***************************************************************************)
(* The consensus strategy: Threshold { min } or, since a threshold of zero *)
(* is refused, Equality as zero.                                           *)
(***************************************************************************)
Equality == 0

(* All the services S have the same result. *)
Agree(S, res) == \A s, t \in S : res[s] = res[t]

(* Mutant of ByEquality: errors are ignored when the values agree. *)
ByEqualityOfValues(S, res) ==
  LET oks == {s \in S : res[s].kind = "ok"}
  IN  IF oks # {} /\ Agree(oks, res) THEN {Consistent(res[s]) : s \in oks}
      ELSE {Inconsistent}

(* ReduceWithEquality: all services returned the same value, or the same
   error. *)
ByEquality(S, res) ==
  IF Agree(S, res) THEN {Consistent(res[s]) : s \in S} ELSE {Inconsistent}

(* Mutant of ByThreshold: min values are enough, equal or not. *)
ByNumberOfValues(S, res, m) ==
  LET oks == {s \in S : res[s].kind = "ok"}
  IN  IF Cardinality(oks) >= m THEN {Consistent(res[s]) : s \in oks}
      ELSE {Inconsistent}

(* ReduceWithThreshold: the most frequent value, if at least m services
   returned it.  Which of several most frequent values wins depends on their
   hashes. *)
ByThreshold(S, res, m) ==
  LET oks == {s \in S : res[s].kind = "ok"}
      support(s) == Cardinality({t \in oks : res[t] = res[s]})
      best == {s \in oks : \A t \in oks : support(t) <= support(s)}
  IN  IF Cardinality(oks) < m
      THEN IF oks = {} /\ Agree(S, res)
           THEN {Consistent(res[s]) : s \in S}
           ELSE {Inconsistent}
      ELSE IF \E s \in best : support(s) >= m
           THEN {Consistent(res[s]) : s \in best}
           ELSE {Inconsistent}

(* ReductionStrategy::reduce. *)
ByStrategy(S, res, m) ==
  IF m = Equality THEN ByEquality(S, res) ELSE ByThreshold(S, res, m)

(* Mutant of Collapse: only the values are compared. *)
CollapseValues(S, res, r) ==
  LET oks == {s \in S : res[s].kind = "ok"}
  IN  IF r = Inconsistent /\ oks # {} /\ Agree(oks, res)
      THEN {Consistent(res[s]) : s \in oks}
      ELSE {r}

(* collapse: results reported inconsistent that are all the same are one
   consistent result, whatever the strategy. *)
Collapse(S, res, r) ==
  IF r = Inconsistent /\ Agree(S, res)
  THEN {Consistent(res[s]) : s \in S}
  ELSE {r}
=============================================================================
