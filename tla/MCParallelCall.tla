--------------------------- MODULE MCParallelCall ---------------------------
(* Instances of ParallelCall for model checking. *)
EXTENDS ParallelCall, TLC

CONSTANTS c1, c2, h1, h2

(* Prices differ per service and grow with the size. *)
MCCost == [s \in Service |-> [z \in Size |-> s + 2 * z]]

(* The first two services share a host. *)
MCHostOf == [s \in Service |-> IF s <= 2 THEN h1 ELSE h2]
(* Service 2 is requested at its public URL, its key goes to another host. *)
MCHostnameOf == [s \in Service |-> IF s = 2 THEN h2 ELSE MCHostOf[s]]
MCHost == {h1, h2}

CallSymmetry == Permutations(Call)
=============================================================================
