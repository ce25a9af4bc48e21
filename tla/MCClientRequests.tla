-------------------------- MODULE MCClientRequests --------------------------
(* Instances of ClientRequests for model checking. *)
EXTENDS ClientRequests, TLC

CONSTANTS c1, r1, r2

MCNoProviders == {<<"EthSepolia", 2>>}

RequestSymmetry == Permutations(Request)
=============================================================================
