------------------------- MODULE MCResultConversion -------------------------
(* Instances of ResultConversion for model checking. *)
EXTENDS ResultConversion, TLC

CONSTANTS s1, s2, s3

(* A failure in the words the client uses for a status, and another one. *)
MCFailure == {<<"InsufficientFunds", -32000>>, <<"IcError", 2>>}

ServiceSymmetry == Permutations(Service)
=============================================================================
