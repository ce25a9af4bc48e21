------------------------ MODULE MCProviderSelection ------------------------
(* Instances of ProviderSelection for model checking. *)
EXTENDS ProviderSelection

CONSTANTS n1, n2, a, b, c, d, x, y, k1, k2

MCList == (n1 :> <<a, b, c>>) @@ (n2 :> <<d>>)

Ask(net, given, list, strategy, min, total) ==
  [net |-> net, given |-> given, list |-> list, strategy |-> strategy,
   min |-> min, total |-> total]

Default(net, strategy, min, total) ==
  Ask(net, FALSE, <<>>, strategy, min, total)

Named(list, strategy, min, total) == Ask(n1, TRUE, list, strategy, min, total)

(* Choices left to the canister, some of them refused. *)
DefaultRequests ==
  {Default(n1, "equality", 0, NoTotal),
   Default(n1, "threshold", 1, 1),
   Default(n1, "threshold", 2, 1),
   Default(n1, "threshold", 1, NoTotal),
   Default(n2, "equality", 0, NoTotal)}

(* Lists of services given by the caller: good ones, an empty one, and lists
   as long as, and longer than, what U8 can count. *)
NamedRequests ==
  {Named(<<b, c>>, "threshold", 2, NoTotal),
   Named(<<b, c>>, "threshold", 3, NoTotal),
   Named(<<x>>, "threshold", 0, NoTotal),
   Named(<<c, x>>, "equality", 0, NoTotal),
   Named(<<>>, "equality", 0, NoTotal),
   Named(<<a, b, c, x>>, "threshold", 1, NoTotal),
   Named(<<a, b, c, x, y>>, "threshold", 1, 1),
   Named(<<a, b, c, x, y>>, "threshold", 3, NoTotal)}

(* A list that repeats a service. *)
RepeatingRequests == {Named(<<x, x>>, "threshold", 2, 2)}

MCRequest == DefaultRequests \cup NamedRequests \cup RepeatingRequests

CallSymmetry == Permutations(Call)
=============================================================================
