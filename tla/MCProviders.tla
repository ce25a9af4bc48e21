---------------------------- MODULE MCProviders ----------------------------
(* An instance of Providers: each kind of access, by name and by id. *)
EXTENDS Providers

CONSTANTS c1, c2

MCCallArgs ==
  {{Named("EthMainnet", "BlockPi"), Named("EthMainnet", "Cloudflare")},
   {Named("EthSepolia", "BlockPi"), Named("EthSepolia", "PublicNode")},
   {Named("BaseMainnet", "Ankr"), Named("BaseMainnet", "Llama")},
   {ById(3)}, {ById(6)}, {ById(99)},
   {Custom("a.example", 7), Custom("b.example", 0)},
   {Custom("a.example", BadHeader)}, {Custom(Hostless, 0)},
   {Custom(Malformed, 0)}}

CallSymmetry == Permutations(Call)
=============================================================================
