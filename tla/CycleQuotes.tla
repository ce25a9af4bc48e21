----------------------------- MODULE CycleQuotes -----------------------------
(***************************************************************************)
(* What a caller is told to pay for the request endpoint and what it pays. *)
(* Two kinds of callers share the canister: one asks requestCost and sends *)
(* that many cycles; the other is the Motoko client, which sends its       *)
(* default cycles and, told TooFewCycles, tries once more with what was    *)
(* expected.  Meanwhile API keys are changed (a key in the URL changes the *)
(* size of the request) and the canister is upgraded in or out of demo     *)
(* mode and to another number of nodes, so a price may be stale when used. *)
(***************************************************************************)
EXTENDS Integers, Sequences, FiniteSets

CONSTANTS
  Quoting,        \* requests made with the answer of requestCost
  Motoko,         \* requests of one Rpc object of the Motoko client
  Nodes,          \* numbers of nodes of the subnet the canister is told of
  Key,            \* API keys of the provider
  Kind,           \* "valid", "unresolved" or "unparsed" service and payload
  Cost,           \* cycles the IC asks for the outcall, by nodes and key
  Collateral,     \* COLLATERAL_CYCLES_PER_NODE
  DefaultCycles   \* defaultCycles of the Motoko client

Request == Quoting \cup Motoko

ASSUME QuotesAssumption ==
  /\ Quoting \cap Motoko = {}
  /\ Nodes \subseteq Nat /\ Collateral \in Nat /\ DefaultCycles \in Nat
  /\ Cost \in [Nodes -> [Key -> Nat]]
  /\ Kind \subseteq {"valid", "unresolved", "unparsed"}

VARIABLES
  config,    \* of the canister: demo, nodes, key
  nextId,    \* of the Rpc object of the Motoko client
  pc,        \* of every request: idle, asking, quoted, sent, calling,
             \* replied or done
  kind,      \* of every request, its service and payload
  id,        \* of every request, the JSON-RPC id in its payload
  cycles,    \* attached to the request being sent
  reply,     \* the last answer of the canister to the request
  outcalls,  \* HTTP outcalls made for the request
  paid,      \* cycles the canister kept for the request
  seen       \* the configuration the request was last priced in, if any,
             \* and whether it is the one of the time before, if any

vars == <<config, nextId, pc, kind, id, cycles, reply, outcalls, paid, seen>>

Config == [demo : BOOLEAN, nodes : Nodes, key : Key]

Reply(tag, amount) == [tag |-> tag, amount |-> amount]
NoReply == Reply("none", 0)

Init ==
  /\ config \in Config
  /\ nextId = 0
  /\ pc = [r \in Request |-> "idle"]
  /\ kind \in [Request -> Kind]
  /\ id = [r \in Request |-> 0]
  /\ cycles = [r \in Request |-> 0]
  /\ reply = [r \in Request |-> NoReply]
  /\ outcalls = [r \in Request |-> 0]
  /\ paid = [r \in Request |-> 0]
  /\ seen = [r \in Request |-> <<>>]

-----------------------------------------------------------------------------
(***************************************************************************)
(* The canister.                                                           *)
(***************************************************************************)
ChargingPolicy(c) == [chargeUser |-> ~c.demo, collateral |-> Collateral * c.nodes]

(* ChargingPolicyWithCollateral::cycles_to_charge. *)
CyclesToCharge(policy, attached) ==
  IF policy.chargeUser THEN attached + policy.collateral ELSE 0

Charge(c) == CyclesToCharge(ChargingPolicy(c), Cost[c.nodes][c.key])

(* What resolve_rpc_service and json_rpc_request_arg refuse, in this order. *)
Refused(k) == k # "valid"
Refusal(k) ==
  Reply(IF k = "unresolved" THEN "ProviderError" ELSE "ValidationError", 0)

(* Mutant of RequestCost: quotes the cost of the outcall alone. *)
CostOfOutcall(c, k) ==
  IF c.demo THEN Reply("Quote", 0)
  ELSE IF Refused(k) THEN Refusal(k)
  ELSE Reply("Quote", Cost[c.nodes][c.key])

RequestCost(c, k) ==
  IF c.demo THEN Reply("Quote", 0)
  ELSE IF Refused(k) THEN Refusal(k)
  ELSE Reply("Quote", Charge(c))

(* Mutant of TooFewCycles: expects what is missing. *)
MissingCycles(expected, received) == Reply("TooFewCycles", expected - received)

TooFewCycles(expected, received) == Reply("TooFewCycles", expected)

(* The request r is priced in the current configuration. *)
Price(r) ==
  seen' = [seen EXCEPT ![r] = IF @ = <<>> THEN <<config>>
                              ELSE <<config, @[1] = config>>]

(* The query requestCost runs. *)
ServeQuote(r) ==
  /\ pc[r] = "asking"
  /\ reply' = [reply EXCEPT ![r] = RequestCost(config, kind[r])]
  /\ pc' = [pc EXCEPT ![r] = "quoted"]
  /\ Price(r)
  /\ UNCHANGED <<config, nextId, kind, id, cycles, outcalls, paid>>

(* The update request runs up to its outcall.  Cycles that are not accepted *)
(* are refunded with the reply.                                             *)
ServeRequest(r) ==
  LET charge == Charge(config)
      Answer(a) == /\ reply' = [reply EXCEPT ![r] = a]
                   /\ pc' = [pc EXCEPT ![r] = "replied"]
                   /\ UNCHANGED <<outcalls, paid>>
  IN  /\ pc[r] = "sent"
      /\ Price(r)
      /\ \/ Refused(kind[r]) /\ Answer(Refusal(kind[r]))
         \/ /\ ~Refused(kind[r]) /\ cycles[r] < charge
            /\ Answer(TooFewCycles(charge, cycles[r]))
         \/ /\ ~Refused(kind[r]) /\ cycles[r] >= charge
            /\ paid' = [paid EXCEPT ![r] = @ + charge]
            /\ outcalls' = [outcalls EXCEPT ![r] = @ + 1]
            /\ pc' = [pc EXCEPT ![r] = "calling"]
            /\ UNCHANGED reply
      /\ UNCHANGED <<config, nextId, kind, id, cycles>>

(* The outcall ends: with a text, or with an error of the provider, of the  *)
(* IC or of the conversion of its response, which no caller here tells      *)
(* apart.                                                                   *)
EndOutcall(r) ==
  /\ pc[r] = "calling"
  /\ \E tag \in {"Ok", "HttpOutcallError"} :
       reply' = [reply EXCEPT ![r] = Reply(tag, 0)]
  /\ pc' = [pc EXCEPT ![r] = "replied"]
  /\ UNCHANGED <<config, nextId, kind, id, cycles, outcalls, paid, seen>>

(* updateApiKeys. *)
UpdateApiKey(k) ==
  /\ config' = [config EXCEPT !.key = k]
  /\ UNCHANGED <<nextId, pc, kind, id, cycles, reply, outcalls, paid, seen>>

(* post_upgrade, once the canister is stopped: no outcall is in flight. *)
Upgrade(demo, nodes) ==
  /\ \A r \in Request : pc[r] # "calling"
  /\ config' = [config EXCEPT !.demo = demo, !.nodes = nodes]
  /\ UNCHANGED <<nextId, pc, kind, id, cycles, reply, outcalls, paid, seen>>

-----------------------------------------------------------------------------
(***************************************************************************)
(* A caller of requestCost.                                                *)
(***************************************************************************)
AskQuote(r) ==
  /\ r \in Quoting /\ pc[r] = "idle"
  /\ pc' = [pc EXCEPT ![r] = "asking"]
  /\ UNCHANGED <<config, nextId, kind, id, cycles, reply, outcalls, paid, seen>>

UseQuote(r) ==
  /\ pc[r] = "quoted"
  /\ IF reply[r].tag = "Quote"
     THEN /\ cycles' = [cycles EXCEPT ![r] = reply[r].amount]
          /\ pc' = [pc EXCEPT ![r] = "sent"]
     ELSE pc' = [pc EXCEPT ![r] = "done"] /\ UNCHANGED cycles
  /\ UNCHANGED <<config, nextId, kind, id, reply, outcalls, paid, seen>>

(***************************************************************************)
(* The Motoko client.                                                      *)
(***************************************************************************)

(* request: an id, taken before anything is awaited, the payload, and the  *)
(* first attempt of requestPlain.                                          *)
MotokoRequest(r) ==
  /\ r \in Motoko /\ pc[r] = "idle"
  /\ nextId' = nextId + 1
  /\ id' = [id EXCEPT ![r] = nextId']
  /\ cycles' = [cycles EXCEPT ![r] = DefaultCycles]
  /\ pc' = [pc EXCEPT ![r] = "sent"]
  /\ UNCHANGED <<config, kind, reply, outcalls, paid, seen>>

(* Mutants of Retries: whatever the error, and any ProviderError as often  *)
(* as it comes.                                                            *)
RetriesOnError(r) == reply[r].tag # "Ok" /\ Len(seen[r]) = 1
RetriesProviderError(r) == reply[r].tag \in {"TooFewCycles", "ProviderError"}

(* The case of requestPlain that is tried again: the first attempt only. *)
Retries(r) == reply[r].tag = "TooFewCycles" /\ Len(seen[r]) = 1

(* The awaited reply arrives. *)
Receive(r) ==
  /\ pc[r] = "replied"
  /\ IF r \in Motoko /\ Retries(r)
     THEN /\ cycles' = [cycles EXCEPT ![r] = reply[r].amount]
          /\ pc' = [pc EXCEPT ![r] = "sent"]
     ELSE pc' = [pc EXCEPT ![r] = "done"] /\ UNCHANGED cycles
  /\ UNCHANGED <<config, nextId, kind, id, reply, outcalls, paid, seen>>

(* The IC rejects the call: it was not delivered, or the canister trapped   *)
(* when the outcall ended.  The await of the caller throws.                 *)
Reject(r) ==
  /\ pc[r] \in {"asking", "sent", "calling"}
  /\ reply' = [reply EXCEPT ![r] = Reply("Rejected", 0)]
  /\ pc' = [pc EXCEPT ![r] = "done"]
  /\ UNCHANGED <<config, nextId, kind, id, cycles, outcalls, paid, seen>>

-----------------------------------------------------------------------------
Progress(r) == \/ ServeQuote(r) \/ ServeRequest(r) \/ EndOutcall(r)
               \/ UseQuote(r) \/ Receive(r)

Next ==
  \/ \E r \in Request : \/ AskQuote(r) \/ MotokoRequest(r)
                        \/ Progress(r) \/ Reject(r)
  \/ \E k \in Key : UpdateApiKey(k)
  \/ \E demo \in BOOLEAN, nodes \in Nodes : Upgrade(demo, nodes)

Spec == Init /\ [][Next]_vars

(* The IC executes or rejects every message, ends every outcall and         *)
(* delivers every reply, and callers that were answered go on.              *)
FairSpec == Spec /\ \A r \in Request : WF_vars(Progress(r) \/ Reject(r))

-----------------------------------------------------------------------------
(***************************************************************************)
(* Properties.                                                             *)
(***************************************************************************)

(* The canister's configuration was the same the two times it priced r. *)
PricedTwiceAlike(r) == Len(seen[r]) = 2 /\ seen[r][2]

(* A caller that sends what requestCost told it is not told TooFewCycles,   *)
(* and if an outcall is made it pays exactly the quote, as long as keys,    *)
(* demo mode and the number of nodes did not change in between: request and *)
(* requestCost build and price the same request.                            *)
QuoteHonoured ==
  \A r \in Quoting : PricedTwiceAlike(r) =>
    /\ reply[r].tag # "TooFewCycles"
    /\ outcalls[r] = 1 => paid[r] = cycles[r]

(* When the Motoko client tries again with the cycles expected, they are    *)
(* enough unless the price changed in between: TooFewCycles names the whole *)
(* amount, although nothing of the first attempt was kept.                  *)
RetrySuffices ==
  \A r \in Motoko :
    (PricedTwiceAlike(r) /\ pc[r] \in {"replied", "done"}) =>
      reply[r].tag # "TooFewCycles"

(* However often a request is tried, at most one outcall is made for it     *)
(* (what is requested may not be idempotent) and it is paid for once, at    *)
(* the price of the configuration it was made in.                           *)
PaidOnce ==
  \A r \in Request :
    /\ outcalls[r] <= 1
    /\ paid[r] = IF outcalls[r] = 0 THEN 0 ELSE Charge(seen[r][1])

(* Every request that is made ends, however prices change: requestPlain     *)
(* tries at most twice.                                                     *)
RequestsEnd == \A r \in Request : pc[r] # "idle" ~> pc[r] = "done"
=============================================================================
