--------------------------- MODULE ClientRequests ---------------------------
(***************************************************************************)
(* The Rust client, from its builders to the canister: a ClientBuilder is  *)
(* configured, clients are built from it, request builders are made from   *)
(* the clients, reconfigured, cloned and sent, and the endpoints of the    *)
(* canister complete what was left out, check the block range and call the *)
(* providers.  The variable asked remembers, for every builder, what the   *)
(* caller last said about each setting: the reference the rest is checked  *)
(* against.  Options are None or a value; an optional record is <<>> or    *)
(* <<record>>.                                                             *)
(***************************************************************************)
EXTENDS Integers, FiniteSets

CONSTANTS
  Endpoint,      \* the endpoints exercised, of those in DOMAIN EvmRpcEndpoint
  Client,        \* clients that are built
  Request,       \* request builders that are made
  Sources,       \* RpcServices given by callers: the network only
  Consensus,     \* ConsensusStrategy values given by callers
  Estimate,      \* response_size_estimate values given by callers
  MaxRange,      \* max_block_range values given by callers
  Number,        \* block numbers given by callers
  Opaque,        \* values of the other parameters
  Cycles,        \* cycles given by callers
  NoProviders,   \* pairs <<sources, strategy>> that Providers::new refuses
  DefaultRange,  \* DEFAULT_ETH_GET_LOGS_MAX_BLOCK_RANGE
  MaxPayload,    \* MAX_PAYLOAD_SIZE
  MaxCalls       \* bound on the calls that configure a builder

None == -1
Latest == -2
Earliest == -3   \* stands for every tag that is not the default one
Equality == 0    \* ConsensusStrategy::default()

ASSUME RequestsAssumption ==
  /\ Number \subseteq Nat /\ MaxRange \subseteq Nat /\ DefaultRange \in Nat
  /\ Opaque \subseteq Nat /\ Cycles \subseteq Nat
  /\ Consensus \subseteq Nat
  /\ Estimate \subseteq Nat /\ MaxPayload \in Nat
  /\ NoProviders \subseteq Sources \X Consensus

(* Clients and requests are told apart, and what the endpoints expect by     *)
(* themselves is a size they allow.                                          *)
ASSUME OwnersAssumption ==
  /\ Client \cap Request = {} /\ "builder" \notin Client \cup Request
ASSUME PayloadAssumption == 26624 <= MaxPayload
ASSUME EndpointAssumption ==
  Endpoint \subseteq {"eth_call", "eth_feeHistory", "eth_getBlockByNumber",
                     "eth_getLogs", "eth_getTransactionCount",
                     "eth_getTransactionReceipt", "eth_sendRawTransaction"}

-----------------------------------------------------------------------------
(***************************************************************************)
(* Endpoints and their parameters.                                         *)
(***************************************************************************)
BlockTag == Number \cup {Latest, Earliest}

(* The parameters of each endpoint: those it needs, and those that may be    *)
(* left out.  Each has a setter or is reached through modify_params.         *)
Takes(required, optional) ==
  [fields |-> required \cup optional, optional |-> optional]
Call == Takes({"transaction"}, {"block"})
FeeHistory == Takes({"blockCount", "newestBlock"}, {"rewardPercentiles"})
GetBlockByNumber == Takes({"block"}, {})
GetLogs == Takes({"addresses"}, {"topics", "fromBlock", "toBlock"})
GetTransactionCount == Takes({"address", "block"}, {})
GetTransactionReceipt == Takes({"hash"}, {})
SendRawTransaction == Takes({"transaction"}, {})

EvmRpcEndpoint ==
  [eth_call |-> Call,
   eth_feeHistory |-> FeeHistory,
   eth_getBlockByNumber |-> GetBlockByNumber,
   eth_getLogs |-> GetLogs,
   eth_getTransactionCount |-> GetTransactionCount,
   eth_getTransactionReceipt |-> GetTransactionReceipt,
   eth_sendRawTransaction |-> SendRawTransaction]
Fields(e) == EvmRpcEndpoint[e].fields
Optional(e) == EvmRpcEndpoint[e].optional

IsBlock(f) == f \in {"block", "newestBlock", "fromBlock", "toBlock"}
ValueOf(e, f) == (IF IsBlock(f) THEN BlockTag ELSE Opaque)
                   \cup (IF f \in Optional(e) THEN {None} ELSE {})
Params ==
  [e \in Endpoint |-> {p \in [Fields(e) -> BlockTag \cup Opaque \cup {None}] :
                        \A f \in Fields(e) : p[f] \in ValueOf(e, f)}]

(* What a client method makes of the values it is called with: FeeHistory-  *)
(* Args from (count, newest), GetLogsArgs from addresses, CallArgs from a   *)
(* transaction leave every optional parameter out.                          *)
InitialParams ==
  [e \in Endpoint |-> {p \in Params[e] : \A f \in Optional(e) : p[f] = None}]

(***************************************************************************)
(* Configurations.                                                         *)
(***************************************************************************)
RpcConfig == [estimate : Estimate \cup {None}, consensus : Consensus \cup {None}]
DefaultRpcConfig == [estimate |-> None, consensus |-> None]

GetLogsRpcConfig(c, range) ==
  [estimate |-> c.estimate, consensus |-> c.consensus, range |-> range]

(* From<RpcConfig> for the Config of an endpoint. *)
ConfigFrom(e, c) == IF e = "eth_getLogs" THEN GetLogsRpcConfig(c, None) ELSE c

(* From<GetLogsRpcConfig> for RpcConfig. *)
RpcConfigFrom(c) == [estimate |-> c.estimate, consensus |-> c.consensus]

UnwrapOr(v, default) == IF v = None THEN default ELSE v
UnwrapOrDefault(option) ==
  IF option = <<>> THEN DefaultRpcConfig ELSE option[1]

-----------------------------------------------------------------------------
VARIABLES
  builder,   \* the ClientBuilder: sources, config
  client,    \* of every client, <<>> or <<its ClientConfig>>
  request,   \* of every request builder, <<>> or <<its Request>>
  phase,     \* of every request: open, sent, served, replied, rejected
  answer,    \* what the canister made of the request, <<>> before
  asked,     \* by owner (builder, clients, requests): setting -> value
  calls      \* calls that configured a builder so far

vars == <<builder, client, request, phase, answer, asked, calls>>

Owner == {"builder"} \cup Client \cup Request

(* The settings of said, and those of before that it does not mention. *)
Setting(name, v) == [x \in {name} |-> v]
Over(said, before) ==
  [x \in DOMAIN said \cup DOMAIN before |->
     IF x \in DOMAIN said THEN said[x] ELSE before[x]]

Init ==
  /\ builder = [sources |-> "EthMainnet", config |-> <<>>]
  /\ client = [c \in Client |-> <<>>]
  /\ request = [r \in Request |-> <<>>]
  /\ phase = [r \in Request |-> "open"]
  /\ answer = [r \in Request |-> <<>>]
  /\ asked = [o \in Owner |-> <<>>]
  /\ calls = 0

(* The caller o says what the settings of said shall be. *)
Say(o, said) == /\ calls' = calls + 1
                /\ asked' = [asked EXCEPT ![o] = Over(said, @)]

-----------------------------------------------------------------------------
(***************************************************************************)
(* ClientBuilder.                                                          *)
(***************************************************************************)
WithRpcSources(b, s) == [b EXCEPT !.sources = s]

WithRpcConfig(b, c) == [b EXCEPT !.config = <<c>>]

(* Mutant of WithConsensusStrategy: forgets ..rpc_config.unwrap_or_default(). *)
WithConsensusOnly(b, s) ==
  [b EXCEPT !.config = <<[DefaultRpcConfig EXCEPT !.consensus = s]>>]

WithConsensusStrategy(b, s) ==
  [b EXCEPT !.config = <<[UnwrapOrDefault(b.config) EXCEPT !.consensus = s]>>]

WithResponseSizeEstimate(b, z) ==
  [b EXCEPT !.config = <<[UnwrapOrDefault(b.config) EXCEPT !.estimate = z]>>]

ConfigureBuilder ==
  /\ calls < MaxCalls
  /\ \/ \E s \in Sources : /\ builder' = WithRpcSources(builder, s)
                           /\ Say("builder", Setting("sources", s))
     \/ \E c \in RpcConfig : /\ builder' = WithRpcConfig(builder, c)
                             /\ Say("builder", c)
     \/ \E s \in Consensus : /\ builder' = WithConsensusStrategy(builder, s)
                             /\ Say("builder", Setting("consensus", s))
     \/ \E z \in Estimate : /\ builder' = WithResponseSizeEstimate(builder, z)
                            /\ Say("builder", Setting("estimate", z))
  /\ UNCHANGED <<client, request, phase, answer>>

(* builder.clone().build(): the builder can be changed and built again. *)
Build(c) ==
  /\ client[c] = <<>>
  /\ client' = [client EXCEPT ![c] = <<builder>>]
  /\ asked' = [asked EXCEPT ![c] = asked["builder"]]
  /\ UNCHANGED <<builder, request, phase, answer, calls>>

-----------------------------------------------------------------------------
(***************************************************************************)
(* RequestBuilder.                                                         *)
(***************************************************************************)

(* RequestBuilder::new. *)
New(c, e, p) ==
  [endpoint |-> e,
   sources |-> c.sources,
   config |-> IF c.config = <<>> THEN <<>> ELSE <<ConfigFrom(e, c.config[1])>>,
   params |-> p,
   cycles |-> 10]

(* call, fee_history, get_block_by_number, get_logs, get_transaction_count, *)
(* get_transaction_receipt and send_raw_transaction of EvmRpcClient.        *)
MakeRequest(c, r) ==
  /\ client[c] # <<>> /\ request[r] = <<>>
  /\ \E e \in Endpoint : \E p \in InitialParams[e] :
       /\ request' = [request EXCEPT ![r] = <<New(client[c][1], e, p)>>]
       /\ asked' = [asked EXCEPT ![r] = Over(p, asked[c])]
  /\ UNCHANGED <<builder, client, phase, answer, calls>>

CloneRequest(q, r) ==
  /\ request[q] # <<>> /\ phase[q] = "open" /\ request[r] = <<>>
  /\ request' = [request EXCEPT ![r] = request[q]]
  /\ asked' = [asked EXCEPT ![r] = asked[q]]
  /\ UNCHANGED <<builder, client, phase, answer, calls>>

(* Mutant of WithMaxBlockRange: only changes a configuration there is. *)
WithRangeIfConfigured(q, m) ==
  IF q.config = <<>> THEN q ELSE [q EXCEPT !.config[1].range = m]

(* rpc_config_mut().get_or_insert_default(), then the field. *)
WithMaxBlockRange(q, m) ==
  LET config == IF q.config = <<>> THEN ConfigFrom("eth_getLogs", DefaultRpcConfig)
                                   ELSE q.config[1]
  IN  [q EXCEPT !.config = <<[config EXCEPT !.range = m]>>]

(* The setters of a request.  A parameter is changed by its own setter, by  *)
(* modify_params, or with all others by with_params; with_rpc_config takes  *)
(* the endpoint's configuration or an RpcConfig converted to it.            *)
ConfigureRequest(r) ==
  /\ calls < MaxCalls /\ request[r] # <<>> /\ phase[r] = "open"
  /\ LET q == request[r][1]
         e == q.endpoint
         Becomes(next, said) == /\ request' = [request EXCEPT ![r] = <<next>>]
                                /\ Say(r, said)
     IN  \/ \E n \in Cycles : Becomes([q EXCEPT !.cycles = n], Setting("cycles", n))
         \/ \E p \in Params[e] : Becomes([q EXCEPT !.params = p], p)
         \/ \E f \in Fields(e) : \E v \in ValueOf(e, f) :
              Becomes([q EXCEPT !.params[f] = v], Setting(f, v))
         \/ \E c \in RpcConfig :
              LET config == ConfigFrom(e, c)
              IN  Becomes([q EXCEPT !.config = <<config>>], config)
         \/ /\ e = "eth_getLogs"
            /\ \E c \in RpcConfig, m \in MaxRange :
                 LET config == GetLogsRpcConfig(c, m)
                 IN  Becomes([q EXCEPT !.config = <<config>>], config)
         \/ /\ e = "eth_getLogs"
            /\ \E m \in MaxRange :
                 Becomes(WithMaxBlockRange(q, m), Setting("range", m))
  /\ UNCHANGED <<builder, client, phase, answer>>

(* send and try_send consume the builder. *)
Send(r) ==
  /\ request[r] # <<>> /\ phase[r] = "open"
  /\ phase' = [phase EXCEPT ![r] = "sent"]
  /\ UNCHANGED <<builder, client, request, answer, asked, calls>>

-----------------------------------------------------------------------------
(***************************************************************************)
(* The endpoints of the canister.                                          *)
(***************************************************************************)

(* into_block_spec, and the BlockSpec::default of what was left out. *)
IntoBlockSpec(v) == UnwrapOr(v, Latest)

(* The parameters as they are sent to the providers: into_get_logs_param,   *)
(* into_eth_call_params, into_fee_history_params and their like.  No topics *)
(* and no percentiles are empty lists.                                      *)
IntoParams(p) ==
  [f \in DOMAIN p |-> IF IsBlock(f) THEN IntoBlockSpec(p[f]) ELSE UnwrapOr(p[f], 0)]

(* The size of response expected when the caller gives none. *)
HeaderSizeLimit == 2048
ExpectedSize(e, sources) ==
  HeaderSizeLimit + CASE e = "eth_getLogs" -> 1024
                      [] e = "eth_getBlockByNumber" /\ sources = "EthSepolia" -> 12288
                      [] e = "eth_getBlockByNumber" /\ sources # "EthSepolia" -> 24576
                      [] e = "eth_getTransactionReceipt" -> 700
                      [] e = "eth_feeHistory" -> 512
                      [] e = "eth_sendRawTransaction" -> 256
                      [] e = "eth_getTransactionCount" -> 50
                      [] e = "eth_call" -> 256

MaxBlockRangeOrDefault(config) == UnwrapOr(config.range, DefaultRange)

BlockCount(from, to) == IF to > from THEN to - from ELSE from - to

TooManyBlocks(p, max) ==
  /\ p.fromBlock \in Number /\ p.toBlock \in Number
  /\ BlockCount(p.fromBlock, p.toBlock) > max

(* EthRpcClient::new: the strategy the providers are chosen for. *)
Strategy(config) == UnwrapOr(config.consensus, Equality)

(* The assertions of ResponseSizeEstimate::new. *)
SizeAllowed(z) == z > 0 /\ z <= MaxPayload

(* The endpoint: the providers are chosen, then the range of eth_getLogs is *)
(* checked, then the size is asserted and the providers are called.         *)
Handle(q) ==
  LET logs == q.endpoint = "eth_getLogs"
      given == IF q.config # <<>> THEN q.config[1]
               ELSE ConfigFrom(q.endpoint, DefaultRpcConfig)
      config == IF logs THEN RpcConfigFrom(given) ELSE given
      strategy == Strategy(config)
      size == UnwrapOr(config.estimate, ExpectedSize(q.endpoint, q.sources))
      Answered(kind) == [kind |-> kind]
  IN  IF <<q.sources, strategy>> \in NoProviders THEN Answered("providers")
      ELSE IF logs /\ TooManyBlocks(q.params, MaxBlockRangeOrDefault(given))
           THEN Answered("range")
      ELSE IF ~SizeAllowed(size) THEN Answered("trap")
      ELSE [kind |-> "call", method |-> q.endpoint, sources |-> q.sources,
            strategy |-> strategy, size |-> size,
            params |-> IntoParams(q.params)]

(* The message arrives with its cycles and the endpoint runs. *)
Serve(r) ==
  /\ phase[r] = "sent"
  /\ phase' = [phase EXCEPT ![r] = "served"]
  /\ answer' = [answer EXCEPT ![r] = <<Handle(request[r][1])>>]
  /\ UNCHANGED <<builder, client, request, asked, calls>>

Reply(r) ==
  /\ phase[r] = "served" /\ answer[r][1].kind # "trap"
  /\ phase' = [phase EXCEPT ![r] = "replied"]
  /\ UNCHANGED <<builder, client, request, answer, asked, calls>>

(* The call is rejected: not delivered, or the endpoint trapped, then or    *)
(* later.  try_send returns the error, send panics with it.                 *)
Reject(r) ==
  /\ phase[r] \in {"sent", "served"}
  /\ phase' = [phase EXCEPT ![r] = "rejected"]
  /\ UNCHANGED <<builder, client, request, answer, asked, calls>>

Next ==
  \/ ConfigureBuilder
  \/ \E c \in Client : Build(c)
  \/ \E c \in Client, r \in Request : MakeRequest(c, r)
  \/ \E q, r \in Request : CloneRequest(q, r)
  \/ \E r \in Request : \/ ConfigureRequest(r) \/ Send(r)
                        \/ Serve(r) \/ Reply(r) \/ Reject(r)

Spec == Init /\ [][Next]_vars

-----------------------------------------------------------------------------
(***************************************************************************)
(* Properties.                                                             *)
(***************************************************************************)

(* What the caller of o last said about a setting, or None. *)
Asked(o, setting) ==
  IF setting \in DOMAIN asked[o] THEN asked[o][setting] ELSE None

(* Whatever the order of the calls on builders, clones of builders, clients *)
(* and requests, the call the canister makes to the providers carries the   *)
(* value last given for every setting, and the documented default for those *)
(* left out (Equality; latest; EthMainnet); the canister traps only over a  *)
(* response size the caller gave.  with_consensus_strategy,                 *)
(* with_response_size_estimate, with_rpc_config, RequestBuilder::new and    *)
(* the endpoints of main.rs.                                                *)
ForwardedAsAsked ==
  \A r \in Request : answer[r] # <<>> =>
    LET a == answer[r][1]
        estimate == Asked(r, "estimate")
        sources == IF "sources" \in DOMAIN asked[r] THEN asked[r].sources
                                                    ELSE "EthMainnet"
    IN  CASE a.kind = "call" ->
               /\ a.sources = sources
               /\ a.strategy = UnwrapOr(Asked(r, "consensus"), Equality)
               /\ estimate # None => a.size = estimate
               /\ \A f \in DOMAIN a.params :
                    IF Asked(r, f) # None THEN a.params[f] = asked[r][f]
                    ELSE IsBlock(f) => a.params[f] = Latest
          [] a.kind = "trap" -> estimate = 0 \/ estimate > MaxPayload
          [] OTHER -> TRUE

(* eth_getLogs is refused for its range exactly when both ends last given   *)
(* are numbers further apart, in either direction, than the range last      *)
(* given or 500 when none is; a range set on a request that has no          *)
(* configuration counts.                                                    *)
RangeEnforced ==
  \A r \in Request :
    (answer[r] # <<>> /\ request[r][1].endpoint = "eth_getLogs") =>
      LET from == Asked(r, "fromBlock")
          to == Asked(r, "toBlock")
          max == UnwrapOr(Asked(r, "range"), DefaultRange)
          far == /\ from >= 0 /\ to >= 0
                 /\ (from - to > max \/ to - from > max)
      IN  /\ answer[r][1].kind = "range" => far
          /\ answer[r][1].kind \in {"call", "trap"} => ~far
=============================================================================
