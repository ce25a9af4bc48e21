----------------------------- MODULE Providers -----------------------------
(***************************************************************************)
(* The table of providers, how a service named by a caller is resolved to  *)
(* a request (URL, Authorization header), and where API keys and metric    *)
(* labels go when keys change and URLs are overridden between and during   *)
(* calls.  The table is the one of providers.rs, entry by entry.           *)
(***************************************************************************)
EXTENDS Integers, FiniteSets, SequencesExt

CONSTANTS
  Call,       \* calls, each made once
  CallArgs,   \* sets of services calls are made with
  Rotated,    \* ids of providers whose keys are changed
  KeyVersion, \* versions of the API key a provider is given
  Override    \* kinds of override_url set on upgrades, see Substitute

(***************************************************************************)
(* Services.  The URL of a custom service is the caller's; it may be no    *)
(* URL at all, or one without a host, and its headers may be no headers.   *)
(***************************************************************************)
Malformed == "malformed"
Hostless == "hostless"
BadHeader == -1

Named(network, service) == [network |-> network, service |-> service]
ById(id) == [network |-> "Provider", service |-> id]
Custom(host, header) ==
  [network |-> "Custom", service |-> host, header |-> header]

EthMainnetService == {"Alchemy", "Ankr", "BlockPi", "PublicNode",
                      "Cloudflare", "Llama"}
EthSepoliaService == {"Alchemy", "Ankr", "BlockPi", "PublicNode", "Sepolia"}
L2MainnetService == {"Alchemy", "Ankr", "BlockPi", "PublicNode", "Llama"}
L2Network == {"ArbitrumOne", "BaseMainnet", "OptimismMainnet"}

SupportedRpcService ==
  {Named("EthMainnet", s) : s \in EthMainnetService} \cup
  {Named("EthSepolia", s) : s \in EthSepoliaService} \cup
  {Named(n, s) : n \in L2Network, s \in L2MainnetService}

(* RpcService: what a caller may name. *)
IsRpcService(s) == CASE s.network = "Provider" -> s = ById(s.service)
                     [] s.network = "Custom" -> s = Custom(s.service, s.header)
                     [] OTHER -> s \in SupportedRpcService

(* The order in which default providers are taken. *)
EthMainnet == <<"BlockPi", "Ankr", "PublicNode", "Llama", "Alchemy", "Cloudflare">>
EthSepolia == <<"PublicNode", "Ankr", "BlockPi", "Alchemy", "Sepolia">>
L2Mainnet == <<"Llama", "BlockPi", "PublicNode", "Alchemy", "Ankr">>
DefaultOrder(network) == CASE network = "EthMainnet" -> EthMainnet
                           [] network = "EthSepolia" -> EthSepolia
                           [] network \in L2Network -> L2Mainnet

-----------------------------------------------------------------------------
(***************************************************************************)
(* The table.  A URL is its host and its path; {API_KEY} ends the path of  *)
(* the pattern of every UrlParameter entry, and is left out of it here.    *)
(***************************************************************************)
Url(host, path) == [host |-> host, path |-> path]
NoUrl == Url("none", "none")

Entry(id, network, service, auth, authUrl, publicUrl) ==
  [id |-> id, chain |-> network, alias |-> Named(network, service),
   auth |-> auth, authUrl |-> authUrl, publicUrl |-> publicUrl]
Bearer(id, network, service, authUrl, publicUrl) ==
  Entry(id, network, service, "BearerToken", authUrl, publicUrl)
Param(id, network, service, authUrl, publicUrl) ==
  Entry(id, network, service, "UrlParameter", authUrl, publicUrl)
Open(id, network, service, publicUrl) ==
  Entry(id, network, service, "Unauthenticated", NoUrl, publicUrl)

Ankr(path) == Url("rpc.ankr.com", path)

FirstProviders == <<
  Bearer(0, "EthMainnet", "Cloudflare", Url("cloudflare-eth.com", "v1/mainnet"),
         Url("cloudflare-eth.com", "v1/mainnet")),
  Param(1, "EthMainnet", "Ankr", Ankr("eth"), Ankr("eth")),
  Open(2, "EthMainnet", "PublicNode", Url("ethereum-rpc.publicnode.com", "/")),
  Param(3, "EthMainnet", "BlockPi", Url("ethereum.blockpi.network", "v1/rpc"),
        Url("ethereum.public.blockpi.network", "v1/rpc/public")),
  Open(4, "EthSepolia", "Sepolia", Url("rpc.sepolia.org", "/")),
  Param(5, "EthSepolia", "Ankr", Ankr("eth_sepolia"), Ankr("eth_sepolia")),
  Param(6, "EthSepolia", "BlockPi",
        Url("ethereum-sepolia.blockpi.network", "v1/rpc"), NoUrl),
  Open(7, "EthSepolia", "PublicNode",
       Url("ethereum-sepolia-rpc.publicnode.com", "/")),
  Bearer(8, "EthMainnet", "Alchemy", Url("eth-mainnet.g.alchemy.com", "v2"),
         Url("eth-mainnet.g.alchemy.com", "v2/demo")),
  Bearer(9, "EthSepolia", "Alchemy", Url("eth-sepolia.g.alchemy.com", "v2"),
         Url("eth-sepolia.g.alchemy.com", "v2/demo")),
  Param(10, "ArbitrumOne", "Ankr", Ankr("arbitrum"), Ankr("arbitrum")),
  Bearer(11, "ArbitrumOne", "Alchemy", Url("arb-mainnet.g.alchemy.com", "v2"),
         Url("arb-mainnet.g.alchemy.com", "v2/demo"))>>

LastProviders == <<
  Param(12, "ArbitrumOne", "BlockPi", Url("arbitrum.blockpi.network", "v1/rpc"),
        Url("arbitrum.public.blockpi.network", "v1/rpc/public")),
  Open(13, "ArbitrumOne", "PublicNode", Url("arbitrum-one-rpc.publicnode.com", "/")),
  Param(14, "BaseMainnet", "Ankr", Ankr("base"), Ankr("base")),
  Bearer(15, "BaseMainnet", "Alchemy", Url("base-mainnet.g.alchemy.com", "v2"),
         Url("base-mainnet.g.alchemy.com", "v2/demo")),
  Param(16, "BaseMainnet", "BlockPi", Url("base.blockpi.network", "v1/rpc"),
        Url("base.public.blockpi.network", "v1/rpc/public")),
  Open(17, "BaseMainnet", "PublicNode", Url("base-rpc.publicnode.com", "/")),
  Param(18, "OptimismMainnet", "Ankr", Ankr("optimism"), Ankr("optimism")),
  Bearer(19, "OptimismMainnet", "Alchemy", Url("opt-mainnet.g.alchemy.com", "v2"),
         Url("opt-mainnet.g.alchemy.com", "v2/demo")),
  Param(20, "OptimismMainnet", "BlockPi", Url("optimism.blockpi.network", "v1/rpc"),
        Url("optimism.public.blockpi.network", "v1/rpc/public")),
  Open(21, "OptimismMainnet", "PublicNode", Url("optimism-rpc.publicnode.com", "/")),
  Open(22, "EthMainnet", "Llama", Url("eth.llamarpc.com", "/")),
  Open(23, "ArbitrumOne", "Llama", Url("arbitrum.llamarpc.com", "/")),
  Open(24, "BaseMainnet", "Llama", Url("base.llamarpc.com", "/")),
  Open(25, "OptimismMainnet", "Llama", Url("optimism.llamarpc.com", "/"))>>

PROVIDERS == FirstProviders \o LastProviders
ProviderId == {PROVIDERS[i].id : i \in DOMAIN PROVIDERS}

(* The maps are collected from the table, so a later entry with the same id
   or alias would replace an earlier one; find_provider takes the first. *)
LastWith(Test(_)) == PROVIDERS[SelectLastInSeq(PROVIDERS, Test)]
PROVIDER_MAP == [id \in ProviderId |-> LastWith(LAMBDA p : p.id = id)]
SERVICE_PROVIDER_MAP ==
  [s \in {PROVIDERS[i].alias : i \in DOMAIN PROVIDERS} |->
     LastWith(LAMBDA p : p.alias = s).id]
FindProvider(id) == PROVIDERS[SelectInSeq(PROVIDERS, LAMBDA p : p.id = id)]

-----------------------------------------------------------------------------
ASSUME RotatedAssumption ==
  Rotated \subseteq {id \in ProviderId : FindProvider(id).auth # "Unauthenticated"}
ASSUME OverrideAssumption ==
  Override \subseteq {"none", "noMatch", "host", "all", "stripsHost", "garbles"}
ASSUME ArgsAssumption == \A services \in CallArgs : \A s \in services : IsRpcService(s)
ASSUME VersionAssumption == KeyVersion \subseteq Nat \ {0}

VARIABLES
  keys,       \* API_KEY_MAP: the version of each provider's key, 0 for none
  override,   \* OVERRIDE_PROVIDER
  call,       \* state of each call, the requests it made, and (history) the
              \* override and the missing keys it found
  requestsAt, \* hosts the metric requests counts
  differAt,   \* hosts the metric inconsistent_responses counts
  lapses      \* history: providers called without their key

vars == <<keys, override, call, requestsAt, differAt, lapses>>

Keyed == {id \in ProviderId : PROVIDER_MAP[id].auth # "Unauthenticated"}

(* A request: where it goes, the key in its header and the key in its URL
   (0 for none) and whose key that is. *)
Api(url, header, secret, id) ==
  [url |-> url, header |-> header, secret |-> secret, owner |-> id]
Panics == Api(NoUrl, 0, 0, -1)
NotFound == Api(NoUrl, 0, 0, -2)

(* Provider::api *)
ProviderApi(p) ==
  IF p.auth # "Unauthenticated" /\ keys[p.id] # 0
  THEN IF p.auth = "BearerToken" THEN Api(p.authUrl, keys[p.id], 0, p.id)
       ELSE Api(p.authUrl, 0, keys[p.id], p.id)
  ELSE IF p.publicUrl # NoUrl THEN Api(p.publicUrl, 0, 0, p.id)
  ELSE Panics

(* Mutant of Hostname: the public URL is preferred. *)
PublicHostname(p) ==
  IF p.publicUrl # NoUrl THEN p.publicUrl.host ELSE p.authUrl.host

(* Provider::hostname, the label of process_result. *)
Hostname(p) ==
  IF p.auth = "Unauthenticated" THEN p.publicUrl.host ELSE p.authUrl.host

HasHost(url) == url.host \notin {Malformed, Hostless}

(* What the regular expression of the override matches, and what becomes of
   it: nothing; the host, which is replaced; all of the URL, with the key in
   it; the scheme and the host, which are removed; or something without which
   it is no URL.  Nobody looks at the result. *)
Substitute(kind, api) ==
  CASE kind = "host" /\ HasHost(api.url) -> [api EXCEPT !.url.host = "localhost"]
    [] kind = "all" -> [api EXCEPT !.url = Url("localhost", "/"), !.secret = 0]
    [] kind = "stripsHost" /\ HasHost(api.url) -> [api EXCEPT !.url.host = Hostless]
    [] kind = "garbles" -> [api EXCEPT !.url = Url(Malformed, "/"), !.secret = 0]
    [] OTHER -> api

(* Mutant of ApplyOverride: the headers are kept. *)
OverrideUrlOnly(api) ==
  IF override = "none" \/ api \in {Panics, NotFound} THEN api
  ELSE Substitute(override, api)

(* OverrideProvider::apply *)
ApplyOverride(api) ==
  IF override = "none" \/ api \in {Panics, NotFound} THEN api
  ELSE [Substitute(override, api) EXCEPT !.header = 0]

(* Mutant of Resolve: names are looked up by chain. *)
ResolveByChain(s) ==
  CASE s.network = "Custom" -> Api(Url(s.service, "custom"), s.header, 0, -3)
    [] s.network = "Provider" -> ProviderApi(PROVIDER_MAP[s.service])
    [] OTHER -> ProviderApi(LastWith(LAMBDA p : p.chain = s.network))

(* resolve_rpc_service and lookup_provider_for_service; the Authorization
   header of a custom service is the caller's own. *)
Resolve(s) ==
  CASE s.network = "Custom" -> Api(Url(s.service, "custom"), s.header, 0, -3)
    [] s.network = "Provider" ->
         IF s.service \in ProviderId THEN ProviderApi(PROVIDER_MAP[s.service])
         ELSE NotFound
    [] OTHER -> IF s \in DOMAIN SERVICE_PROVIDER_MAP
                THEN ProviderApi(PROVIDER_MAP[SERVICE_PROVIDER_MAP[s]])
                ELSE NotFound

(* ResolvedRpcService::api *)
RequestTo(s) == ApplyOverride(Resolve(s))

(* http::request::Builder builds a request of it. *)
Builds(api) == api.url.host # Malformed /\ api.header # BadHeader

(* Mutant of Outcome: request, too, expects its request to be built. *)
OutcomeExpected(endpoint, api) ==
  IF api = Panics THEN "panic"
  ELSE IF api = NotFound THEN "error"
  ELSE IF ~Builds(api) THEN "panic"
  ELSE IF HasHost(api.url) THEN "sent" ELSE "panic"

(* What comes of the request to one service, up to the outcall.  An eth_* call
   expects the request to be built, request returns an error if it is not, and
   on_request unwraps the host in either case. *)
Outcome(endpoint, api) ==
  IF api = Panics THEN "panic"
  ELSE IF api = NotFound THEN "error"
  ELSE IF ~Builds(api) THEN (IF endpoint = "eth" THEN "panic" ELSE "error")
  ELSE IF HasHost(api.url) THEN "sent" ELSE "panic"

(* SupportedRpcService::new: what usage and process_result know of it. *)
Supported(s) ==
  CASE s.network = "Custom" -> {}
    [] s.network = "Provider" ->
         IF s.service \in ProviderId THEN {FindProvider(s.service).alias} ELSE {}
    [] OTHER -> {s}

-----------------------------------------------------------------------------
NotMade == [st |-> "new"]

Init ==
  /\ keys = [id \in Keyed |-> 0]
  /\ override = "none"
  /\ call = [c \in Call |-> NotMade]
  /\ requestsAt = {}
  /\ differAt = {}
  /\ lapses = {}

(* updateApiKeys, one entry of its list. *)
UpdateKey(id, version) ==
  /\ keys' = [keys EXCEPT ![id] = version]
  /\ UNCHANGED <<override, call, requestsAt, differAt, lapses>>

(* post_upgrade with an override; a canister is stopped for an upgrade, so
   no call is open, and the metrics start afresh. *)
SetOverride(kind) ==
  /\ \A c \in Call : call[c].st # "open"
  /\ override' = kind
  /\ requestsAt' = {}
  /\ differAt' = {}
  /\ lapses' = {}
  /\ UNCHANGED <<keys, call>>

(* RpcServices has no ids, and request takes one service. *)
Takes(endpoint, services) ==
  IF endpoint = "eth" THEN \A s \in services : s.network # "Provider"
  ELSE Cardinality(services) = 1

(* A call builds its requests and passes them to the client in one message:
   one service that makes it panic undoes the whole call, without a trace. *)
Start(c, endpoint, services) ==
  LET api == [s \in services |-> RequestTo(s)]
      panics == \E s \in services : Outcome(endpoint, api[s]) = "panic"
      sent == {s \in services : ~panics /\ Outcome(endpoint, api[s]) = "sent"}
      known == UNION {Supported(s) : s \in services}
      lacking == {id \in Keyed \cap {SERVICE_PROVIDER_MAP[s] : s \in known} :
                    keys[id] = 0}
  IN  /\ call[c] = NotMade
      /\ Takes(endpoint, services)
      /\ call' = [call EXCEPT ![c] =
           [st |-> IF panics THEN "trapped" ELSE "open", endpoint |-> endpoint,
            args |-> services, api |-> [s \in sent |-> api[s]],
            override |-> override, lacking |-> lacking]]
      /\ requestsAt' = requestsAt \cup {api[s].url.host : s \in sent}
      /\ lapses' = IF panics THEN lapses ELSE lapses \cup lacking
      /\ UNCHANGED <<keys, override, differAt>>

(* The results are in; process_result labels an inconsistency with the host
   name of each supported service.  It takes two results to be inconsistent. *)
Finish(c, inconsistent) ==
  /\ call[c].st = "open"
  /\ inconsistent => Cardinality(call[c].args) > 1
  /\ call' = [call EXCEPT ![c].st = "replied"]
  /\ differAt' = differAt \cup
       IF ~inconsistent THEN {}
       ELSE {Hostname(PROVIDER_MAP[SERVICE_PROVIDER_MAP[s]]) :
               s \in UNION {Supported(s) : s \in call[c].args}}
  /\ UNCHANGED <<keys, override, requestsAt, lapses>>

Next ==
  \/ \E id \in Rotated, version \in KeyVersion \cup {0} : UpdateKey(id, version)
  \/ \E kind \in Override : SetOverride(kind)
  \/ \E c \in Call, endpoint \in {"eth", "request"}, services \in CallArgs :
       Start(c, endpoint, services)
  \/ \E c \in Call, inconsistent \in BOOLEAN : Finish(c, inconsistent)

Spec == Init /\ [][Next]_vars

-----------------------------------------------------------------------------
(***************************************************************************)
(* Every service of the enums has an entry, of its own network, and the    *)
(* default orders name each service once.  A provider called by name and   *)
(* by the id getServiceProviderMap gives for it is sent the same request   *)
(* and recorded as the same service, whatever keys and override are set.   *)
(***************************************************************************)
ServicesResolve ==
  \A s \in SupportedRpcService :
    /\ s \in DOMAIN SERVICE_PROVIDER_MAP
    /\ LET id == SERVICE_PROVIDER_MAP[s]
       IN  /\ PROVIDER_MAP[id].alias = s
           /\ PROVIDER_MAP[id].chain = s.network
           /\ Supported(ById(id)) = {s}
           /\ RequestTo(s) = RequestTo(ById(id))
           /\ RequestTo(s).owner \in {id, Panics.owner}
    /\ Cardinality({i \in DOMAIN DefaultOrder(s.network) :
                      DefaultOrder(s.network)[i] = s.service}) = 1

(***************************************************************************)
(* A key is sent to the URL its own provider takes it at, in the way that  *)
(* provider takes it, and nowhere else: not to the public URL, not to      *)
(* another provider, and with an override only inside a URL whose host the *)
(* controller replaced (OverrideProvider::apply resets the headers, those  *)
(* of custom services too).                                                *)
(***************************************************************************)
KeyConfined ==
  \A c \in Call : call[c].st \in {"open", "replied"} =>
    \A s \in DOMAIN call[c].api :
      LET a == call[c].api[s]
          p == PROVIDER_MAP[a.owner]
      IN  /\ a.header # 0 => call[c].override = "none"
          /\ a.header # 0 /\ a.owner \in ProviderId =>
               p.auth = "BearerToken" /\ a.url = p.authUrl
          /\ a.secret # 0 =>
               /\ p.auth = "UrlParameter"
               /\ a.url.path = p.authUrl.path
               /\ a.url.host = p.authUrl.host \/ call[c].override = "host"

(* The reasons for a call k to panic. *)
Explained(k) ==
  LET eth == k.endpoint = "eth"
  IN  \/ k.override = "stripsHost"
      \/ k.override = "garbles" /\ eth
      \/ /\ \E s \in k.args : s \in {Named("EthSepolia", "BlockPi"), ById(6)}
         /\ 6 \in k.lacking
      \/ \E s \in k.args :
           /\ s.network = "Custom"
           /\ \/ s.service = Hostless /\ k.override # "all"
              \/ s.service = Malformed /\ k.override # "all" /\ eth
              \/ s.header = BadHeader /\ k.override = "none" /\ eth

(***************************************************************************)
(* Who can make a call panic while its requests are built, which the       *)
(* caller sees as a reject instead of an error ("BUG: invalid request"):   *)
(*   - the managers of keys, by leaving BlockPi on Sepolia, the entry      *)
(*     without a public URL, without its key, whatever the override;       *)
(*   - the caller of an eth_* endpoint, with a custom URL or header that   *)
(*     builds no request, and of any endpoint, with a URL without a host,  *)
(*     unless an override replaces all of the URL, or resets the headers;  *)
(*   - the controller, with an override that leaves no URL or no host.     *)
(* Otherwise no call panics: not for any provider of the table, with or    *)
(* without its key, under any other override.                              *)
(***************************************************************************)
PanicsExplained == \A c \in Call : call[c].st = "trapped" => Explained(call[c])

(***************************************************************************)
(* inconsistent_responses is labelled with hosts that requests has counted *)
(* too, so that the two metrics can be compared, unless URLs are replaced  *)
(* or a provider was called without its key whose public URL is on another *)
(* host than the one that takes the key.                                   *)
(***************************************************************************)
LabelsComparable ==
  override \in {"none", "noMatch"} =>
    \A h \in differAt \ requestsAt :
      \E id \in lapses : /\ PROVIDER_MAP[id].authUrl.host = h
                         /\ PROVIDER_MAP[id].publicUrl.host # h
=============================================================================
