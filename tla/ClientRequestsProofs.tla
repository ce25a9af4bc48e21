------------------------ MODULE ClientRequestsProofs ------------------------
(***************************************************************************)
(* Proofs that a call made through the Rust client reaches the providers   *)
(* as the caller last asked for it, and that the block range of            *)
(* eth_getLogs is checked against what the caller last gave, for any       *)
(* number of clients and requests and any order of the calls on them.      *)
(***************************************************************************)
EXTENDS ClientRequests, TLAPS

-----------------------------------------------------------------------------
(* Settings. *)

(* What A says of a setting, or None. *)
Said(A, x) == IF x \in DOMAIN A THEN A[x] ELSE None

SourcesOf(A) == IF "sources" \in DOMAIN A THEN A["sources"] ELSE "EthMainnet"

ClientSettings == {"sources", "estimate", "consensus"}

(* The names of the parameters are not those of other settings. *)
LEMMA FieldNames ==
  ASSUME NEW e \in Endpoint
  PROVE  /\ Fields(e) \cap (ClientSettings \cup {"range", "cycles"}) = {}
         /\ Optional(e) \subseteq Fields(e)
         /\ e = "eth_getLogs" => /\ "fromBlock" \in Fields(e)
                                 /\ "toBlock" \in Fields(e)
  BY EndpointAssumption
  DEF Fields, Optional, EvmRpcEndpoint, ClientSettings, Takes, Call, FeeHistory,
      GetBlockByNumber, GetLogs, GetTransactionCount, GetTransactionReceipt,
      SendRawTransaction

(* What is said last counts. *)
LEMMA SaidNow ==
  ASSUME NEW S, NEW A, NEW x, x \in DOMAIN S
  PROVE  Said(Over(S, A), x) = S[x] /\ Over(S, A)[x] = S[x]
  BY DEF Said, Over

(* What was said before stays, unless it is said again. *)
LEMMA SaidBefore ==
  ASSUME NEW S, NEW A, NEW x, x \notin DOMAIN S
  PROVE  /\ Said(Over(S, A), x) = Said(A, x)
         /\ x \in DOMAIN A => Over(S, A)[x] = A[x]
  BY DEF Said, Over

(* Which settings were mentioned. *)
LEMMA SaidDomain ==
  ASSUME NEW S, NEW A
  PROVE  DOMAIN Over(S, A) = DOMAIN S \cup DOMAIN A
  BY DEF Over

(* The services asked for last count. *)
LEMMA SourcesOver ==
  ASSUME NEW S, NEW A
  PROVE  SourcesOf(Over(S, A)) =
           IF "sources" \in DOMAIN S THEN S["sources"] ELSE SourcesOf(A)
  BY DEF SourcesOf, Over

(* One setting. *)
LEMMA SettingOf ==
  ASSUME NEW x, NEW v
  PROVE  DOMAIN Setting(x, v) = {x} /\ Setting(x, v)[x] = v
  BY DEF Setting

-----------------------------------------------------------------------------
(* Configurations. *)

(* What the settings A amount to as a configuration. *)
Rpc(A) == [estimate |-> Said(A, "estimate"), consensus |-> Said(A, "consensus")]

(* The configuration in option is the one A asks for. *)
ClientConfigured(option, A) ==
  /\ Said(A, "estimate") \in Estimate \cup {None}
  /\ Said(A, "consensus") \in Consensus \cup {None}
  /\ \/ option = <<Rpc(A)>>
     \/ /\ option = <<>>
        /\ Said(A, "estimate") = None /\ Said(A, "consensus") = None

(* A builder or a client holds what was asked of it. *)
ClientFits(b, A) ==
  /\ b = [sources |-> b.sources, config |-> b.config]
  /\ DOMAIN A \subseteq ClientSettings
  /\ b.sources = SourcesOf(A)
  /\ ClientConfigured(b.config, A)

(* The configuration the next setter starts from. *)
LEMMA StartsFromAsked ==
  ASSUME NEW option, NEW A, ClientConfigured(option, A)
  PROVE  UnwrapOrDefault(option) = Rpc(A)
  <1>1. CASE option = <<Rpc(A)>>
    <2>1. option # <<>> /\ option[1] = Rpc(A)
      BY <1>1
    <2> QED
      BY <2>1 DEF UnwrapOrDefault
  <1>2. CASE /\ option = <<>>
             /\ Said(A, "estimate") = None /\ Said(A, "consensus") = None
    BY <1>2 DEF UnwrapOrDefault, DefaultRpcConfig, Rpc
  <1> QED
    BY <1>1, <1>2 DEF ClientConfigured

(* The setters of the builder keep it as asked. *)
LEMMA BuilderSetters ==
  ASSUME NEW b, NEW A, ClientFits(b, A)
  PROVE  /\ \A s \in Sources :
              ClientFits(WithRpcSources(b, s), Over(Setting("sources", s), A))
         /\ \A c \in RpcConfig : ClientFits(WithRpcConfig(b, c), Over(c, A))
         /\ \A s \in Consensus :
              ClientFits(WithConsensusStrategy(b, s),
                         Over(Setting("consensus", s), A))
         /\ \A z \in Estimate :
              ClientFits(WithResponseSizeEstimate(b, z),
                         Over(Setting("estimate", z), A))
  <1>1. PICK src, option : /\ b = [sources |-> src, config |-> option]
                           /\ b.sources = src /\ b.config = option
    BY DEF ClientFits
  <1>2. /\ DOMAIN A \subseteq ClientSettings /\ src = SourcesOf(A)
        /\ ClientConfigured(option, A)
    BY <1>1 DEF ClientFits
  <1>3. ASSUME NEW s2, NEW option2, NEW S, DOMAIN S \subseteq ClientSettings,
               s2 = SourcesOf(Over(S, A)), ClientConfigured(option2, Over(S, A))
        PROVE  ClientFits([sources |-> s2, config |-> option2], Over(S, A))
    BY <1>2, <1>3, SaidDomain DEF ClientFits
  <1>4. ASSUME NEW s \in Sources
        PROVE  ClientFits(WithRpcSources(b, s), Over(Setting("sources", s), A))
    <2> DEFINE S == Setting("sources", s)
    <2>1. WithRpcSources(b, s) = [sources |-> s, config |-> option]
      BY <1>1 DEF WithRpcSources
    <2>2. DOMAIN S = {"sources"} /\ S["sources"] = s
      BY SettingOf
    <2> HIDE DEF S
    <2>3. s = SourcesOf(Over(S, A))
      BY <2>2, SourcesOver
    <2>4. /\ Said(Over(S, A), "estimate") = Said(A, "estimate")
          /\ Said(Over(S, A), "consensus") = Said(A, "consensus")
      <3>1. "estimate" \notin DOMAIN S /\ "consensus" \notin DOMAIN S
        BY <2>2
      <3> QED
        BY <3>1, SaidBefore
    <2>5. ClientConfigured(option, Over(S, A))
      BY <1>2, <2>4 DEF ClientConfigured, Rpc
    <2>6. DOMAIN S \subseteq ClientSettings
      BY <2>2 DEF ClientSettings
    <2> QED
      BY <1>3, <2>1, <2>3, <2>5, <2>6 DEF S
  <1>5. ASSUME NEW c, c = [estimate |-> c.estimate, consensus |-> c.consensus],
               c.estimate \in Estimate \cup {None},
               c.consensus \in Consensus \cup {None},
               NEW S, DOMAIN S \subseteq {"estimate", "consensus"},
               Said(Over(S, A), "estimate") = c.estimate,
               Said(Over(S, A), "consensus") = c.consensus
        PROVE  ClientFits([b EXCEPT !.config = <<c>>], Over(S, A))
    <2>1. [b EXCEPT !.config = <<c>>] = [sources |-> src, config |-> <<c>>]
      BY <1>1
    <2>2. SourcesOf(Over(S, A)) = src
      BY <1>2, <1>5, SourcesOver
    <2>3. Rpc(Over(S, A)) = c
      BY <1>5 DEF Rpc
    <2>4. ClientConfigured(<<c>>, Over(S, A))
      BY <1>5, <2>3 DEF ClientConfigured
    <2>5. DOMAIN S \subseteq ClientSettings
      BY <1>5 DEF ClientSettings
    <2> QED
      BY <1>3, <2>1, <2>2, <2>4, <2>5
  <1>6. ASSUME NEW c \in RpcConfig
        PROVE  ClientFits(WithRpcConfig(b, c), Over(c, A))
    <2>1. /\ c = [estimate |-> c.estimate, consensus |-> c.consensus]
          /\ c.estimate \in Estimate \cup {None}
          /\ c.consensus \in Consensus \cup {None}
          /\ DOMAIN c = {"estimate", "consensus"}
      BY DEF RpcConfig
    <2>2. /\ Said(Over(c, A), "estimate") = c.estimate
          /\ Said(Over(c, A), "consensus") = c.consensus
      BY <2>1, SaidNow
    <2> QED
      BY <1>5, <2>1, <2>2 DEF WithRpcConfig
  <1>7. ASSUME NEW s \in Consensus
        PROVE  ClientFits(WithConsensusStrategy(b, s),
                          Over(Setting("consensus", s), A))
    <2> DEFINE S == Setting("consensus", s)
               c == [estimate |-> Said(A, "estimate"), consensus |-> s]
    <2>1. DOMAIN S = {"consensus"} /\ S["consensus"] = s
      BY SettingOf
    <2> HIDE DEF S
    <2>2. /\ Said(Over(S, A), "estimate") = c.estimate
          /\ Said(Over(S, A), "consensus") = c.consensus
      <3>1. "estimate" \notin DOMAIN S /\ "consensus" \in DOMAIN S
        BY <2>1
      <3>2. Said(Over(S, A), "estimate") = Said(A, "estimate")
        BY <3>1, SaidBefore
      <3>3. Said(Over(S, A), "consensus") = s
        BY <2>1, <3>1, SaidNow
      <3> QED
        BY <3>2, <3>3
    <2>3. UnwrapOrDefault(option) = Rpc(A)
      BY <1>2, StartsFromAsked
    <2>4. WithConsensusStrategy(b, s) = [b EXCEPT !.config = <<c>>]
      BY <1>1, <2>3 DEF WithConsensusStrategy, Rpc
    <2>5. /\ c = [estimate |-> c.estimate, consensus |-> c.consensus]
          /\ c.estimate \in Estimate \cup {None}
          /\ c.consensus \in Consensus \cup {None}
      BY <1>2 DEF ClientConfigured
    <2> HIDE DEF c
    <2> QED
      BY <1>5, <2>1, <2>2, <2>4, <2>5 DEF S
  <1>8. ASSUME NEW z \in Estimate
        PROVE  ClientFits(WithResponseSizeEstimate(b, z),
                          Over(Setting("estimate", z), A))
    <2> DEFINE S == Setting("estimate", z)
               c == [estimate |-> z, consensus |-> Said(A, "consensus")]
    <2>1. DOMAIN S = {"estimate"} /\ S["estimate"] = z
      BY SettingOf
    <2> HIDE DEF S
    <2>2. /\ Said(Over(S, A), "estimate") = c.estimate
          /\ Said(Over(S, A), "consensus") = c.consensus
      <3>1. "consensus" \notin DOMAIN S /\ "estimate" \in DOMAIN S
        BY <2>1
      <3>2. Said(Over(S, A), "consensus") = Said(A, "consensus")
        BY <3>1, SaidBefore
      <3>3. Said(Over(S, A), "estimate") = z
        BY <2>1, <3>1, SaidNow
      <3> QED
        BY <3>2, <3>3
    <2>3. UnwrapOrDefault(option) = Rpc(A)
      BY <1>2, StartsFromAsked
    <2>4. WithResponseSizeEstimate(b, z) = [b EXCEPT !.config = <<c>>]
      BY <1>1, <2>3 DEF WithResponseSizeEstimate, Rpc
    <2>5. /\ c = [estimate |-> c.estimate, consensus |-> c.consensus]
          /\ c.estimate \in Estimate \cup {None}
          /\ c.consensus \in Consensus \cup {None}
      BY <1>2 DEF ClientConfigured
    <2> HIDE DEF c
    <2> QED
      BY <1>5, <2>1, <2>2, <2>4, <2>5 DEF S
  <1> QED
    BY <1>4, <1>6, <1>7, <1>8

-----------------------------------------------------------------------------
(* Requests. *)

ConfigSettings == {"estimate", "consensus", "range"}

(* What the settings A amount to as the configuration of endpoint e. *)
EndpointConfig(e, A) ==
  IF e = "eth_getLogs" THEN GetLogsRpcConfig(Rpc(A), Said(A, "range"))
  ELSE Rpc(A)

(* The configuration in option is the one A asks for. *)
RequestConfigured(e, option, A) ==
  /\ Said(A, "estimate") \in Estimate \cup {None}
  /\ Said(A, "consensus") \in Consensus \cup {None}
  /\ Said(A, "range") \in MaxRange \cup {None}
  /\ \/ option = <<EndpointConfig(e, A)>>
     \/ /\ option = <<>>
        /\ Said(A, "estimate") = None /\ Said(A, "consensus") = None
        /\ Said(A, "range") = None

(* The parameters p are those A asks for. *)
ParamsFit(e, p, A) ==
  /\ p \in Params[e]
  /\ \A f \in Fields(e) : f \in DOMAIN A /\ A[f] = p[f]

(* A request holds what was asked of it. *)
RequestFits(q, A) ==
  /\ q = [endpoint |-> q.endpoint, sources |-> q.sources, config |-> q.config,
          params |-> q.params, cycles |-> q.cycles]
  /\ q.endpoint \in Endpoint
  /\ q.sources = SourcesOf(A)
  /\ ParamsFit(q.endpoint, q.params, A)
  /\ RequestConfigured(q.endpoint, q.config, A)

(* Its parts make a request what it is. *)
LEMMA RequestMade ==
  ASSUME NEW e \in Endpoint, NEW src, NEW option, NEW p, NEW n, NEW A,
         src = SourcesOf(A), ParamsFit(e, p, A), RequestConfigured(e, option, A)
  PROVE  RequestFits([endpoint |-> e, sources |-> src, config |-> option,
                      params |-> p, cycles |-> n], A)
  BY DEF RequestFits

(* The parameters of an endpoint. *)
LEMMA ParamsOf ==
  ASSUME NEW e \in Endpoint, NEW p \in Params[e]
  PROVE  /\ DOMAIN p = Fields(e)
         /\ p \in [Fields(e) -> BlockTag \cup Opaque \cup {None}]
         /\ \A f \in Fields(e) : p[f] \in ValueOf(e, f)
  BY DEF Params

(* Settings about something else leave the parameters as asked. *)
LEMMA ParamsKept ==
  ASSUME NEW e, NEW p, NEW A, NEW S, ParamsFit(e, p, A),
         DOMAIN S \cap Fields(e) = {}
  PROVE  ParamsFit(e, p, Over(S, A))
  BY DEF ParamsFit, Over

(* New parameters are those asked for. *)
LEMMA ParamsGiven ==
  ASSUME NEW e \in Endpoint, NEW p \in Params[e], NEW A
  PROVE  ParamsFit(e, p, Over(p, A))
  BY ParamsOf, SaidNow, SaidDomain DEF ParamsFit

(* So is one new parameter. *)
LEMMA ParamGiven ==
  ASSUME NEW e \in Endpoint, NEW p, NEW A, ParamsFit(e, p, A),
         NEW f \in Fields(e), NEW v \in ValueOf(e, f)
  PROVE  ParamsFit(e, [p EXCEPT ![f] = v], Over(Setting(f, v), A))
  <1> DEFINE S == Setting(f, v)
             p2 == [p EXCEPT ![f] = v]
  <1>1. DOMAIN S = {f} /\ S[f] = v
    BY SettingOf
  <1> HIDE DEF S
  <1>2. p \in Params[e]
    BY DEF ParamsFit
  <1>3. /\ p \in [Fields(e) -> BlockTag \cup Opaque \cup {None}]
        /\ \A g \in Fields(e) : p[g] \in ValueOf(e, g)
    BY <1>2, ParamsOf
  <1>4. v \in BlockTag \cup Opaque \cup {None}
    BY DEF ValueOf
  <1>5. /\ p2 \in [Fields(e) -> BlockTag \cup Opaque \cup {None}]
        /\ \A g \in Fields(e) : p2[g] \in ValueOf(e, g)
    BY <1>3, <1>4
  <1>6. p2 \in Params[e]
    BY <1>5 DEF Params
  <1>7. ASSUME NEW g \in Fields(e)
        PROVE  g \in DOMAIN Over(S, A) /\ Over(S, A)[g] = p2[g]
    <2>1. g \in DOMAIN A /\ A[g] = p[g]
      BY DEF ParamsFit
    <2>2. CASE g = f
      BY <1>1, <1>3, <2>2 DEF Over
    <2>3. CASE g # f
      BY <1>1, <1>3, <2>1, <2>3 DEF Over
    <2> QED
      BY <2>2, <2>3
  <1> QED
    BY <1>6, <1>7 DEF ParamsFit, S

(* Settings about something else leave the configuration as asked. *)
LEMMA ConfigKept ==
  ASSUME NEW e, NEW option, NEW A, NEW S, RequestConfigured(e, option, A),
         DOMAIN S \cap ConfigSettings = {}
  PROVE  RequestConfigured(e, option, Over(S, A))
  <1>1. /\ "estimate" \notin DOMAIN S /\ "consensus" \notin DOMAIN S
        /\ "range" \notin DOMAIN S
    BY DEF ConfigSettings
  <1>2. /\ Said(Over(S, A), "estimate") = Said(A, "estimate")
        /\ Said(Over(S, A), "consensus") = Said(A, "consensus")
        /\ Said(Over(S, A), "range") = Said(A, "range")
    BY <1>1, SaidBefore
  <1> QED
    BY <1>2 DEF RequestConfigured, EndpointConfig, Rpc

(* A request made from a client asks for what the client was asked for. *)
LEMMA NewFits ==
  ASSUME NEW c, NEW A, ClientFits(c, A), NEW e \in Endpoint,
         NEW p \in InitialParams[e]
  PROVE  RequestFits(New(c, e, p), Over(p, A))
  <1>1. p \in Params[e]
    BY DEF InitialParams
  <1>2. DOMAIN p = Fields(e)
    BY <1>1, ParamsOf
  <1>3. /\ "sources" \notin DOMAIN p /\ "estimate" \notin DOMAIN p
        /\ "consensus" \notin DOMAIN p /\ "range" \notin DOMAIN p
        /\ "range" \notin DOMAIN A
    BY <1>2, FieldNames DEF ClientFits, ClientSettings
  <1>4. /\ Said(Over(p, A), "estimate") = Said(A, "estimate")
        /\ Said(Over(p, A), "consensus") = Said(A, "consensus")
        /\ Said(Over(p, A), "range") = Said(A, "range")
        /\ Said(A, "range") = None
    <2>1. Said(A, "range") = None
      BY <1>3 DEF Said
    <2> QED
      BY <1>3, <2>1, SaidBefore
  <1>5. c.sources = SourcesOf(Over(p, A))
    BY <1>3, SourcesOver DEF ClientFits
  <1> DEFINE option == IF c.config = <<>> THEN <<>>
                       ELSE <<ConfigFrom(e, c.config[1])>>
  <1>6. RequestConfigured(e, option, Over(p, A))
    <2>1. ClientConfigured(c.config, A)
      BY DEF ClientFits
    <2>2. CASE c.config = <<>> /\ Said(A, "estimate") = None
               /\ Said(A, "consensus") = None
      BY <1>4, <2>2 DEF RequestConfigured
    <2>3. CASE c.config = <<Rpc(A)>>
      <3>1. c.config # <<>> /\ c.config[1] = Rpc(A)
        BY <2>3
      <3>2. option = <<ConfigFrom(e, Rpc(A))>>
        BY <3>1
      <3>3. ConfigFrom(e, Rpc(A)) = EndpointConfig(e, Over(p, A))
        BY <1>4 DEF ConfigFrom, EndpointConfig, Rpc
      <3> HIDE DEF option
      <3> QED
        BY <1>4, <2>1, <3>2, <3>3
        DEF RequestConfigured, ClientConfigured
    <2> QED
      BY <2>1, <2>2, <2>3 DEF ClientConfigured
  <1>7. ParamsFit(e, p, Over(p, A))
    BY <1>1, ParamsGiven
  <1> HIDE DEF option
  <1>8. RequestFits([endpoint |-> e, sources |-> c.sources, config |-> option,
                     params |-> p, cycles |-> 10], Over(p, A))
    BY <1>5, <1>6, <1>7, RequestMade
  <1> QED
    BY <1>8 DEF New, option

-----------------------------------------------------------------------------
(* Setters of a request. *)

(* The parts of a request. *)
Parts(q, e, src, option, p, n) ==
  q = [endpoint |-> e, sources |-> src, config |-> option, params |-> p,
       cycles |-> n]

(* A request that fits has parts that do. *)
LEMMA RequestParts ==
  ASSUME NEW q, NEW A, RequestFits(q, A)
  PROVE  \E e, src, option, p, n :
           /\ e \in Endpoint
           /\ Parts(q, e, src, option, p, n)
           /\ src = SourcesOf(A)
           /\ ParamsFit(e, p, A)
           /\ RequestConfigured(e, option, A)
           /\ q.endpoint = e /\ q.sources = src /\ q.config = option
           /\ q.params = p
  BY DEF RequestFits, Parts

(* Cycles. *)
LEMMA CyclesSet ==
  ASSUME NEW q, NEW A, RequestFits(q, A), NEW n \in Cycles
  PROVE  RequestFits([q EXCEPT !.cycles = n], Over(Setting("cycles", n), A))
  <1>1. PICK e, src, option, p, n2 :
          /\ e \in Endpoint
          /\ Parts(q, e, src, option, p, n2)
          /\ src = SourcesOf(A)
          /\ ParamsFit(e, p, A)
          /\ RequestConfigured(e, option, A)
    BY RequestParts
  <1> DEFINE S == Setting("cycles", n)
  <1>2. DOMAIN S = {"cycles"}
    BY SettingOf
  <1> HIDE DEF S
  <1>3. "cycles" \notin Fields(e)
    BY <1>1, FieldNames
  <1>4. "sources" \notin DOMAIN S /\ DOMAIN S \cap Fields(e) = {}
        /\ DOMAIN S \cap ConfigSettings = {}
    BY <1>2, <1>3 DEF ConfigSettings
  <1>5. /\ src = SourcesOf(Over(S, A)) /\ ParamsFit(e, p, Over(S, A))
        /\ RequestConfigured(e, option, Over(S, A))
    BY <1>1, <1>4, SourcesOver, ParamsKept, ConfigKept
  <1>6. [q EXCEPT !.cycles = n] =
          [endpoint |-> e, sources |-> src, config |-> option, params |-> p,
           cycles |-> n]
    BY <1>1 DEF Parts
  <1> QED
    BY <1>1, <1>5, <1>6, RequestMade DEF S

(* All parameters, or one of them. *)
LEMMA ParamsSet ==
  ASSUME NEW q, NEW A, RequestFits(q, A)
  PROVE  /\ \A p \in Params[q.endpoint] :
              RequestFits([q EXCEPT !.params = p], Over(p, A))
         /\ \A f \in Fields(q.endpoint) : \A v \in ValueOf(q.endpoint, f) :
              RequestFits([q EXCEPT !.params[f] = v], Over(Setting(f, v), A))
  <1>1. PICK e, src, option, p, n :
          /\ e \in Endpoint
          /\ Parts(q, e, src, option, p, n)
          /\ src = SourcesOf(A)
          /\ ParamsFit(e, p, A)
          /\ RequestConfigured(e, option, A)
          /\ q.endpoint = e
    BY RequestParts
  <1>2. ASSUME NEW p2, NEW S, DOMAIN S \subseteq Fields(e),
               ParamsFit(e, p2, Over(S, A))
        PROVE  RequestFits([q EXCEPT !.params = p2], Over(S, A))
    <2>1. "sources" \notin DOMAIN S /\ DOMAIN S \cap ConfigSettings = {}
      BY <1>1, <1>2, FieldNames DEF ConfigSettings, ClientSettings
    <2>2. src = SourcesOf(Over(S, A)) /\ RequestConfigured(e, option, Over(S, A))
      BY <1>1, <2>1, SourcesOver, ConfigKept
    <2>3. [q EXCEPT !.params = p2] =
            [endpoint |-> e, sources |-> src, config |-> option, params |-> p2,
             cycles |-> n]
      BY <1>1 DEF Parts
    <2> QED
      BY <1>1, <1>2, <2>2, <2>3, RequestMade
  <1>3. ASSUME NEW p2 \in Params[e]
        PROVE  RequestFits([q EXCEPT !.params = p2], Over(p2, A))
    <2>1. DOMAIN p2 = Fields(e) /\ ParamsFit(e, p2, Over(p2, A))
      BY <1>1, ParamsOf, ParamsGiven
    <2> QED
      BY <1>2, <2>1
  <1>4. ASSUME NEW f \in Fields(e), NEW v \in ValueOf(e, f)
        PROVE  RequestFits([q EXCEPT !.params[f] = v], Over(Setting(f, v), A))
    <2> DEFINE S == Setting(f, v)
               p2 == [p EXCEPT ![f] = v]
    <2>1. DOMAIN S = {f}
      BY SettingOf
    <2>2. ParamsFit(e, p2, Over(S, A))
      BY <1>1, ParamGiven
    <2>3. [q EXCEPT !.params[f] = v] = [q EXCEPT !.params = p2]
      BY <1>1 DEF Parts
    <2> HIDE DEF S, p2
    <2>4. RequestFits([q EXCEPT !.params = p2], Over(S, A))
      BY <1>2, <2>1, <2>2
    <2> QED
      BY <2>3, <2>4 DEF S
  <1> QED
    BY <1>1, <1>3, <1>4

(* The configuration, all of it or the range only. *)
LEMMA ConfigSet ==
  ASSUME NEW q, NEW A, RequestFits(q, A), NEW S, NEW config,
         DOMAIN S \subseteq ConfigSettings,
         RequestConfigured(q.endpoint, <<config>>, Over(S, A))
  PROVE  RequestFits([q EXCEPT !.config = <<config>>], Over(S, A))
  <1>1. PICK e, src, option, p, n :
          /\ e \in Endpoint
          /\ Parts(q, e, src, option, p, n)
          /\ src = SourcesOf(A)
          /\ ParamsFit(e, p, A)
          /\ q.endpoint = e
    BY RequestParts
  <1>2. "sources" \notin DOMAIN S /\ DOMAIN S \cap Fields(e) = {}
    BY <1>1, FieldNames DEF ConfigSettings, ClientSettings
  <1>3. src = SourcesOf(Over(S, A)) /\ ParamsFit(e, p, Over(S, A))
    BY <1>1, <1>2, SourcesOver, ParamsKept
  <1>4. [q EXCEPT !.config = <<config>>] =
          [endpoint |-> e, sources |-> src, config |-> <<config>>,
           params |-> p, cycles |-> n]
    BY <1>1 DEF Parts
  <1>5. RequestConfigured(e, <<config>>, Over(S, A))
    BY <1>1
  <1> QED
    BY <1>1, <1>3, <1>4, <1>5, RequestMade

(* with_rpc_config, with an RpcConfig or with a GetLogsRpcConfig. *)
LEMMA RpcConfigSet ==
  ASSUME NEW q, NEW A, RequestFits(q, A), NEW c \in RpcConfig
  PROVE  /\ RequestFits([q EXCEPT !.config = <<ConfigFrom(q.endpoint, c)>>],
                        Over(ConfigFrom(q.endpoint, c), A))
         /\ \A m \in MaxRange : q.endpoint = "eth_getLogs" =>
              RequestFits([q EXCEPT !.config = <<GetLogsRpcConfig(c, m)>>],
                          Over(GetLogsRpcConfig(c, m), A))
  <1>1. PICK z \in Estimate \cup {None}, s \in Consensus \cup {None} :
          c = [estimate |-> z, consensus |-> s] /\ c.estimate = z
          /\ c.consensus = s
    BY DEF RpcConfig
  <1>2. ASSUME NEW m \in MaxRange \cup {None}, q.endpoint = "eth_getLogs"
        PROVE  RequestFits([q EXCEPT !.config = <<GetLogsRpcConfig(c, m)>>],
                           Over(GetLogsRpcConfig(c, m), A))
    <2> DEFINE S == [estimate |-> z, consensus |-> s, range |-> m]
    <2>1. GetLogsRpcConfig(c, m) = S
      BY <1>1 DEF GetLogsRpcConfig
    <2>2. DOMAIN S = ConfigSettings
      BY DEF ConfigSettings
    <2>3. /\ "estimate" \in DOMAIN S /\ S["estimate"] = z
          /\ "consensus" \in DOMAIN S /\ S["consensus"] = s
          /\ "range" \in DOMAIN S /\ S["range"] = m
      OBVIOUS
    <2> HIDE DEF S
    <2>4. /\ Said(Over(S, A), "estimate") = z
          /\ Said(Over(S, A), "consensus") = s
          /\ Said(Over(S, A), "range") = m
      BY <2>3, SaidNow
    <2>5. EndpointConfig(q.endpoint, Over(S, A)) = S
      BY <1>2, <2>4 DEF EndpointConfig, GetLogsRpcConfig, Rpc, S
    <2>6. RequestConfigured(q.endpoint, <<S>>, Over(S, A))
      BY <2>4, <2>5 DEF RequestConfigured
    <2> QED
      BY <2>1, <2>2, <2>6, ConfigSet
  <1>3. CASE q.endpoint # "eth_getLogs"
    <2>1. ConfigFrom(q.endpoint, c) = c
      BY <1>3 DEF ConfigFrom
    <2>2. /\ DOMAIN c = {"estimate", "consensus"}
          /\ "estimate" \in DOMAIN c /\ c["estimate"] = z
          /\ "consensus" \in DOMAIN c /\ c["consensus"] = s
          /\ "range" \notin DOMAIN c
      BY <1>1
    <2>3. /\ Said(Over(c, A), "estimate") = z
          /\ Said(Over(c, A), "consensus") = s
          /\ Said(Over(c, A), "range") = Said(A, "range")
      BY <2>2, SaidNow, SaidBefore
    <2>4. EndpointConfig(q.endpoint, Over(c, A)) = c
      BY <1>1, <1>3, <2>3 DEF EndpointConfig, Rpc
    <2>5. Said(A, "range") \in MaxRange \cup {None}
      BY DEF RequestFits, RequestConfigured
    <2>6. RequestConfigured(q.endpoint, <<c>>, Over(c, A))
      BY <2>3, <2>4, <2>5 DEF RequestConfigured
    <2>7. DOMAIN c \subseteq ConfigSettings
      BY <2>2 DEF ConfigSettings
    <2>8. RequestFits([q EXCEPT !.config = <<c>>], Over(c, A))
      BY <2>6, <2>7, ConfigSet
    <2> QED
      BY <1>3, <2>1, <2>8
  <1>4. CASE q.endpoint = "eth_getLogs"
    <2>1. ConfigFrom(q.endpoint, c) = GetLogsRpcConfig(c, None)
      BY <1>4 DEF ConfigFrom
    <2> QED
      BY <1>2, <1>4, <2>1
  <1> QED
    BY <1>3, <1>4

(* with_max_block_range, on a request with or without a configuration. *)
LEMMA RangeSet ==
  ASSUME NEW q, NEW A, RequestFits(q, A), NEW m \in MaxRange,
         q.endpoint = "eth_getLogs"
  PROVE  RequestFits(WithMaxBlockRange(q, m), Over(Setting("range", m), A))
  <1> DEFINE S == Setting("range", m)
             z == Said(A, "estimate")
             s == Said(A, "consensus")
             config == [estimate |-> z, consensus |-> s, range |-> m]
  <1>1. DOMAIN S = {"range"} /\ S["range"] = m
    BY SettingOf
  <1>2. RequestConfigured(q.endpoint, q.config, A)
    BY DEF RequestFits
  <1>3. WithMaxBlockRange(q, m) = [q EXCEPT !.config = <<config>>]
    <2>1. CASE q.config = <<>> /\ z = None /\ s = None
      <3>1. ConfigFrom("eth_getLogs", DefaultRpcConfig) =
              [estimate |-> None, consensus |-> None, range |-> None]
        BY DEF ConfigFrom, GetLogsRpcConfig, DefaultRpcConfig
      <3>2. [ConfigFrom("eth_getLogs", DefaultRpcConfig) EXCEPT !.range = m]
              = config
        BY <2>1, <3>1
      <3> QED
        BY <2>1, <3>2 DEF WithMaxBlockRange
    <2>2. CASE q.config = <<EndpointConfig(q.endpoint, A)>>
      <3>1. EndpointConfig(q.endpoint, A) =
              [estimate |-> z, consensus |-> s, range |-> Said(A, "range")]
        BY DEF EndpointConfig, GetLogsRpcConfig, Rpc
      <3>2. q.config # <<>> /\ q.config[1] = EndpointConfig(q.endpoint, A)
        BY <2>2
      <3>3. [q.config[1] EXCEPT !.range = m] = config
        BY <3>1, <3>2
      <3> HIDE DEF config
      <3> QED
        BY <3>2, <3>3 DEF WithMaxBlockRange
    <2> QED
      BY <1>2, <2>1, <2>2 DEF RequestConfigured
  <1> HIDE DEF S
  <1>4. /\ "range" \in DOMAIN S /\ "estimate" \notin DOMAIN S
        /\ "consensus" \notin DOMAIN S
    BY <1>1
  <1>5. /\ Said(Over(S, A), "estimate") = z /\ Said(Over(S, A), "consensus") = s
        /\ Said(Over(S, A), "range") = m
    BY <1>1, <1>4, SaidNow, SaidBefore
  <1>6. EndpointConfig(q.endpoint, Over(S, A)) = config
    BY <1>5 DEF EndpointConfig, GetLogsRpcConfig, Rpc
  <1>7. z \in Estimate \cup {None} /\ s \in Consensus \cup {None}
    BY <1>2 DEF RequestConfigured
  <1>8. DOMAIN S \subseteq ConfigSettings
    BY <1>1 DEF ConfigSettings
  <1> HIDE DEF z, s, config
  <1>9. RequestConfigured(q.endpoint, <<config>>, Over(S, A))
    BY <1>5, <1>6, <1>7 DEF RequestConfigured
  <1> QED
    BY <1>3, <1>8, <1>9, ConfigSet DEF S

(* Whichever setter is called, the request holds what is then asked of it. *)
LEMMA RequestConfiguredAgain ==
  ASSUME NEW r, RequestFits(request[r][1], asked[r]), ConfigureRequest(r)
  PROVE  \E next, said :
           /\ request' = [request EXCEPT ![r] = <<next>>]
           /\ Say(r, said)
           /\ RequestFits(next, Over(said, asked[r]))
  <1>1. PICK q, A, e : q = request[r][1] /\ A = asked[r] /\ e = q.endpoint
    OBVIOUS
  <1>2. RequestFits(q, A)
    BY <1>1
  <1> DEFINE Becomes(next, said) == /\ request' = [request EXCEPT ![r] = <<next>>]
                                    /\ Say(r, said)
  <1>3. ASSUME NEW next, NEW said, Becomes(next, said),
               RequestFits(next, Over(said, A))
        PROVE  \E next2, said2 :
                 /\ request' = [request EXCEPT ![r] = <<next2>>]
                 /\ Say(r, said2)
                 /\ RequestFits(next2, Over(said2, asked[r]))
    BY <1>1, <1>3
  <1>4. \/ \E n \in Cycles : Becomes([q EXCEPT !.cycles = n], Setting("cycles", n))
        \/ \E p \in Params[e] : Becomes([q EXCEPT !.params = p], p)
        \/ \E f \in Fields(e) : \E v \in ValueOf(e, f) :
             Becomes([q EXCEPT !.params[f] = v], Setting(f, v))
        \/ \E c \in RpcConfig :
             Becomes([q EXCEPT !.config = <<ConfigFrom(e, c)>>], ConfigFrom(e, c))
        \/ /\ e = "eth_getLogs"
           /\ \E c \in RpcConfig, m \in MaxRange :
                Becomes([q EXCEPT !.config = <<GetLogsRpcConfig(c, m)>>],
                        GetLogsRpcConfig(c, m))
        \/ /\ e = "eth_getLogs"
           /\ \E m \in MaxRange :
                Becomes(WithMaxBlockRange(q, m), Setting("range", m))
    BY <1>1 DEF ConfigureRequest
  <1> HIDE DEF Becomes
  <1>5. ASSUME NEW n \in Cycles,
               Becomes([q EXCEPT !.cycles = n], Setting("cycles", n))
        PROVE  \E next, said : Becomes(next, said) /\ RequestFits(next, Over(said, A))
    <2>1. RequestFits([q EXCEPT !.cycles = n], Over(Setting("cycles", n), A))
      BY <1>2, CyclesSet
    <2> QED
      BY <1>5, <2>1
  <1>6. ASSUME NEW p \in Params[e], Becomes([q EXCEPT !.params = p], p)
        PROVE  \E next, said : Becomes(next, said) /\ RequestFits(next, Over(said, A))
    <2>1. RequestFits([q EXCEPT !.params = p], Over(p, A))
      BY <1>1, <1>2, ParamsSet
    <2> QED
      BY <1>6, <2>1
  <1>7. ASSUME NEW f \in Fields(e), NEW v \in ValueOf(e, f),
               Becomes([q EXCEPT !.params[f] = v], Setting(f, v))
        PROVE  \E next, said : Becomes(next, said) /\ RequestFits(next, Over(said, A))
    <2>1. RequestFits([q EXCEPT !.params[f] = v], Over(Setting(f, v), A))
      BY <1>1, <1>2, ParamsSet
    <2> QED
      BY <1>7, <2>1
  <1>8. ASSUME NEW c \in RpcConfig,
               Becomes([q EXCEPT !.config = <<ConfigFrom(e, c)>>], ConfigFrom(e, c))
        PROVE  \E next, said : Becomes(next, said) /\ RequestFits(next, Over(said, A))
    <2>1. RequestFits([q EXCEPT !.config = <<ConfigFrom(e, c)>>],
                      Over(ConfigFrom(e, c), A))
      BY <1>1, <1>2, RpcConfigSet
    <2> QED
      BY <1>8, <2>1
  <1>9. ASSUME NEW c \in RpcConfig, NEW m \in MaxRange, e = "eth_getLogs",
               Becomes([q EXCEPT !.config = <<GetLogsRpcConfig(c, m)>>],
                       GetLogsRpcConfig(c, m))
        PROVE  \E next, said : Becomes(next, said) /\ RequestFits(next, Over(said, A))
    <2>1. RequestFits([q EXCEPT !.config = <<GetLogsRpcConfig(c, m)>>],
                      Over(GetLogsRpcConfig(c, m), A))
      BY <1>1, <1>2, <1>9, RpcConfigSet
    <2> QED
      BY <1>9, <2>1
  <1>10. ASSUME NEW m \in MaxRange, e = "eth_getLogs",
                Becomes(WithMaxBlockRange(q, m), Setting("range", m))
         PROVE  \E next, said : Becomes(next, said) /\ RequestFits(next, Over(said, A))
    <2>1. RequestFits(WithMaxBlockRange(q, m), Over(Setting("range", m), A))
      BY <1>1, <1>2, <1>10, RangeSet
    <2> QED
      BY <1>10, <2>1
  <1>11. \E next, said : Becomes(next, said) /\ RequestFits(next, Over(said, A))
    BY <1>4, <1>5, <1>6, <1>7, <1>8, <1>9, <1>10
  <1> QED
    BY <1>3, <1>11

-----------------------------------------------------------------------------
(* What the endpoint makes of a request. *)

(* The configuration the endpoint uses is the one asked for. *)
LEMMA ConfigUsed ==
  ASSUME NEW q, NEW A, RequestFits(q, A)
  PROVE  (IF q.config # <<>> THEN q.config[1]
          ELSE ConfigFrom(q.endpoint, DefaultRpcConfig))
           = EndpointConfig(q.endpoint, A)
  <1>1. RequestConfigured(q.endpoint, q.config, A)
    BY DEF RequestFits
  <1>2. CASE q.config = <<EndpointConfig(q.endpoint, A)>>
    <2>1. q.config # <<>> /\ q.config[1] = EndpointConfig(q.endpoint, A)
      BY <1>2
    <2> QED
      BY <2>1
  <1>3. CASE /\ q.config = <<>> /\ Said(A, "estimate") = None
             /\ Said(A, "consensus") = None /\ Said(A, "range") = None
    <2>1. ConfigFrom(q.endpoint, DefaultRpcConfig) = EndpointConfig(q.endpoint, A)
      BY <1>3 DEF ConfigFrom, DefaultRpcConfig, EndpointConfig,
                  GetLogsRpcConfig, Rpc
    <2> QED
      BY <1>3, <2>1
  <1> QED
    BY <1>1, <1>2, <1>3 DEF RequestConfigured

(* The blocks A asks for are further apart than A allows. *)
Far(A) ==
  LET from == Said(A, "fromBlock")
      to == Said(A, "toBlock")
      max == UnwrapOr(Said(A, "range"), DefaultRange)
  IN  /\ from >= 0 /\ to >= 0
      /\ (from - to > max \/ to - from > max)

(* The check of the range is about the blocks and the range asked for. *)
LEMMA RangeChecked ==
  ASSUME NEW q, NEW A, RequestFits(q, A), q.endpoint = "eth_getLogs"
  PROVE  TooManyBlocks(q.params,
                       MaxBlockRangeOrDefault(EndpointConfig(q.endpoint, A)))
           <=> Far(A)
  <1>1. PICK p, max, from, to :
          /\ p = q.params /\ from = p["fromBlock"] /\ to = p["toBlock"]
          /\ max = UnwrapOr(Said(A, "range"), DefaultRange)
    OBVIOUS
  <1>2. /\ "fromBlock" \in Fields(q.endpoint) /\ "toBlock" \in Fields(q.endpoint)
        /\ q.endpoint \in Endpoint
    BY FieldNames DEF RequestFits
  <1>3. ParamsFit(q.endpoint, p, A)
    BY <1>1 DEF RequestFits
  <1>4. Said(A, "fromBlock") = from /\ Said(A, "toBlock") = to
    BY <1>1, <1>2, <1>3 DEF ParamsFit, Said
  <1>5. from \in BlockTag \cup {None} /\ to \in BlockTag \cup {None}
    <2>1. \A f \in Fields(q.endpoint) : p[f] \in ValueOf(q.endpoint, f)
      BY <1>2, <1>3, ParamsOf DEF ParamsFit
    <2>2. from \in ValueOf(q.endpoint, "fromBlock")
          /\ to \in ValueOf(q.endpoint, "toBlock")
      BY <1>1, <1>2, <2>1
    <2> QED
      BY <2>2 DEF ValueOf, IsBlock
  <1>6. /\ from \in Int /\ to \in Int
        /\ (from \in Number <=> from >= 0) /\ (to \in Number <=> to >= 0)
        /\ from \in Number => from \in Nat
        /\ to \in Number => to \in Nat
    BY <1>5, RequestsAssumption DEF BlockTag, None, Latest, Earliest
  <1>7. max \in Nat
    <2>1. Said(A, "range") \in MaxRange \cup {None}
      BY DEF RequestFits, RequestConfigured
    <2> QED
      BY <1>1, <2>1, RequestsAssumption DEF UnwrapOr
  <1>8. MaxBlockRangeOrDefault(EndpointConfig(q.endpoint, A)) = max
    BY <1>1 DEF MaxBlockRangeOrDefault, EndpointConfig, GetLogsRpcConfig
  <1>9. TooManyBlocks(p, max) <=> /\ from \in Number /\ to \in Number
                                  /\ BlockCount(from, to) > max
    BY <1>1 DEF TooManyBlocks
  <1>10. ASSUME from \in Nat, to \in Nat
         PROVE  BlockCount(from, to) > max <=> (from - to > max \/ to - from > max)
    BY <1>7, <1>10 DEF BlockCount
  <1>11. Far(A) <=> /\ from >= 0 /\ to >= 0
                    /\ (from - to > max \/ to - from > max)
    BY <1>1, <1>4 DEF Far
  <1> QED
    BY <1>1, <1>6, <1>8, <1>9, <1>10, <1>11

(* The answers an endpoint gives. *)
SizeAsked(q, A) ==
  UnwrapOr(Said(A, "estimate"), ExpectedSize(q.endpoint, q.sources))
CallAsked(q, A) ==
  [kind |-> "call", method |-> q.endpoint, sources |-> q.sources,
   strategy |-> UnwrapOr(Said(A, "consensus"), Equality),
   size |-> SizeAsked(q, A), params |-> IntoParams(q.params)]

(* They follow from what was asked. *)
LEMMA Answers ==
  ASSUME NEW q, NEW A, RequestFits(q, A)
  PROVE  \/ Handle(q) = [kind |-> "providers"]
         \/ /\ Handle(q) = [kind |-> "range"]
            /\ q.endpoint = "eth_getLogs" /\ Far(A)
         \/ /\ Handle(q) = [kind |-> "trap"]
            /\ ~SizeAllowed(SizeAsked(q, A))
            /\ q.endpoint = "eth_getLogs" => ~Far(A)
         \/ /\ Handle(q) = CallAsked(q, A)
            /\ q.endpoint = "eth_getLogs" => ~Far(A)
  <1> DEFINE given == IF q.config # <<>> THEN q.config[1]
                      ELSE ConfigFrom(q.endpoint, DefaultRpcConfig)
             logs == q.endpoint = "eth_getLogs"
             config == IF logs THEN RpcConfigFrom(given) ELSE given
             strategy == UnwrapOr(Said(A, "consensus"), Equality)
  <1>1. given = EndpointConfig(q.endpoint, A)
    BY ConfigUsed
  <1> HIDE DEF given
  <1>2. config = Rpc(A)
    BY <1>1 DEF EndpointConfig, RpcConfigFrom, GetLogsRpcConfig, Rpc
  <1> HIDE DEF config
  <1>3. /\ Strategy(config) = strategy
        /\ UnwrapOr(config.estimate, ExpectedSize(q.endpoint, q.sources))
             = SizeAsked(q, A)
    BY <1>2 DEF Strategy, SizeAsked, Rpc
  <1>4. logs => (TooManyBlocks(q.params, MaxBlockRangeOrDefault(given)) <=> Far(A))
    BY <1>1, RangeChecked
  <1>5. Handle(q) =
          IF <<q.sources, Strategy(config)>> \in NoProviders
          THEN [kind |-> "providers"]
          ELSE IF logs /\ TooManyBlocks(q.params, MaxBlockRangeOrDefault(given))
               THEN [kind |-> "range"]
          ELSE IF ~SizeAllowed(UnwrapOr(config.estimate,
                                        ExpectedSize(q.endpoint, q.sources)))
               THEN [kind |-> "trap"]
          ELSE [kind |-> "call", method |-> q.endpoint, sources |-> q.sources,
                strategy |-> Strategy(config),
                size |-> UnwrapOr(config.estimate,
                                  ExpectedSize(q.endpoint, q.sources)),
                params |-> IntoParams(q.params)]
    BY DEF Handle, given, config
  <1> QED
    BY <1>3, <1>4, <1>5 DEF CallAsked

(* What the endpoint expects by itself is a size it allows. *)
LEMMA ExpectedAllowed ==
  ASSUME NEW e \in Endpoint, NEW s
  PROVE  SizeAllowed(ExpectedSize(e, s))
  <1>1. ExpectedSize(e, s) \in Nat /\ ExpectedSize(e, s) > 0
        /\ ExpectedSize(e, s) <= 26624
    BY EndpointAssumption DEF ExpectedSize, HeaderSizeLimit
  <1>2. MaxPayload \in Nat
    BY RequestsAssumption
  <1> QED
    BY <1>1, <1>2, PayloadAssumption DEF SizeAllowed

(* The answer a is as the settings A ask. *)
AnswerFits(a, A) ==
  /\ a.kind = "call" =>
       /\ a.sources = SourcesOf(A)
       /\ a.strategy = UnwrapOr(Said(A, "consensus"), Equality)
       /\ Said(A, "estimate") # None => a.size = Said(A, "estimate")
       /\ \A f \in DOMAIN a.params :
            IF Said(A, f) # None THEN a.params[f] = A[f]
            ELSE IsBlock(f) => a.params[f] = Latest
  /\ a.kind = "trap" =>
       Said(A, "estimate") = 0 \/ Said(A, "estimate") > MaxPayload

(* What the endpoint answers to a request that holds what was asked. *)
LEMMA HandledAsAsked ==
  ASSUME NEW q, NEW A, RequestFits(q, A)
  PROVE  AnswerFits(Handle(q), A)
  <1>1. PICK a : a = Handle(q)
    OBVIOUS
  <1>2. CASE a = [kind |-> "providers"] \/ a = [kind |-> "range"]
    BY <1>1, <1>2 DEF AnswerFits
  <1>3. CASE a = [kind |-> "trap"] /\ ~SizeAllowed(SizeAsked(q, A))
    <2>1. PICK z : z = Said(A, "estimate")
      OBVIOUS
    <2>2. z \in Estimate \cup {None} /\ q.endpoint \in Endpoint
      BY <2>1 DEF RequestFits, RequestConfigured
    <2>3. z # None
      BY <1>3, <2>1, <2>2, ExpectedAllowed DEF SizeAsked, UnwrapOr
    <2>4. SizeAsked(q, A) = z
      BY <2>1, <2>3 DEF SizeAsked, UnwrapOr
    <2>5. z \in Nat /\ MaxPayload \in Nat
      BY <2>2, <2>3, RequestsAssumption
    <2>6. z = 0 \/ z > MaxPayload
      BY <1>3, <2>4, <2>5 DEF SizeAllowed
    <2> QED
      BY <1>1, <1>3, <2>1, <2>6 DEF AnswerFits
  <1>4. CASE a = CallAsked(q, A)
    <2>1. /\ a.kind = "call" /\ a.sources = q.sources
          /\ a.strategy = UnwrapOr(Said(A, "consensus"), Equality)
          /\ a.size = SizeAsked(q, A) /\ a.params = IntoParams(q.params)
      BY <1>4 DEF CallAsked
    <2>2. a.sources = SourcesOf(A)
      BY <2>1 DEF RequestFits
    <2>3. Said(A, "estimate") # None => a.size = Said(A, "estimate")
      BY <2>1 DEF SizeAsked, UnwrapOr
    <2>4. ASSUME NEW f \in DOMAIN a.params
          PROVE  IF Said(A, f) # None THEN a.params[f] = A[f]
                 ELSE IsBlock(f) => a.params[f] = Latest
      <3>1. PICK p : p = q.params
        OBVIOUS
      <3>2. q.endpoint \in Endpoint /\ ParamsFit(q.endpoint, p, A)
        BY <3>1 DEF RequestFits
      <3>3. DOMAIN p = Fields(q.endpoint)
        BY <3>2, ParamsOf DEF ParamsFit
      <3>4. f \in DOMAIN p
        BY <2>1, <2>4, <3>1 DEF IntoParams
      <3>5. Said(A, f) = p[f] /\ A[f] = p[f]
        BY <3>2, <3>3, <3>4 DEF ParamsFit, Said
      <3>6. a.params[f] = IF IsBlock(f) THEN UnwrapOr(p[f], Latest)
                          ELSE UnwrapOr(p[f], 0)
        BY <2>1, <3>1, <3>4 DEF IntoParams, IntoBlockSpec
      <3> QED
        BY <3>5, <3>6 DEF UnwrapOr
    <2> QED
      BY <1>1, <2>1, <2>2, <2>3, <2>4 DEF AnswerFits
  <1> QED
    BY <1>1, <1>2, <1>3, <1>4, Answers

(* eth_getLogs is refused for its range when it is too large, only then.     *)
LEMMA RangeAnswered ==
  ASSUME NEW q, NEW A, RequestFits(q, A), q.endpoint = "eth_getLogs"
  PROVE  /\ Handle(q).kind = "range" => Far(A)
         /\ Handle(q).kind \in {"call", "trap"} => ~Far(A)
  <1>1. PICK a : a = Handle(q)
    OBVIOUS
  <1>2. CASE a = [kind |-> "providers"]
    BY <1>1, <1>2
  <1>3. CASE a = [kind |-> "range"] /\ Far(A)
    BY <1>1, <1>3
  <1>4. CASE a = [kind |-> "trap"] /\ ~Far(A)
    BY <1>1, <1>4
  <1>5. CASE a = CallAsked(q, A) /\ ~Far(A)
    BY <1>1, <1>5 DEF CallAsked
  <1> QED
    BY <1>1, <1>2, <1>3, <1>4, <1>5, Answers

-----------------------------------------------------------------------------
(***************************************************************************)
(* The inductive invariant: every builder, client and request holds what   *)
(* was asked of it, and an answer is the one to the request as it stands,  *)
(* which no longer changes.                                                *)
(***************************************************************************)
Shapes ==
  /\ DOMAIN client = Client /\ DOMAIN request = Request
  /\ DOMAIN phase = Request /\ DOMAIN answer = Request
  /\ DOMAIN asked = Owner

ClientsFit ==
  /\ ClientFits(builder, asked["builder"])
  /\ \A c \in Client : client[c] # <<>> => ClientFits(client[c][1], asked[c])

RequestsFit ==
  \A r \in Request : request[r] # <<>> => RequestFits(request[r][1], asked[r])

AnswersFinal ==
  \A r \in Request :
    /\ phase[r] # "open" => request[r] # <<>>
    /\ answer[r] # <<>> => /\ phase[r] \notin {"open", "sent"}
                           /\ answer[r] = <<Handle(request[r][1])>>

RequestsInv == Shapes /\ ClientsFit /\ RequestsFit /\ AnswersFinal

(* What a step leaves of the owners other than the one it is about. *)
LEMMA Others ==
  ASSUME Shapes, NEW o \in Owner, NEW v, asked' = [asked EXCEPT ![o] = v]
  PROVE  /\ DOMAIN asked' = Owner /\ asked'[o] = v
         /\ \A x \in Owner : x # o => asked'[x] = asked[x]
  BY DEF Shapes

(* Owners are told apart. *)
LEMMA Owners ==
  /\ "builder" \in Owner /\ Client \subseteq Owner /\ Request \subseteq Owner
  /\ \A c \in Client : c # "builder" /\ c \notin Request
  /\ \A r \in Request : r # "builder" /\ r \notin Client
  BY OwnersAssumption DEF Owner

(* Configuring the builder touches the builder only. *)
LEMMA BuilderConfigured ==
  ASSUME RequestsInv, ConfigureBuilder
  PROVE  RequestsInv'
  <1>1. ClientFits(builder, asked["builder"])
    BY DEF RequestsInv, ClientsFit
  <1>2. \E next, said : /\ builder' = next /\ Say("builder", said)
                        /\ ClientFits(next, Over(said, asked["builder"]))
    <2>1. PICK b, A : b = builder /\ A = asked["builder"]
      OBVIOUS
    <2>2. ASSUME NEW s \in Sources, builder' = WithRpcSources(b, s),
                 Say("builder", Setting("sources", s))
          PROVE  \E next, said : /\ builder' = next /\ Say("builder", said)
                                 /\ ClientFits(next, Over(said, A))
      <3>1. ClientFits(WithRpcSources(b, s), Over(Setting("sources", s), A))
        BY <1>1, <2>1, BuilderSetters
      <3> QED
        BY <2>2, <3>1
    <2>3. ASSUME NEW c \in RpcConfig, builder' = WithRpcConfig(b, c),
                 Say("builder", c)
          PROVE  \E next, said : /\ builder' = next /\ Say("builder", said)
                                 /\ ClientFits(next, Over(said, A))
      <3>1. ClientFits(WithRpcConfig(b, c), Over(c, A))
        BY <1>1, <2>1, BuilderSetters
      <3> QED
        BY <2>3, <3>1
    <2>4. ASSUME NEW s \in Consensus, builder' = WithConsensusStrategy(b, s),
                 Say("builder", Setting("consensus", s))
          PROVE  \E next, said : /\ builder' = next /\ Say("builder", said)
                                 /\ ClientFits(next, Over(said, A))
      <3>1. ClientFits(WithConsensusStrategy(b, s),
                       Over(Setting("consensus", s), A))
        BY <1>1, <2>1, BuilderSetters
      <3> QED
        BY <2>4, <3>1
    <2>5. ASSUME NEW z \in Estimate, builder' = WithResponseSizeEstimate(b, z),
                 Say("builder", Setting("estimate", z))
          PROVE  \E next, said : /\ builder' = next /\ Say("builder", said)
                                 /\ ClientFits(next, Over(said, A))
      <3>1. ClientFits(WithResponseSizeEstimate(b, z),
                       Over(Setting("estimate", z), A))
        BY <1>1, <2>1, BuilderSetters
      <3> QED
        BY <2>5, <3>1
    <2> QED
      BY <2>1, <2>2, <2>3, <2>4, <2>5 DEF ConfigureBuilder
  <1>3. PICK next, said : /\ builder' = next /\ Say("builder", said)
                          /\ ClientFits(next, Over(said, asked["builder"]))
    BY <1>2
  <1>4. asked' = [asked EXCEPT !["builder"] = Over(said, asked["builder"])]
    BY <1>3 DEF Say
  <1>5. /\ DOMAIN asked' = Owner
        /\ asked'["builder"] = Over(said, asked["builder"])
        /\ \A x \in Owner : x # "builder" => asked'[x] = asked[x]
    BY <1>4, Others, Owners DEF RequestsInv
  <1>6. UNCHANGED <<client, request, phase, answer>>
    BY DEF ConfigureBuilder
  <1>7. \A x \in Client \cup Request : asked'[x] = asked[x]
    BY <1>5, Owners, OwnersAssumption
  <1>8. Shapes'
    BY <1>5, <1>6 DEF RequestsInv, Shapes
  <1>9. ClientsFit'
    BY <1>3, <1>5, <1>6, <1>7 DEF RequestsInv, ClientsFit
  <1>10. RequestsFit' /\ AnswersFinal'
    BY <1>6, <1>7 DEF RequestsInv, RequestsFit, AnswersFinal
  <1> QED
    BY <1>8, <1>9, <1>10 DEF RequestsInv

(* A client starts with what the builder was asked for. *)
LEMMA ClientBuilt ==
  ASSUME RequestsInv, NEW c \in Client, Build(c)
  PROVE  RequestsInv'
  <1>1. /\ asked' = [asked EXCEPT ![c] = asked["builder"]]
        /\ client' = [client EXCEPT ![c] = <<builder>>]
        /\ UNCHANGED <<builder, request, phase, answer>>
    BY DEF Build
  <1>2. c \in Owner
    BY Owners
  <1>3. /\ DOMAIN asked' = Owner /\ asked'[c] = asked["builder"]
        /\ \A x \in Owner : x # c => asked'[x] = asked[x]
    BY <1>1, <1>2, Others DEF RequestsInv
  <1>4. /\ asked'["builder"] = asked["builder"]
        /\ \A r \in Request : asked'[r] = asked[r]
        /\ \A d \in Client : d # c => asked'[d] = asked[d]
    BY <1>3, Owners
  <1>5. /\ DOMAIN client' = Client /\ client'[c][1] = builder
        /\ \A d \in Client : d # c => client'[d] = client[d]
    BY <1>1 DEF RequestsInv, Shapes
  <1>6. Shapes'
    BY <1>1, <1>3, <1>5 DEF RequestsInv, Shapes
  <1>7. ClientsFit'
    <2>1. ClientFits(builder', asked'["builder"])
      BY <1>1, <1>4 DEF RequestsInv, ClientsFit
    <2>2. ASSUME NEW d \in Client, client'[d] # <<>>
          PROVE  ClientFits(client'[d][1], asked'[d])
      <3>1. CASE d = c
        BY <1>3, <1>5, <3>1 DEF RequestsInv, ClientsFit
      <3>2. CASE d # c
        BY <1>4, <1>5, <2>2, <3>2 DEF RequestsInv, ClientsFit
      <3> QED
        BY <3>1, <3>2
    <2> QED
      BY <2>1, <2>2 DEF ClientsFit
  <1>8. RequestsFit' /\ AnswersFinal'
    BY <1>1, <1>4 DEF RequestsInv, RequestsFit, AnswersFinal
  <1> QED
    BY <1>6, <1>7, <1>8 DEF RequestsInv

(* Giving an unsent request a new content that fits what is asked of it. *)
LEMMA RequestReplaced ==
  ASSUME RequestsInv, NEW r \in Request, NEW w, NEW A,
         phase[r] = "open", w # <<>>, RequestFits(w[1], A),
         request' = [request EXCEPT ![r] = w],
         asked' = [asked EXCEPT ![r] = A],
         UNCHANGED <<builder, client, phase, answer>>
  PROVE  RequestsInv'
  <1>1. r \in Owner
    BY Owners
  <1>2. /\ DOMAIN asked' = Owner /\ asked'[r] = A
        /\ \A x \in Owner : x # r => asked'[x] = asked[x]
    BY <1>1, Others DEF RequestsInv
  <1>3. /\ asked'["builder"] = asked["builder"]
        /\ \A c \in Client : asked'[c] = asked[c]
        /\ \A q \in Request : q # r => asked'[q] = asked[q]
    BY <1>2, Owners
  <1>4. /\ DOMAIN request' = Request /\ request'[r] = w
        /\ \A q \in Request : q # r => request'[q] = request[q]
    BY DEF RequestsInv, Shapes
  <1>5. Shapes'
    BY <1>2, <1>4 DEF RequestsInv, Shapes
  <1>6. ClientsFit'
    BY <1>3 DEF RequestsInv, ClientsFit
  <1>7. RequestsFit'
    <2> SUFFICES ASSUME NEW q \in Request, request'[q] # <<>>
                 PROVE  RequestFits(request'[q][1], asked'[q])
      BY DEF RequestsFit
    <2>1. CASE q = r
      BY <1>2, <1>4, <2>1
    <2>2. CASE q # r
      BY <1>3, <1>4, <2>2 DEF RequestsInv, RequestsFit
    <2> QED
      BY <2>1, <2>2
  <1>8. AnswersFinal'
    <2> SUFFICES ASSUME NEW q \in Request
                 PROVE  /\ phase[q] # "open" => request'[q] # <<>>
                        /\ answer[q] # <<>> =>
                             /\ phase[q] \notin {"open", "sent"}
                             /\ answer[q] = <<Handle(request'[q][1])>>
      BY DEF AnswersFinal
    <2>1. CASE q = r
      BY <2>1 DEF RequestsInv, AnswersFinal
    <2>2. CASE q # r
      BY <1>4, <2>2 DEF RequestsInv, AnswersFinal
    <2> QED
      BY <2>1, <2>2
  <1> QED
    BY <1>5, <1>6, <1>7, <1>8 DEF RequestsInv

(* The steps of a request that has been sent leave it and what was asked. *)
LEMMA RequestAdvances ==
  ASSUME RequestsInv, NEW r \in Request,
         Send(r) \/ Serve(r) \/ Reply(r) \/ Reject(r)
  PROVE  RequestsInv'
  <1>1. /\ UNCHANGED <<builder, client, request, asked>>
        /\ request[r] # <<>>
        /\ \E ph \in {"sent", "served", "replied", "rejected"} :
             /\ phase' = [phase EXCEPT ![r] = ph]
             /\ ph = "sent" => answer[r] = <<>>
        /\ \/ answer' = answer
           \/ /\ answer' = [answer EXCEPT ![r] = <<Handle(request[r][1])>>]
              /\ phase' = [phase EXCEPT ![r] = "served"]
    BY DEF RequestsInv, AnswersFinal, Send, Serve, Reply, Reject
  <1>2. PICK ph \in {"sent", "served", "replied", "rejected"} :
          /\ phase' = [phase EXCEPT ![r] = ph]
          /\ ph = "sent" => answer[r] = <<>>
    BY <1>1
  <1>3. /\ DOMAIN phase' = Request /\ phase'[r] = ph
        /\ \A q \in Request : q # r => phase'[q] = phase[q]
    BY <1>2 DEF RequestsInv, Shapes
  <1>4. /\ DOMAIN answer' = Request
        /\ \A q \in Request : q # r => answer'[q] = answer[q]
        /\ \/ answer'[r] = answer[r]
           \/ answer'[r] = <<Handle(request[r][1])>> /\ ph = "served"
    <2>1. CASE answer' = answer
      BY <2>1 DEF RequestsInv, Shapes
    <2>2. CASE /\ answer' = [answer EXCEPT ![r] = <<Handle(request[r][1])>>]
               /\ phase' = [phase EXCEPT ![r] = "served"]
      <3>1. phase'[r] = "served"
        BY <2>2 DEF RequestsInv, Shapes
      <3> QED
        BY <1>3, <2>2, <3>1 DEF RequestsInv, Shapes
    <2> QED
      BY <1>1, <2>1, <2>2
  <1>5. Shapes'
    BY <1>1, <1>3, <1>4 DEF RequestsInv, Shapes
  <1>6. ClientsFit' /\ RequestsFit'
    BY <1>1 DEF RequestsInv, ClientsFit, RequestsFit
  <1>7. AnswersFinal'
    <2> SUFFICES ASSUME NEW q \in Request
                 PROVE  /\ phase'[q] # "open" => request[q] # <<>>
                        /\ answer'[q] # <<>> =>
                             /\ phase'[q] \notin {"open", "sent"}
                             /\ answer'[q] = <<Handle(request[q][1])>>
      BY <1>1 DEF AnswersFinal
    <2>1. CASE q = r
      BY <1>1, <1>2, <1>3, <1>4, <2>1 DEF RequestsInv, AnswersFinal
    <2>2. CASE q # r
      BY <1>3, <1>4, <2>2 DEF RequestsInv, AnswersFinal
    <2> QED
      BY <2>1, <2>2
  <1> QED
    BY <1>5, <1>6, <1>7 DEF RequestsInv

(* Requests and clients always hold what was last asked of them, and an     *)
(* answer is the one to the request as it was when it was sent.             *)
THEOREM RequestsInductive == Spec => []RequestsInv
  <1>1. Init => RequestsInv
    <2> SUFFICES ASSUME Init PROVE RequestsInv
      OBVIOUS
    <2>1. Shapes
      BY DEF Init, Shapes
    <2>2. asked["builder"] = <<>> /\ DOMAIN asked["builder"] = {}
      BY Owners DEF Init
    <2>3. /\ Said(asked["builder"], "estimate") = None
          /\ Said(asked["builder"], "consensus") = None
          /\ SourcesOf(asked["builder"]) = "EthMainnet"
      BY <2>2 DEF Said, SourcesOf
    <2>4. ClientFits(builder, asked["builder"])
      BY <2>2, <2>3 DEF Init, ClientFits, ClientConfigured
    <2>5. ClientsFit
      BY <2>4 DEF Init, ClientsFit
    <2>6. RequestsFit /\ AnswersFinal
      BY DEF Init, RequestsFit, AnswersFinal
    <2> QED
      BY <2>1, <2>5, <2>6 DEF RequestsInv
  <1>2. RequestsInv /\ [Next]_vars => RequestsInv'
    <2> SUFFICES ASSUME RequestsInv, [Next]_vars PROVE RequestsInv'
      OBVIOUS
    <2>1. ASSUME NEW c \in Client, NEW r \in Request, MakeRequest(c, r)
          PROVE  RequestsInv'
      <3>1. PICK e \in Endpoint : \E p \in InitialParams[e] :
              /\ request' = [request EXCEPT ![r] = <<New(client[c][1], e, p)>>]
              /\ asked' = [asked EXCEPT ![r] = Over(p, asked[c])]
        BY <2>1 DEF MakeRequest
      <3>2. PICK p \in InitialParams[e] :
              /\ request' = [request EXCEPT ![r] = <<New(client[c][1], e, p)>>]
              /\ asked' = [asked EXCEPT ![r] = Over(p, asked[c])]
        BY <3>1
      <3>3. PICK b, A, w, B : /\ b = client[c][1] /\ A = asked[c]
                              /\ w = <<New(b, e, p)>> /\ B = Over(p, A)
        OBVIOUS
      <3>4. ClientFits(b, A)
        BY <2>1, <3>3 DEF RequestsInv, ClientsFit, MakeRequest
      <3>5. RequestFits(New(b, e, p), B)
        BY <3>3, <3>4, NewFits
      <3>6. w # <<>> /\ w[1] = New(b, e, p)
        BY <3>3
      <3>7. /\ phase[r] = "open"
            /\ UNCHANGED <<builder, client, phase, answer>>
        BY <2>1 DEF RequestsInv, AnswersFinal, MakeRequest
      <3> QED
        BY <3>2, <3>3, <3>5, <3>6, <3>7, RequestReplaced
    <2>2. ASSUME NEW q \in Request, NEW r \in Request, CloneRequest(q, r)
          PROVE  RequestsInv'
      <3>1. PICK w, A : w = request[q] /\ A = asked[q]
        OBVIOUS
      <3>2. w # <<>> /\ RequestFits(w[1], A)
        BY <2>2, <3>1 DEF RequestsInv, RequestsFit, CloneRequest
      <3>3. /\ phase[r] = "open"
            /\ request' = [request EXCEPT ![r] = w]
            /\ asked' = [asked EXCEPT ![r] = A]
            /\ UNCHANGED <<builder, client, phase, answer>>
        BY <2>2, <3>1 DEF RequestsInv, AnswersFinal, CloneRequest
      <3> QED
        BY <3>2, <3>3, RequestReplaced
    <2>3. ASSUME NEW r \in Request, ConfigureRequest(r)
          PROVE  RequestsInv'
      <3>1. RequestFits(request[r][1], asked[r])
        BY <2>3 DEF RequestsInv, RequestsFit, ConfigureRequest
      <3>2. PICK next, said :
              /\ request' = [request EXCEPT ![r] = <<next>>]
              /\ Say(r, said)
              /\ RequestFits(next, Over(said, asked[r]))
        BY <2>3, <3>1, RequestConfiguredAgain
      <3>3. PICK w, A : w = <<next>> /\ A = Over(said, asked[r])
        OBVIOUS
      <3>4. w # <<>> /\ w[1] = next
        BY <3>3
      <3>5. asked' = [asked EXCEPT ![r] = A]
        BY <3>2, <3>3 DEF Say
      <3>6. phase[r] = "open" /\ UNCHANGED <<builder, client, phase, answer>>
        BY <2>3 DEF ConfigureRequest
      <3> QED
        BY <3>2, <3>3, <3>4, <3>5, <3>6, RequestReplaced
    <2>4. CASE UNCHANGED vars
      BY <2>4 DEF vars, RequestsInv, Shapes, ClientsFit, RequestsFit, AnswersFinal
    <2> QED
      BY <2>1, <2>2, <2>3, <2>4, BuilderConfigured, ClientBuilt, RequestAdvances
      DEF Next
  <1> QED
    BY <1>1, <1>2, PTL DEF Spec

(* For every call made through the Rust client, in whatever order builders,  *)
(* clients and requests are configured, cloned and sent, the canister calls  *)
(* the providers with what was last asked, and traps only over a response    *)
(* size the caller gave (ClientBuilder, RequestBuilder, main.rs).            *)
THEOREM ForwardedAsAskedAlways == Spec => []ForwardedAsAsked
  <1>1. RequestsInv => ForwardedAsAsked
    <2> SUFFICES ASSUME RequestsInv, NEW r \in Request, answer[r] # <<>>
                 PROVE  LET a == answer[r][1]
                            estimate == Asked(r, "estimate")
                            sources == IF "sources" \in DOMAIN asked[r]
                                       THEN asked[r].sources ELSE "EthMainnet"
                        IN  CASE a.kind = "call" ->
                                   /\ a.sources = sources
                                   /\ a.strategy = UnwrapOr(Asked(r, "consensus"),
                                                            Equality)
                                   /\ estimate # None => a.size = estimate
                                   /\ \A f \in DOMAIN a.params :
                                        IF Asked(r, f) # None
                                        THEN a.params[f] = asked[r][f]
                                        ELSE IsBlock(f) => a.params[f] = Latest
                              [] a.kind = "trap" ->
                                   estimate = 0 \/ estimate > MaxPayload
                              [] OTHER -> TRUE
      BY DEF ForwardedAsAsked
    <2>1. PICK a, q, A : a = answer[r][1] /\ q = request[r][1] /\ A = asked[r]
      OBVIOUS
    <2>2. a = Handle(q) /\ RequestFits(q, A)
      BY <2>1 DEF RequestsInv, RequestsFit, AnswersFinal
    <2>3. AnswerFits(a, A)
      BY <2>2, HandledAsAsked
    <2>4. \A x : Asked(r, x) = Said(A, x)
      BY <2>1 DEF Asked, Said
    <2>5. CASE a.kind = "call"
      BY <2>1, <2>3, <2>4, <2>5 DEF AnswerFits, SourcesOf
    <2>6. CASE a.kind = "trap"
      BY <2>1, <2>3, <2>4, <2>6 DEF AnswerFits
    <2>7. CASE a.kind # "call" /\ a.kind # "trap"
      BY <2>1, <2>7
    <2> QED
      BY <2>5, <2>6, <2>7
  <1> QED
    BY <1>1, RequestsInductive, PTL

(* eth_getLogs is refused for its range when the blocks last asked for are   *)
(* further apart than the range last asked for, or the default, and only     *)
(* then (GetLogsArgs, GetLogsRpcConfig, CandidRpcClient::eth_get_logs).      *)
THEOREM RangeEnforcedAlways == Spec => []RangeEnforced
  <1>1. RequestsInv => RangeEnforced
    <2> SUFFICES ASSUME RequestsInv, NEW r \in Request, answer[r] # <<>>,
                        request[r][1].endpoint = "eth_getLogs"
                 PROVE  LET from == Asked(r, "fromBlock")
                            to == Asked(r, "toBlock")
                            max == UnwrapOr(Asked(r, "range"), DefaultRange)
                            far == /\ from >= 0 /\ to >= 0
                                   /\ (from - to > max \/ to - from > max)
                        IN  /\ answer[r][1].kind = "range" => far
                            /\ answer[r][1].kind \in {"call", "trap"} => ~far
      BY DEF RangeEnforced
    <2>1. PICK a, q, A : a = answer[r][1] /\ q = request[r][1] /\ A = asked[r]
      OBVIOUS
    <2>2. a = Handle(q) /\ RequestFits(q, A)
      BY <2>1 DEF RequestsInv, RequestsFit, AnswersFinal
    <2>3. /\ a.kind = "range" => Far(A)
          /\ a.kind \in {"call", "trap"} => ~Far(A)
      BY <2>1, <2>2, RangeAnswered
    <2>4. \A x : Asked(r, x) = Said(A, x)
      BY <2>1 DEF Asked, Said
    <2> QED
      BY <2>1, <2>3, <2>4 DEF Far
  <1> QED
    BY <1>1, RequestsInductive, PTL
=============================================================================
