-------------------------- MODULE ProvidersProofs --------------------------
(***************************************************************************)
(* Proofs about the table of providers and what is made of it: keys are    *)
(* sent where their provider takes them and nowhere else, calls panic for  *)
(* the reasons given only, every service is found by its name and by its   *)
(* id, and the labels of the metrics can be compared.                      *)
(***************************************************************************)
EXTENDS Providers, SequenceTheorems, FiniteSetTheorems, TLAPS

-----------------------------------------------------------------------------
(* The table. *)

Auth == {"BearerToken", "UrlParameter", "Unauthenticated"}

IsUrl(url) == url = Url(url.host, url.path)

(* What is to be known of the i-th entry of the table. *)
EntryOk(p, i) ==
  /\ p.id = i - 1
  /\ p.alias = Named(p.chain, p.alias.service)
  /\ p.alias \in SupportedRpcService
  /\ p.auth \in Auth
  /\ IsUrl(p.authUrl) /\ IsUrl(p.publicUrl)
  /\ HasHost(p.authUrl) /\ HasHost(p.publicUrl)
  /\ p.publicUrl = NoUrl => i = 7

(* The services of the networks. *)
LEMMA ServiceNames ==
  /\ \A s \in EthMainnetService : Named("EthMainnet", s) \in SupportedRpcService
  /\ \A s \in EthSepoliaService : Named("EthSepolia", s) \in SupportedRpcService
  /\ \A n \in L2Network, s \in L2MainnetService :
       Named(n, s) \in SupportedRpcService
  BY DEF SupportedRpcService

(* The first entries. *)
LEMMA TableFirst ==
  /\ Len(FirstProviders) = 12
  /\ \A i \in 1..12 : EntryOk(FirstProviders[i], i)
  <1>1. /\ Len(FirstProviders) = 12
        /\ \A i \in 1..12 : /\ FirstProviders[i].id = i - 1
                             /\ FirstProviders[i].auth \in Auth
    BY DEF FirstProviders, Bearer, Param, Open, Entry, Auth
  <1>2. \A i \in 1..12 : FirstProviders[i].publicUrl = NoUrl => i = 7
    BY DEF FirstProviders, Bearer, Param, Open, Entry, NoUrl, Url, Ankr
  <1>3. \A i \in 1..12 :
          FirstProviders[i].alias = Named(FirstProviders[i].chain, FirstProviders[i].alias.service)
    BY DEF FirstProviders, Bearer, Param, Open, Entry, Named
  <1>4. \A i \in 1..12 : FirstProviders[i].alias \in SupportedRpcService
    BY ServiceNames
    DEF FirstProviders, Bearer, Param, Open, Entry, EthMainnetService,
        EthSepoliaService, L2Network, L2MainnetService
  <1>5. \A i \in 1..12 : IsUrl(FirstProviders[i].authUrl) /\ IsUrl(FirstProviders[i].publicUrl)
    BY DEF FirstProviders, Bearer, Param, Open, Entry, IsUrl, Url, NoUrl, Ankr
  <1>6. \A i \in 1..12 : /\ HasHost(FirstProviders[i].authUrl)
                        /\ HasHost(FirstProviders[i].publicUrl)
    BY DEF FirstProviders, Bearer, Param, Open, Entry, HasHost, Url, NoUrl, Ankr,
           Malformed, Hostless
  <1> QED
    BY <1>1, <1>2, <1>3, <1>4, <1>5, <1>6 DEF EntryOk

(* The last entries. *)
LEMMA TableLast ==
  /\ Len(LastProviders) = 14
  /\ \A i \in 1..14 : EntryOk(LastProviders[i], i + 12)
  <1>1. /\ Len(LastProviders) = 14
        /\ \A i \in 1..14 : /\ LastProviders[i].id = i + 12 - 1
                             /\ LastProviders[i].auth \in Auth
    BY DEF LastProviders, Bearer, Param, Open, Entry, Auth
  <1>2. \A i \in 1..14 : LastProviders[i].publicUrl = NoUrl => i + 12 = 7
    BY DEF LastProviders, Bearer, Param, Open, Entry, NoUrl, Url, Ankr
  <1>3. \A i \in 1..14 :
          LastProviders[i].alias = Named(LastProviders[i].chain, LastProviders[i].alias.service)
    BY DEF LastProviders, Bearer, Param, Open, Entry, Named
  <1>4. \A i \in 1..14 : LastProviders[i].alias \in SupportedRpcService
    BY ServiceNames
    DEF LastProviders, Bearer, Param, Open, Entry, EthMainnetService,
        EthSepoliaService, L2Network, L2MainnetService
  <1>5. \A i \in 1..14 : IsUrl(LastProviders[i].authUrl) /\ IsUrl(LastProviders[i].publicUrl)
    BY DEF LastProviders, Bearer, Param, Open, Entry, IsUrl, Url, NoUrl, Ankr
  <1>6. \A i \in 1..14 : /\ HasHost(LastProviders[i].authUrl)
                        /\ HasHost(LastProviders[i].publicUrl)
    BY DEF LastProviders, Bearer, Param, Open, Entry, HasHost, Url, NoUrl, Ankr,
           Malformed, Hostless
  <1> QED
    BY <1>1, <1>2, <1>3, <1>4, <1>5, <1>6 DEF EntryOk

(* All entries. *)
LEMMA Table ==
  /\ DOMAIN PROVIDERS = 1..26 /\ Len(PROVIDERS) = 26
  /\ \A i \in 1..12 : PROVIDERS[i] = FirstProviders[i]
  /\ \A i \in 13..26 : PROVIDERS[i] = LastProviders[i - 12]
  /\ \A i \in 1..26 : EntryOk(PROVIDERS[i], i)
  <1>1. PICK S : FirstProviders \in Seq(S) /\ LastProviders \in Seq(S)
    <2>1. PICK S : S = {FirstProviders[i] : i \in 1..12}
                       \cup {LastProviders[i] : i \in 1..14}
      OBVIOUS
    <2>2. FirstProviders \in Seq(S)
      BY <2>1 DEF FirstProviders
    <2>3. LastProviders \in Seq(S)
      BY <2>1 DEF LastProviders
    <2> QED
      BY <2>2, <2>3
  <1>2. /\ DOMAIN PROVIDERS = 1..26 /\ Len(PROVIDERS) = 26
        /\ \A i \in 1..12 : PROVIDERS[i] = FirstProviders[i]
        /\ \A i \in 13..26 : PROVIDERS[i] = LastProviders[i - 12]
    <2>1. ASSUME NEW F \in Seq(S), NEW L \in Seq(S), Len(F) = 12, Len(L) = 14
          PROVE  /\ Len(F \o L) = 26 /\ DOMAIN (F \o L) = 1..26
                 /\ \A i \in 1..12 : (F \o L)[i] = F[i]
                 /\ \A i \in 13..26 : (F \o L)[i] = L[i - 12]
      <3>1. /\ F \o L \in Seq(S) /\ Len(F \o L) = Len(F) + Len(L)
            /\ \A i \in 1..(Len(F) + Len(L)) :
                 (F \o L)[i] = IF i <= Len(F) THEN F[i] ELSE L[i - Len(F)]
        BY ConcatProperties
      <3>2. PICK C : C = F \o L
        OBVIOUS
      <3>3. /\ C \in Seq(S) /\ Len(C) = 26
            /\ \A i \in 1..26 : C[i] = IF i <= 12 THEN F[i] ELSE L[i - 12]
        <4>1. Len(F) + Len(L) = 26
          BY <2>1
        <4>2. C \in Seq(S) /\ Len(C) = 26
          BY <3>1, <3>2, <4>1
        <4>3. ASSUME NEW i \in 1..26
              PROVE  C[i] = IF i <= 12 THEN F[i] ELSE L[i - 12]
          <5>1. C[i] = IF i <= Len(F) THEN F[i] ELSE L[i - Len(F)]
            BY <3>1, <3>2, <4>1, Zenon
          <5> QED
            BY <2>1, <5>1
        <4> QED
          BY <4>2, <4>3
      <3>4. /\ DOMAIN C = 1..26 /\ \A i \in 1..12 : C[i] = F[i]
            /\ \A i \in 13..26 : C[i] = L[i - 12]
        BY <3>3
      <3> QED
        BY <3>2, <3>3, <3>4
    <2> QED
      BY <1>1, <2>1, TableFirst, TableLast DEF PROVIDERS
  <1>3. ASSUME NEW i \in 1..26
        PROVE  EntryOk(PROVIDERS[i], i)
    <2>1. CASE i \in 1..12
      BY <1>2, <2>1, TableFirst
    <2>2. CASE i \in 13..26
      <3>1. PICK j \in 1..14 : i = j + 12 /\ j = i - 12
        BY <2>2
      <3> QED
        BY <1>2, <2>2, <3>1, TableLast
    <2> QED
      BY <2>1, <2>2
  <1> QED
    BY <1>2, <1>3

(* No two entries are of the same service. *)
LEMMA AliasesDiffer ==
  ASSUME NEW i \in 1..26, NEW j \in 1..26, PROVIDERS[i].alias = PROVIDERS[j].alias
  PROVE  i = j
  <1>1. ASSUME NEW k \in 1..12, NEW l \in 1..12,
               FirstProviders[k].alias = FirstProviders[l].alias
        PROVE  k = l
    BY <1>1 DEF FirstProviders, Bearer, Param, Open, Entry, Named
  <1>2. ASSUME NEW k \in 1..14, NEW l \in 1..14,
               LastProviders[k].alias = LastProviders[l].alias
        PROVE  k = l
    BY <1>2 DEF LastProviders, Bearer, Param, Open, Entry, Named
  <1>3. ASSUME NEW k \in 1..12, NEW l \in 1..14,
               FirstProviders[k].alias = LastProviders[l].alias
        PROVE  FALSE
    BY <1>3 DEF FirstProviders, LastProviders, Bearer, Param, Open, Entry, Named
  <1>4. ASSUME NEW k \in 13..26
        PROVE  \E l \in 1..14 : k = l + 12 /\ PROVIDERS[k] = LastProviders[l]
    <2>1. k - 12 \in 1..14 /\ k = (k - 12) + 12
      OBVIOUS
    <2> QED
      BY <2>1, Table
  <1>5. \A k \in 1..12 : PROVIDERS[k] = FirstProviders[k]
    BY Table
  <1>6. CASE i \in 1..12 /\ j \in 1..12
    BY <1>1, <1>5, <1>6
  <1>7. CASE i \in 1..12 /\ j \in 13..26
    <2>1. PICK l \in 1..14 : PROVIDERS[j] = LastProviders[l]
      BY <1>4, <1>7
    <2>2. FirstProviders[i].alias = LastProviders[l].alias
      BY <1>5, <1>7, <2>1
    <2> QED
      BY <1>3, <1>7, <2>2
  <1>8. CASE i \in 13..26 /\ j \in 1..12
    <2>1. PICK l \in 1..14 : PROVIDERS[i] = LastProviders[l]
      BY <1>4, <1>8
    <2>2. FirstProviders[j].alias = LastProviders[l].alias
      BY <1>5, <1>8, <2>1
    <2> QED
      BY <1>3, <1>8, <2>2
  <1>9. CASE i \in 13..26 /\ j \in 13..26
    <2>1. PICK k \in 1..14 : i = k + 12 /\ PROVIDERS[i] = LastProviders[k]
      BY <1>4, <1>9
    <2>2. PICK l \in 1..14 : j = l + 12 /\ PROVIDERS[j] = LastProviders[l]
      BY <1>4, <1>9
    <2>3. k = l
      BY <1>2, <2>1, <2>2
    <2> QED
      BY <2>1, <2>2, <2>3
  <1> QED
    BY <1>6, <1>7, <1>8, <1>9

(* Every service has an entry. *)
LEMMA ServicesListed ==
  ASSUME NEW s \in SupportedRpcService
  PROVE  \E i \in 1..26 : PROVIDERS[i].alias = s
  <1>1. \/ \E i \in 1..12 : FirstProviders[i].alias = s
        \/ \E i \in 1..14 : LastProviders[i].alias = s
    BY DEF SupportedRpcService, EthMainnetService, EthSepoliaService, L2Network,
           L2MainnetService, FirstProviders, LastProviders, Bearer, Param, Open,
           Entry
  <1>2. ASSUME NEW i \in 1..14
        PROVE  i + 12 \in 1..26 /\ PROVIDERS[i + 12] = LastProviders[i]
    BY Table
  <1> QED
    BY <1>1, <1>2, Table

-----------------------------------------------------------------------------
(* The maps made of the table. *)

(* The only element of a set is its largest and its smallest. *)
LEMMA OnlyElement ==
  ASSUME NEW i \in Nat
  PROVE  Max({i}) = i /\ Min({i}) = i
  BY DEF Max, Min

(* Ids are places in the table. *)
LEMMA IdsArePlaces == ProviderId = 0..25
  <1>1. \A i \in 1..26 : PROVIDERS[i].id = i - 1
    BY Table DEF EntryOk
  <1>2. ASSUME NEW n \in 0..25 PROVE n \in ProviderId
    <2>1. n + 1 \in 1..26 /\ (n + 1) - 1 = n
      OBVIOUS
    <2> QED
      BY <1>1, <2>1, Table DEF ProviderId
  <1>3. ASSUME NEW n \in ProviderId PROVE n \in 0..25
    BY <1>1, Table DEF ProviderId
  <1> QED
    BY <1>2, <1>3

(* The maps lead from an id and from an alias to the one entry with it. *)
LEMMA Maps ==
  ASSUME NEW i \in 1..26
  PROVE  /\ PROVIDERS[i].id = i - 1
         /\ i - 1 \in ProviderId
         /\ PROVIDER_MAP[i - 1] = PROVIDERS[i]
         /\ FindProvider(i - 1) = PROVIDERS[i]
         /\ PROVIDERS[i].alias \in DOMAIN SERVICE_PROVIDER_MAP
         /\ SERVICE_PROVIDER_MAP[PROVIDERS[i].alias] = i - 1
  <1>1. \A j \in 1..26 : PROVIDERS[j].id = j - 1
    BY Table DEF EntryOk
  <1>2. i - 1 \in ProviderId
    BY IdsArePlaces
  <1>3. {j \in 1..Len(PROVIDERS) : PROVIDERS[j].id = i - 1} = {i}
    <2>1. Len(PROVIDERS) = 26
      BY Table
    <2> QED
      BY <1>1, <2>1
  <1>4. PICK id : id = i - 1
    OBVIOUS
  <1>5. PROVIDER_MAP[id] = PROVIDERS[i] /\ FindProvider(id) = PROVIDERS[i]
    <2>1. {j \in 1..Len(PROVIDERS) : PROVIDERS[j].id = id} = {i}
      BY <1>3, <1>4
    <2>2. PROVIDER_MAP[id] = PROVIDERS[i]
      BY <1>2, <1>4, <2>1, OnlyElement
      DEF PROVIDER_MAP, LastWith, SelectLastInSeq
    <2>3. FindProvider(id) = PROVIDERS[i]
      <3>1. Min({i}) = i /\ {i} # {}
        BY OnlyElement
      <3>2. SelectInSeq(PROVIDERS, LAMBDA p : p.id = id) = i
        BY <2>1, <3>1 DEF SelectInSeq
      <3> QED
        BY <3>2 DEF FindProvider
    <2> QED
      BY <2>2, <2>3
  <1>6. PROVIDERS[i].alias \in DOMAIN SERVICE_PROVIDER_MAP
    BY Table DEF SERVICE_PROVIDER_MAP
  <1>7. {j \in 1..Len(PROVIDERS) : PROVIDERS[j].alias = PROVIDERS[i].alias} = {i}
    <2>1. Len(PROVIDERS) = 26
      BY Table
    <2>2. \A j \in 1..26 : PROVIDERS[j].alias = PROVIDERS[i].alias => j = i
      BY AliasesDiffer
    <2> QED
      BY <2>1, <2>2
  <1>8. SERVICE_PROVIDER_MAP[PROVIDERS[i].alias] = PROVIDERS[i].id
    BY <1>6, <1>7, OnlyElement DEF SERVICE_PROVIDER_MAP, LastWith, SelectLastInSeq
  <1> QED
    BY <1>1, <1>2, <1>4, <1>5, <1>6, <1>8

(* A named service is of a network, not an id and not a custom one. *)
LEMMA NamesAreNetworks ==
  ASSUME NEW s \in SupportedRpcService
  PROVE  /\ s = Named(s.network, s.service)
         /\ s.network \in {"EthMainnet", "EthSepolia"} \cup L2Network
         /\ s.network # "Custom" /\ s.network # "Provider"
  BY DEF SupportedRpcService, Named, L2Network

-----------------------------------------------------------------------------
(* Requests. *)

(* What is known of the entry with an id. *)
LEMMA EntryOf ==
  ASSUME NEW id \in ProviderId
  PROVE  /\ PROVIDER_MAP[id].id = id /\ id \in Nat
         /\ PROVIDER_MAP[id].auth \in Auth
         /\ IsUrl(PROVIDER_MAP[id].authUrl) /\ IsUrl(PROVIDER_MAP[id].publicUrl)
         /\ HasHost(PROVIDER_MAP[id].authUrl) /\ HasHost(PROVIDER_MAP[id].publicUrl)
         /\ PROVIDER_MAP[id].publicUrl = NoUrl => id = 6
         /\ PROVIDER_MAP[id].alias \in SupportedRpcService
         /\ PROVIDER_MAP[id].alias.network = PROVIDER_MAP[id].chain
         /\ PROVIDER_MAP[id].alias \in DOMAIN SERVICE_PROVIDER_MAP
         /\ SERVICE_PROVIDER_MAP[PROVIDER_MAP[id].alias] = id
         /\ FindProvider(id) = PROVIDER_MAP[id]
  <1>1. PICK i \in 1..26 : i - 1 = id
    <2>1. id + 1 \in 1..26 /\ (id + 1) - 1 = id
      BY IdsArePlaces
    <2> QED
      BY <2>1
  <1>2. PICK p : p = PROVIDERS[i]
    OBVIOUS
  <1>3. /\ p.id = id /\ PROVIDER_MAP[id] = p /\ FindProvider(id) = p
        /\ p.alias \in DOMAIN SERVICE_PROVIDER_MAP
        /\ SERVICE_PROVIDER_MAP[p.alias] = id
    BY <1>1, <1>2, Maps
  <1>4. EntryOk(p, i)
    BY <1>2, Table
  <1>5. p.alias.network = p.chain
    BY <1>4 DEF EntryOk, Named
  <1>6. p.publicUrl = NoUrl => id = 6
    BY <1>1, <1>4 DEF EntryOk
  <1> QED
    BY <1>1, <1>3, <1>4, <1>5, <1>6 DEF EntryOk

(* The entry without a public URL. *)
LEMMA EntrySix ==
  /\ 6 \in Keyed /\ PROVIDER_MAP[6].auth # "Unauthenticated"
  /\ PROVIDER_MAP[6].alias = Named("EthSepolia", "BlockPi")
  <1>1. PROVIDER_MAP[7 - 1] = PROVIDERS[7] /\ 7 - 1 \in ProviderId
    BY Maps
  <1>2. /\ PROVIDERS[7].alias = Named("EthSepolia", "BlockPi")
        /\ PROVIDERS[7].auth = "UrlParameter"
    <2>1. /\ FirstProviders[7].alias = Named("EthSepolia", "BlockPi")
          /\ FirstProviders[7].auth = "UrlParameter"
      BY DEF FirstProviders, Param, Entry
    <2> QED
      BY <2>1, Table
  <1> QED
    BY <1>1, <1>2 DEF Keyed

(* The service s is found as the entry id, by its name or by its id. *)
FoundAs(s, id) ==
  /\ id \in ProviderId
  /\ s = ById(id) \/ s = PROVIDER_MAP[id].alias
  /\ Resolve(s) = ProviderApi(PROVIDER_MAP[id])
  /\ Supported(s) = {PROVIDER_MAP[id].alias}

(* An entry is found by its name and by its id. *)
LEMMA Found ==
  ASSUME NEW id \in ProviderId
  PROVE  FoundAs(ById(id), id) /\ FoundAs(PROVIDER_MAP[id].alias, id)
  <1>1. FoundAs(ById(id), id)
    BY EntryOf DEF FoundAs, ById, Resolve, Supported
  <1>2. PICK s : s = PROVIDER_MAP[id].alias
    OBVIOUS
  <1>3. /\ s \in SupportedRpcService /\ s \in DOMAIN SERVICE_PROVIDER_MAP
        /\ SERVICE_PROVIDER_MAP[s] = id
    BY <1>2, EntryOf
  <1>4. s.network # "Custom" /\ s.network # "Provider"
    BY <1>3, NamesAreNetworks
  <1>5. Resolve(s) = ProviderApi(PROVIDER_MAP[id]) /\ Supported(s) = {s}
    BY <1>3, <1>4 DEF Resolve, Supported
  <1> QED
    BY <1>1, <1>2, <1>5 DEF FoundAs

(* Every service of the enums is found. *)
LEMMA NamesFound ==
  ASSUME NEW s \in SupportedRpcService
  PROVE  /\ s \in DOMAIN SERVICE_PROVIDER_MAP
         /\ FoundAs(s, SERVICE_PROVIDER_MAP[s])
         /\ PROVIDER_MAP[SERVICE_PROVIDER_MAP[s]].alias = s
  <1>1. PICK i \in 1..26 : PROVIDERS[i].alias = s
    BY ServicesListed
  <1>2. PICK id : id = i - 1
    OBVIOUS
  <1>3. /\ s \in DOMAIN SERVICE_PROVIDER_MAP /\ SERVICE_PROVIDER_MAP[s] = id
        /\ id \in ProviderId /\ PROVIDER_MAP[id].alias = s
    BY <1>1, <1>2, Maps
  <1> QED
    BY <1>3, Found

(* The request to a service of the caller. *)
CustomApi(s) == Api(Url(s.service, "custom"), s.header, 0, -3)

(* A service is found in the table, or not, or is the caller's own. *)
LEMMA Resolutions ==
  ASSUME NEW s, IsRpcService(s)
  PROVE  \/ \E id : FoundAs(s, id)
         \/ Resolve(s) = NotFound /\ Supported(s) = {}
         \/ /\ Resolve(s) = CustomApi(s) /\ Supported(s) = {}
            /\ s.network = "Custom"
  <1>1. CASE s \in SupportedRpcService
    BY <1>1, NamesFound
  <1>2. CASE s = ById(s.service)
    <2>1. PICK id : id = s.service
      OBVIOUS
    <2>2. s = ById(id) /\ s.network = "Provider"
      BY <1>2, <2>1 DEF ById
    <2>3. CASE id \in ProviderId
      BY <2>2, <2>3, Found
    <2>4. CASE id \notin ProviderId
      BY <2>1, <2>2, <2>4 DEF Resolve, Supported
    <2> QED
      BY <2>3, <2>4
  <1>3. CASE s = Custom(s.service, s.header)
    <2>1. s.network = "Custom"
      BY <1>3 DEF Custom
    <2> QED
      BY <2>1 DEF Resolve, Supported, CustomApi
  <1> QED
    BY <1>1, <1>2, <1>3 DEF IsRpcService

(* The overrides there are. *)
Kinds == {"none", "noMatch", "host", "all", "stripsHost", "garbles"}

(* The key in a request made under an override is sent as it may be. *)
KeyOk(a, kind) ==
  /\ a.header # 0 => kind = "none"
  /\ a.header # 0 /\ a.owner \in ProviderId =>
       /\ PROVIDER_MAP[a.owner].auth = "BearerToken"
       /\ a.url = PROVIDER_MAP[a.owner].authUrl
  /\ a.secret # 0 =>
       /\ PROVIDER_MAP[a.owner].auth = "UrlParameter"
       /\ a.url.path = PROVIDER_MAP[a.owner].authUrl.path
       /\ a.url.host = PROVIDER_MAP[a.owner].authUrl.host \/ kind = "host"

(* What OverrideProvider::apply leaves of the keys in a request. *)
LEMMA Overridden ==
  ASSUME override \in Kinds, NEW url, NEW header, NEW secret, NEW owner,
         NEW a, a = Api(url, header, secret, owner), IsUrl(url),
         owner \notin {-1, -2}
  PROVE  /\ ApplyOverride(a).owner = owner
         /\ override = "none" => ApplyOverride(a) = a
         /\ override # "none" => ApplyOverride(a).header = 0
         /\ override = "noMatch" => /\ ApplyOverride(a).url = url
                                    /\ ApplyOverride(a).secret = secret
         /\ override = "host" => /\ ApplyOverride(a).url.path = url.path
                                 /\ ApplyOverride(a).secret = secret
         /\ override \in {"all", "garbles"} => ApplyOverride(a).secret = 0
         /\ secret = 0 => ApplyOverride(a).secret = 0
  <1>1. a \notin {Panics, NotFound}
    BY DEF Panics, NotFound, Api
  <1>2. CASE override = "none"
    BY <1>2 DEF ApplyOverride, Api
  <1>3. CASE override = "noMatch"
    BY <1>1, <1>3 DEF ApplyOverride, Substitute, Api
  <1>4. CASE override = "host"
    BY <1>1, <1>4 DEF ApplyOverride, Substitute, Api, Url, IsUrl
  <1>5. CASE override = "all"
    BY <1>1, <1>5 DEF ApplyOverride, Substitute, Api, Url, IsUrl
  <1>6. CASE override = "stripsHost"
    BY <1>1, <1>6 DEF ApplyOverride, Substitute, Api, Url, IsUrl
  <1>7. CASE override = "garbles"
    BY <1>1, <1>7 DEF ApplyOverride, Substitute, Api, Url, IsUrl
  <1> QED
    BY <1>2, <1>3, <1>4, <1>5, <1>6, <1>7 DEF Kinds

(* What it leaves of the host. *)
LEMMA HostsReplaced ==
  ASSUME override \in Kinds, NEW url, NEW header, NEW secret, NEW owner,
         NEW a, a = Api(url, header, secret, owner), IsUrl(url),
         owner \notin {-1, -2}
  PROVE  /\ override = "all" => ApplyOverride(a).url.host = "localhost"
         /\ override = "garbles" => ApplyOverride(a).url.host = Malformed
         /\ override \in {"host", "stripsHost"} /\ ~HasHost(url) =>
              ApplyOverride(a).url = url
         /\ override = "host" /\ HasHost(url) =>
              ApplyOverride(a).url.host = "localhost"
         /\ override = "stripsHost" /\ HasHost(url) =>
              ApplyOverride(a).url.host = Hostless
  <1>1. a \notin {Panics, NotFound}
    BY DEF Panics, NotFound, Api
  <1>2. CASE override = "host" \/ override = "stripsHost"
    BY <1>1, <1>2 DEF ApplyOverride, Substitute, Api, Url, IsUrl
  <1>3. CASE override = "all" \/ override = "garbles"
    BY <1>1, <1>3 DEF ApplyOverride, Substitute, Api, Url, IsUrl
  <1> QED
    BY <1>2, <1>3

(* Provider::api, in terms of the entry. *)
LEMMA ProviderApis ==
  ASSUME NEW id \in ProviderId, NEW p, p = PROVIDER_MAP[id]
  PROVE  \/ /\ p.auth = "BearerToken" /\ keys[id] # 0
            /\ ProviderApi(p) = Api(p.authUrl, keys[id], 0, id)
         \/ /\ p.auth = "UrlParameter" /\ keys[id] # 0
            /\ ProviderApi(p) = Api(p.authUrl, 0, keys[id], id)
         \/ /\ p.publicUrl # NoUrl
            /\ p.auth = "Unauthenticated" \/ keys[id] = 0
            /\ ProviderApi(p) = Api(p.publicUrl, 0, 0, id)
         \/ /\ id = 6 /\ keys[id] = 0
            /\ ProviderApi(p) = Panics
  <1>1. /\ p.id = id /\ p.auth \in Auth
        /\ p.publicUrl = NoUrl => id = 6
    BY EntryOf
  <1>2. CASE p.auth # "Unauthenticated" /\ keys[id] # 0
    <2>1. CASE p.auth = "BearerToken"
      BY <1>1, <1>2, <2>1 DEF ProviderApi
    <2>2. CASE p.auth = "UrlParameter"
      BY <1>1, <1>2, <2>2 DEF ProviderApi
    <2> QED
      BY <1>1, <1>2, <2>1, <2>2 DEF Auth
  <1>3. CASE p.auth = "Unauthenticated" \/ keys[id] = 0
    <2>1. CASE p.publicUrl # NoUrl
      BY <1>1, <1>3, <2>1 DEF ProviderApi
    <2>2. CASE p.publicUrl = NoUrl
      <3>1. id = 6 /\ keys[id] = 0
        BY <1>1, <1>3, <2>2, EntrySix
      <3> QED
        BY <1>1, <1>3, <2>2, <3>1 DEF ProviderApi
    <2> QED
      BY <2>1, <2>2
  <1> QED
    BY <1>2, <1>3

(* A request that is sent names a host. *)
LEMMA SentHasHost ==
  ASSUME NEW endpoint, NEW a, Outcome(endpoint, a) = "sent"
  PROVE  a # Panics /\ a # NotFound /\ HasHost(a.url)
  BY DEF Outcome, Builds, HasHost

(* What makes a request panic. *)
LEMMA PanicOutcomes ==
  ASSUME NEW endpoint, NEW a
  PROVE  /\ a = Panics => Outcome(endpoint, a) = "panic"
         /\ Outcome(endpoint, a) = "panic" /\ a # Panics =>
              /\ a # NotFound
              /\ \/ a.url.host = Malformed /\ endpoint = "eth"
                 \/ a.header = BadHeader /\ endpoint = "eth"
                 \/ a.url.host = Hostless
  <1>1. a = Panics => Outcome(endpoint, a) = "panic"
    BY DEF Outcome
  <1>2. ASSUME Outcome(endpoint, a) = "panic", a # Panics
        PROVE  /\ a # NotFound
               /\ Builds(a) => ~HasHost(a.url)
               /\ ~Builds(a) => endpoint = "eth"
    BY <1>2 DEF Outcome
  <1> QED
    BY <1>1, <1>2 DEF Builds, HasHost

(* Keys are sent as they may be in every request that is made. *)
LEMMA KeysSentOk ==
  ASSUME override \in Kinds, NEW s, IsRpcService(s), HasHost(RequestTo(s).url)
  PROVE  KeyOk(RequestTo(s), override)
  <1>1. PICK b : b = Resolve(s)
    OBVIOUS
  <1>2. PICK a : a = RequestTo(s) /\ a = ApplyOverride(b)
    BY <1>1 DEF RequestTo
  <1>3. CASE b = NotFound \/ b = Panics
    <2>1. a = b
      BY <1>2, <1>3 DEF ApplyOverride
    <2>2. a.header = 0 /\ a.secret = 0
      BY <1>3, <2>1 DEF NotFound, Panics, Api
    <2> QED
      BY <1>2, <2>2 DEF KeyOk
  <1>4. CASE b = CustomApi(s)
    <2>1. PICK url, header : /\ b = Api(url, header, 0, -3) /\ IsUrl(url)
                             /\ b.secret = 0 /\ b.owner = -3
      BY <1>4 DEF CustomApi, Api, Url, IsUrl
    <2>2. /\ a.owner = -3 /\ a.secret = 0
          /\ override # "none" => a.header = 0
      BY <1>2, <2>1, Overridden DEF Kinds
    <2>3. -3 \notin ProviderId
      BY IdsArePlaces
    <2> QED
      BY <1>2, <2>2, <2>3 DEF KeyOk
  <1>5. ASSUME NEW id, FoundAs(s, id), b # Panics
        PROVE  KeyOk(a, override)
    <2>1. PICK p : p = PROVIDER_MAP[id]
      OBVIOUS
    <2>2. /\ id \in ProviderId /\ b = ProviderApi(p)
          /\ IsUrl(p.authUrl) /\ IsUrl(p.publicUrl) /\ id \notin {-1, -2}
          /\ HasHost(p.authUrl)
      BY <1>1, <1>5, <2>1, EntryOf DEF FoundAs
    <2>3. CASE p.auth = "BearerToken" /\ b = Api(p.authUrl, keys[id], 0, id)
      <3>1. PICK url, header : url = p.authUrl /\ header = keys[id]
        OBVIOUS
      <3>2. /\ b = Api(url, header, 0, id) /\ IsUrl(url)
            /\ b.url = url /\ b.secret = 0
        BY <2>2, <2>3, <3>1 DEF Api
      <3>3. /\ a.owner = id /\ a.secret = 0
            /\ override = "none" => a.url = url
            /\ override # "none" => a.header = 0
        BY <1>2, <2>2, <3>2, Overridden DEF Kinds
      <3> QED
        BY <2>1, <2>3, <3>1, <3>3 DEF KeyOk
    <2>4. CASE p.auth = "UrlParameter" /\ b = Api(p.authUrl, 0, keys[id], id)
      <3>1. PICK url, secret : url = p.authUrl /\ secret = keys[id]
        OBVIOUS
      <3>2. /\ b = Api(url, 0, secret, id) /\ IsUrl(url)
            /\ b.url = url /\ b.header = 0
        BY <2>2, <2>4, <3>1 DEF Api
      <3>3. /\ a.owner = id /\ a.header = 0
            /\ override \in {"none", "noMatch"} => a.url = url
            /\ override = "host" => a.url.path = url.path
            /\ override \in {"all", "garbles"} => a.secret = 0
        BY <1>2, <2>2, <3>2, Overridden DEF Kinds
      <3>4. override # "stripsHost"
        BY <1>2, <2>2, <3>1, <3>2, HostsReplaced DEF HasHost
      <3> QED
        BY <2>1, <2>4, <3>1, <3>3, <3>4 DEF KeyOk, Kinds
    <2>5. CASE b = Api(p.publicUrl, 0, 0, id)
      <3>1. PICK url : url = p.publicUrl
        OBVIOUS
      <3>2. /\ b = Api(url, 0, 0, id) /\ IsUrl(url)
            /\ b.header = 0 /\ b.secret = 0
        BY <2>2, <2>5, <3>1 DEF Api
      <3>3. a.header = 0 /\ a.secret = 0
        BY <1>2, <2>2, <3>2, Overridden DEF Kinds
      <3> QED
        BY <3>3 DEF KeyOk
    <2> QED
      BY <1>5, <2>1, <2>2, <2>3, <2>4, <2>5, ProviderApis
  <1> QED
    BY <1>1, <1>2, <1>3, <1>4, <1>5, Resolutions

(* Only the entry without a public URL makes the building of a request panic. *)
LEMMA PanicsOnlySix ==
  ASSUME override \in Kinds, NEW s, IsRpcService(s), RequestTo(s) = Panics
  PROVE  /\ s \in {Named("EthSepolia", "BlockPi"), ById(6)}
         /\ FoundAs(s, 6) /\ keys[6] = 0
  <1>1. PICK b : b = Resolve(s) /\ ApplyOverride(b) = Panics
    BY DEF RequestTo
  <1>2. Panics.owner = -1 /\ NotFound.owner = -2
    BY DEF Panics, NotFound, Api
  <1>3. b # NotFound
    BY <1>1, <1>2 DEF ApplyOverride
  <1>4. ASSUME NEW url, NEW header, NEW secret, NEW owner, IsUrl(url),
               b = Api(url, header, secret, owner), owner \notin {-1, -2}
        PROVE  FALSE
    BY <1>1, <1>2, <1>4, Overridden
  <1>5. b # CustomApi(s)
    <2>1. IsUrl(Url(s.service, "custom")) /\ -3 \notin {-1, -2}
      BY DEF IsUrl, Url
    <2> QED
      BY <1>4, <2>1 DEF CustomApi
  <1>6. PICK id : FoundAs(s, id)
    BY <1>1, <1>3, <1>5, Resolutions
  <1>7. PICK p : p = PROVIDER_MAP[id]
    OBVIOUS
  <1>8. /\ id \in ProviderId /\ b = ProviderApi(p)
        /\ IsUrl(p.authUrl) /\ IsUrl(p.publicUrl) /\ id \notin {-1, -2}
    BY <1>1, <1>6, <1>7, EntryOf DEF FoundAs
  <1>9. id = 6 /\ keys[id] = 0
    BY <1>4, <1>7, <1>8, ProviderApis
  <1> QED
    BY <1>6, <1>9, EntrySix DEF FoundAs

(* Where a request that cannot be sent gets its fault from: an override, or   *)
(* the caller's own service; the table and valid keys have none.              *)
LEMMA Faults ==
  ASSUME override \in Kinds, keys \in [Keyed -> Nat], NEW s, IsRpcService(s),
         RequestTo(s) # Panics, RequestTo(s) # NotFound
  PROVE  /\ RequestTo(s).url.host = Malformed =>
              \/ override = "garbles"
              \/ s.network = "Custom" /\ s.service = Malformed /\ override # "all"
         /\ RequestTo(s).url.host = Hostless =>
              \/ override = "stripsHost"
              \/ s.network = "Custom" /\ s.service = Hostless /\ override # "all"
         /\ RequestTo(s).header = BadHeader =>
              s.network = "Custom" /\ s.header = BadHeader /\ override = "none"
  <1>1. PICK b : b = Resolve(s)
    OBVIOUS
  <1>2. PICK a : a = RequestTo(s) /\ a = ApplyOverride(b)
    BY <1>1 DEF RequestTo
  <1>3. b # Panics /\ b # NotFound
    BY <1>2 DEF ApplyOverride
  <1>4. BadHeader # 0 /\ BadHeader \notin Nat
    BY DEF BadHeader
  <1>5. /\ Malformed # "localhost" /\ Hostless # "localhost"
        /\ Malformed # Hostless
    BY DEF Malformed, Hostless
  <1>6. ASSUME NEW url, NEW header, NEW secret, NEW owner, IsUrl(url),
               b = Api(url, header, secret, owner), owner \notin {-1, -2}
        PROVE  /\ a.url.host = Malformed =>
                    override = "garbles" \/ (url.host = Malformed /\ override # "all")
               /\ a.url.host = Hostless =>
                    override = "stripsHost" \/ (url.host = Hostless /\ override # "all")
               /\ a.header = BadHeader => header = BadHeader /\ override = "none"
    <2>1. b.url = url /\ b.header = header
      BY <1>6 DEF Api
    <2>2. a.header = BadHeader => header = BadHeader /\ override = "none"
      BY <1>2, <1>4, <1>6, <2>1, Overridden
    <2>3. CASE override \in {"none", "noMatch"}
      <3>1. a.url = url
        BY <1>2, <1>6, <2>1, <2>3, Overridden
      <3> QED
        BY <2>2, <2>3, <3>1
    <2>4. CASE override = "all" \/ override = "garbles"
      <3>1. a.url.host = IF override = "all" THEN "localhost" ELSE Malformed
        BY <1>2, <1>6, <2>4, HostsReplaced
      <3> QED
        BY <1>5, <2>2, <2>4, <3>1
    <2>5. CASE override \in {"host", "stripsHost"}
      <3>1. CASE HasHost(url)
        <4>1. a.url.host = IF override = "host" THEN "localhost" ELSE Hostless
          BY <1>2, <1>6, <2>5, <3>1, HostsReplaced
        <4> QED
          BY <1>5, <2>2, <2>5, <4>1
      <3>2. CASE ~HasHost(url)
        <4>1. a.url = url
          BY <1>2, <1>6, <2>5, <3>2, HostsReplaced
        <4> QED
          BY <2>2, <2>5, <4>1
      <3> QED
        BY <3>1, <3>2
    <2> QED
      BY <2>3, <2>4, <2>5 DEF Kinds
  <1>7. CASE b = CustomApi(s) /\ s.network = "Custom"
    <2>1. PICK url, header : /\ b = Api(url, header, 0, -3) /\ IsUrl(url)
                             /\ url.host = s.service /\ header = s.header
      BY <1>7 DEF CustomApi, Url, IsUrl
    <2>2. -3 \notin {-1, -2}
      OBVIOUS
    <2>3. /\ a.url.host = Malformed =>
               override = "garbles" \/ (url.host = Malformed /\ override # "all")
          /\ a.url.host = Hostless =>
               override = "stripsHost" \/ (url.host = Hostless /\ override # "all")
          /\ a.header = BadHeader => header = BadHeader /\ override = "none"
      BY <1>6, <2>1, <2>2
    <2> QED
      BY <1>2, <1>7, <2>1, <2>3
  <1>8. ASSUME NEW id, FoundAs(s, id)
        PROVE  \E url, header, secret :
                 /\ b = Api(url, header, secret, id) /\ IsUrl(url) /\ HasHost(url)
                 /\ header # BadHeader /\ id \notin {-1, -2}
    <2>1. PICK p : p = PROVIDER_MAP[id]
      OBVIOUS
    <2>2. /\ id \in ProviderId /\ b = ProviderApi(p)
          /\ IsUrl(p.authUrl) /\ IsUrl(p.publicUrl) /\ id \notin {-1, -2}
          /\ HasHost(p.authUrl) /\ HasHost(p.publicUrl)
      BY <1>1, <1>8, <2>1, EntryOf DEF FoundAs
    <2>3. p.auth = "BearerToken" => keys[id] \in Nat
      BY <2>1, <2>2 DEF Keyed
    <2>4. CASE p.auth = "BearerToken" /\ b = Api(p.authUrl, keys[id], 0, id)
      BY <1>4, <2>2, <2>3, <2>4
    <2>5. CASE b = Api(p.authUrl, 0, keys[id], id)
      BY <1>4, <2>2, <2>5
    <2>6. CASE b = Api(p.publicUrl, 0, 0, id)
      BY <1>4, <2>2, <2>6
    <2> QED
      BY <1>3, <2>1, <2>2, <2>4, <2>5, <2>6, ProviderApis
  <1>9. CASE \E id : FoundAs(s, id)
    <2>1. PICK id : FoundAs(s, id)
      BY <1>9
    <2>2. PICK url, header, secret :
            /\ b = Api(url, header, secret, id) /\ IsUrl(url) /\ HasHost(url)
            /\ header # BadHeader /\ id \notin {-1, -2}
      BY <1>8, <2>1
    <2>3. /\ a.url.host = Malformed =>
               override = "garbles" \/ (url.host = Malformed /\ override # "all")
          /\ a.url.host = Hostless =>
               override = "stripsHost" \/ (url.host = Hostless /\ override # "all")
          /\ a.header = BadHeader => header = BadHeader /\ override = "none"
      BY <1>6, <2>2
    <2> QED
      BY <1>2, <2>2, <2>3 DEF HasHost
  <1> QED
    BY <1>1, <1>3, <1>7, <1>9, Resolutions

(* The host h of a request to entry id is its label, or the key is missing.  *)
LabelOk(h, id) ==
  \/ h = Hostname(PROVIDER_MAP[id])
  \/ /\ id \in Keyed /\ keys[id] = 0
     /\ PROVIDER_MAP[id].authUrl.host = Hostname(PROVIDER_MAP[id])
     /\ PROVIDER_MAP[id].publicUrl.host # Hostname(PROVIDER_MAP[id])

(* The label of an entry is the host its request goes to, unless the key is   *)
(* missing and the public URL is on another host.                             *)
LEMMA HostsLabelled ==
  ASSUME override \in {"none", "noMatch"}, keys \in [Keyed -> Nat],
         NEW s, IsRpcService(s), NEW id, FoundAs(s, id),
         RequestTo(s) # Panics
  PROVE  /\ \A endpoint : Outcome(endpoint, RequestTo(s)) = "sent"
         /\ LabelOk(RequestTo(s).url.host, id)
  <1>1. PICK b, a, p : /\ b = Resolve(s) /\ a = RequestTo(s)
                       /\ a = ApplyOverride(b) /\ p = PROVIDER_MAP[id]
    BY DEF RequestTo
  <1>2. /\ id \in ProviderId /\ b = ProviderApi(p)
        /\ IsUrl(p.authUrl) /\ IsUrl(p.publicUrl) /\ id \notin {-1, -2}
    BY <1>1, EntryOf DEF FoundAs
  <1>3. override \in Kinds
    BY DEF Kinds
  <1>4. ASSUME NEW url, NEW header, NEW secret, IsUrl(url),
               b = Api(url, header, secret, id)
        PROVE  a # NotFound /\ a.url = url
    <2>1. a.owner = id /\ a.url = url
      <3>1. b.url = url
        BY <1>4 DEF Api
      <3> QED
        BY <1>1, <1>2, <1>3, <1>4, <3>1, Overridden
    <2>2. NotFound.owner = -2
      BY DEF NotFound, Api
    <2> QED
      BY <1>2, <2>1, <2>2
  <1>5. b # Panics
    BY <1>1 DEF ApplyOverride
  <1>6. ASSUME p.auth = "BearerToken", b = Api(p.authUrl, keys[id], 0, id)
        PROVE  a # NotFound /\ LabelOk(a.url.host, id)
    <2>1. a # NotFound /\ a.url = p.authUrl
      BY <1>2, <1>4, <1>6
    <2> QED
      BY <1>1, <1>6, <2>1 DEF Hostname, LabelOk
  <1>7. ASSUME p.auth = "UrlParameter", b = Api(p.authUrl, 0, keys[id], id)
        PROVE  a # NotFound /\ LabelOk(a.url.host, id)
    <2>1. a # NotFound /\ a.url = p.authUrl
      BY <1>2, <1>4, <1>7
    <2> QED
      BY <1>1, <1>7, <2>1 DEF Hostname, LabelOk
  <1>8. ASSUME p.auth = "Unauthenticated" \/ keys[id] = 0,
               b = Api(p.publicUrl, 0, 0, id)
        PROVE  a # NotFound /\ LabelOk(a.url.host, id)
    <2>1. a # NotFound /\ a.url = p.publicUrl
      BY <1>2, <1>4, <1>8
    <2>2. CASE p.auth = "Unauthenticated"
      BY <1>1, <2>1, <2>2 DEF Hostname, LabelOk
    <2>3. CASE p.auth # "Unauthenticated"
      <3>1. id \in Keyed /\ keys[id] = 0
        BY <1>1, <1>2, <1>8, <2>3 DEF Keyed
      <3> QED
        BY <1>1, <2>1, <2>3, <3>1 DEF Hostname, LabelOk
    <2> QED
      BY <2>2, <2>3
  <1>9. a # NotFound /\ LabelOk(a.url.host, id)
    BY <1>1, <1>2, <1>5, <1>6, <1>7, <1>8, ProviderApis
  <1>10. s.network # "Custom"
    <2>1. CASE s = ById(id)
      BY <2>1 DEF ById
    <2>2. CASE s = p.alias
      BY <1>1, <1>2, <2>2, EntryOf, NamesAreNetworks
    <2> QED
      BY <1>1, <2>1, <2>2 DEF FoundAs
  <1>11. a.url.host \notin {Malformed, Hostless} /\ a.header # BadHeader
    BY <1>1, <1>3, <1>9, <1>10, Faults
  <1> QED
    BY <1>1, <1>9, <1>11 DEF Outcome, Builds, HasHost

-----------------------------------------------------------------------------
(***************************************************************************)
(* The inductive invariant: requests were made under an override that is  *)
(* one, with keys sent as they may be, and as long as a call is open the   *)
(* hosts its services are labelled with are accounted for: an upgrade,     *)
(* which forgets the metrics, waits for open calls.                        *)
(***************************************************************************)
Accounted(h) ==
  \/ h \in requestsAt
  \/ \E id \in lapses : /\ PROVIDER_MAP[id].authUrl.host = h
                        /\ PROVIDER_MAP[id].publicUrl.host # h

Labels(services) ==
  {Hostname(PROVIDER_MAP[SERVICE_PROVIDER_MAP[t]]) :
     t \in UNION {Supported(s) : s \in services}}

Made(k) == [st |-> k.st, endpoint |-> k.endpoint, args |-> k.args,
            api |-> k.api, override |-> k.override, lacking |-> k.lacking]

CallOk(k) ==
  /\ k.st \in {"new", "open", "replied", "trapped"}
  /\ k.st \in {"open", "replied"} =>
       /\ k = Made(k)
       /\ \A s \in DOMAIN k.api : KeyOk(k.api[s], k.override)
  /\ k.st = "trapped" => Explained(k)

ProvidersInv ==
  /\ keys \in [Keyed -> Nat]
  /\ override \in Kinds
  /\ DOMAIN call = Call
  /\ \A c \in Call : CallOk(call[c])
  /\ override \in {"none", "noMatch"} =>
       /\ \A c \in Call : call[c].st = "open" =>
            \A h \in Labels(call[c].args) : Accounted(h)
       /\ \A h \in differAt : Accounted(h)

(* A label is the host name of an entry a service was found as. *)
LEMMA LabelsAreHosts ==
  ASSUME NEW services, \A s \in services : IsRpcService(s), NEW h \in Labels(services)
  PROVE  \E s \in services, id \in ProviderId :
           FoundAs(s, id) /\ h = Hostname(PROVIDER_MAP[id])
  <1>1. PICK s \in services : \E t \in Supported(s) :
          h = Hostname(PROVIDER_MAP[SERVICE_PROVIDER_MAP[t]])
    BY DEF Labels
  <1>2. PICK t \in Supported(s) :
          h = Hostname(PROVIDER_MAP[SERVICE_PROVIDER_MAP[t]])
    BY <1>1
  <1>3. IsRpcService(s) /\ Supported(s) # {}
    BY <1>2
  <1>4. PICK id : FoundAs(s, id)
    BY <1>3, Resolutions
  <1>5. id \in ProviderId /\ t = PROVIDER_MAP[id].alias
    BY <1>2, <1>4 DEF FoundAs
  <1>6. SERVICE_PROVIDER_MAP[t] = id
    BY <1>5, EntryOf
  <1> QED
    BY <1>2, <1>4, <1>5, <1>6

(* A call that panics has a reason to. *)
LEMMA TrapsOk ==
  ASSUME ProvidersInv, NEW c \in Call, NEW endpoint, NEW services, NEW api,
         NEW lacking, \A s \in services : IsRpcService(s),
         \E s \in services : Outcome(endpoint, RequestTo(s)) = "panic",
         \A s \in services, id \in Keyed : FoundAs(s, id) /\ keys[id] = 0 =>
           id \in lacking,
         call' = [call EXCEPT ![c] =
           [st |-> "trapped", endpoint |-> endpoint, args |-> services,
            api |-> api, override |-> override, lacking |-> lacking]],
         UNCHANGED <<keys, override, requestsAt, differAt, lapses>>
  PROVE  ProvidersInv'
  <1>1. PICK k : k = [st |-> "trapped", endpoint |-> endpoint, args |-> services,
                      api |-> api, override |-> override, lacking |-> lacking]
    OBVIOUS
  <1>2. /\ k.st = "trapped" /\ k.args = services /\ k.endpoint = endpoint
        /\ k.override = override /\ k.lacking = lacking
    BY <1>1
  <1>3. PICK s \in services : Outcome(endpoint, RequestTo(s)) = "panic"
    OBVIOUS
  <1>4. ASSUME RequestTo(s) = Panics
        PROVE  Explained(k)
    <2>1. /\ s \in {Named("EthSepolia", "BlockPi"), ById(6)}
          /\ FoundAs(s, 6) /\ keys[6] = 0
      BY <1>3, <1>4, PanicsOnlySix DEF ProvidersInv
    <2>2. 6 \in lacking
      BY <1>3, <2>1, EntrySix
    <2> QED
      BY <1>2, <1>3, <2>1, <2>2 DEF Explained
  <1>5. ASSUME RequestTo(s) # Panics
        PROVE  Explained(k)
    <2>1. PICK a : a = RequestTo(s)
      OBVIOUS
    <2>2. /\ a # NotFound
          /\ \/ a.url.host = Malformed /\ endpoint = "eth"
             \/ a.header = BadHeader /\ endpoint = "eth"
             \/ a.url.host = Hostless
      BY <1>3, <1>5, <2>1, PanicOutcomes
    <2>3. CASE a.url.host = Malformed /\ endpoint = "eth"
      <3>1. \/ override = "garbles"
            \/ s.network = "Custom" /\ s.service = Malformed /\ override # "all"
        BY <1>3, <1>5, <2>1, <2>2, <2>3, Faults DEF ProvidersInv
      <3> QED
        BY <1>2, <1>3, <2>3, <3>1 DEF Explained
    <2>4. CASE a.header = BadHeader /\ endpoint = "eth"
      <3>1. s.network = "Custom" /\ s.header = BadHeader /\ override = "none"
        BY <1>3, <1>5, <2>1, <2>2, <2>4, Faults DEF ProvidersInv
      <3> QED
        BY <1>2, <1>3, <2>4, <3>1 DEF Explained
    <2>5. CASE a.url.host = Hostless
      <3>1. \/ override = "stripsHost"
            \/ s.network = "Custom" /\ s.service = Hostless /\ override # "all"
        BY <1>3, <1>5, <2>1, <2>2, <2>5, Faults DEF ProvidersInv
      <3> QED
        BY <1>2, <1>3, <3>1 DEF Explained
    <2> QED
      BY <2>2, <2>3, <2>4, <2>5
  <1>6. CallOk(k)
    BY <1>2, <1>4, <1>5 DEF CallOk
  <1>7. /\ DOMAIN call' = Call /\ call'[c] = k
        /\ \A d \in Call : d # c => call'[d] = call[d]
    BY <1>1 DEF ProvidersInv
  <1>8. \A d \in Call : CallOk(call'[d])
    BY <1>6, <1>7 DEF ProvidersInv
  <1>9. \A h : Accounted(h)' <=> Accounted(h)
    BY DEF Accounted
  <1>10. \A d \in Call : call'[d].st = "open" => d # c /\ call'[d] = call[d]
    BY <1>2, <1>7
  <1>11. override' \in {"none", "noMatch"} =>
           /\ \A d \in Call : call'[d].st = "open" =>
                \A h \in Labels(call'[d].args) : Accounted(h)'
           /\ \A h \in differAt' : Accounted(h)'
    BY <1>9, <1>10 DEF ProvidersInv
  <1>12. override' \in Kinds /\ keys' \in [Keyed -> Nat]
    BY DEF ProvidersInv
  <1> QED
    BY <1>7, <1>8, <1>11, <1>12 DEF ProvidersInv, Labels, Supported, CallOk,
       Made, KeyOk, Explained

(* A call that makes its requests accounts for the labels it may need. *)
LEMMA OpensOk ==
  ASSUME ProvidersInv, NEW c \in Call, NEW endpoint, NEW services, NEW sent,
         NEW api, NEW lacking, \A s \in services : IsRpcService(s),
         sent = {s \in services : Outcome(endpoint, RequestTo(s)) = "sent"},
         api = [s \in sent |-> RequestTo(s)],
         \A s \in services : Outcome(endpoint, RequestTo(s)) # "panic",
         call' = [call EXCEPT ![c] =
           [st |-> "open", endpoint |-> endpoint, args |-> services,
            api |-> api, override |-> override, lacking |-> lacking]],
         \A s \in sent : RequestTo(s).url.host \in requestsAt',
         requestsAt \subseteq requestsAt',
         \A s \in services, id \in Keyed : FoundAs(s, id) /\ keys[id] = 0 =>
           id \in lapses',
         lapses \subseteq lapses',
         UNCHANGED <<keys, override, differAt>>
  PROVE  ProvidersInv'
  <1>1. PICK k : k = [st |-> "open", endpoint |-> endpoint, args |-> services,
                      api |-> api, override |-> override, lacking |-> lacking]
    OBVIOUS
  <1>2. /\ k.st = "open" /\ k.args = services /\ k.api = api
        /\ k.override = override /\ k = Made(k)
    BY <1>1 DEF Made
  <1>3. \A s \in sent : KeyOk(api[s], override)
    <2> TAKE s \in sent
    <2>1. HasHost(RequestTo(s).url) /\ IsRpcService(s) /\ api[s] = RequestTo(s)
      BY SentHasHost
    <2> QED
      BY <2>1, KeysSentOk DEF ProvidersInv
  <1>4. CallOk(k)
    BY <1>2, <1>3 DEF CallOk
  <1>5. /\ DOMAIN call' = Call /\ call'[c] = k
        /\ \A d \in Call : d # c => call'[d] = call[d]
    BY <1>1 DEF ProvidersInv
  <1>6. \A d \in Call : CallOk(call'[d])
    BY <1>4, <1>5 DEF ProvidersInv
  <1>7. \A h : Accounted(h) => Accounted(h)'
    BY DEF Accounted
  <1>8. ASSUME override \in {"none", "noMatch"}, NEW h \in Labels(services)
        PROVE  Accounted(h)'
    <2>1. PICK s \in services, id \in ProviderId :
            FoundAs(s, id) /\ h = Hostname(PROVIDER_MAP[id])
      BY <1>8, LabelsAreHosts
    <2>2. s \in sent /\ LabelOk(RequestTo(s).url.host, id)
      <3>1. IsRpcService(s) /\ Outcome(endpoint, RequestTo(s)) # "panic"
        BY <2>1
      <3>2. RequestTo(s) # Panics
        BY <3>1, PanicOutcomes
      <3>3. keys \in [Keyed -> Nat]
        BY DEF ProvidersInv
      <3>4. /\ \A e : Outcome(e, RequestTo(s)) = "sent"
            /\ LabelOk(RequestTo(s).url.host, id)
        BY <1>8, <2>1, <3>1, <3>2, <3>3, HostsLabelled
      <3> QED
        BY <2>1, <3>4
    <2>3. CASE RequestTo(s).url.host = h
      BY <2>2, <2>3 DEF Accounted
    <2>4. CASE /\ id \in Keyed /\ keys[id] = 0
               /\ PROVIDER_MAP[id].authUrl.host = h
               /\ PROVIDER_MAP[id].publicUrl.host # h
      <3>1. id \in lapses'
        BY <2>1, <2>4
      <3> QED
        BY <2>4, <3>1 DEF Accounted
    <2> QED
      BY <2>1, <2>2, <2>3, <2>4 DEF LabelOk
  <1>9. ASSUME override' \in {"none", "noMatch"}
        PROVE  /\ \A d \in Call : call'[d].st = "open" =>
                    \A h \in Labels(call'[d].args) : Accounted(h)'
               /\ \A h \in differAt' : Accounted(h)'
    <2>1. override \in {"none", "noMatch"}
      BY <1>9
    <2>2. \A h \in differAt' : Accounted(h)'
      BY <1>7, <2>1 DEF ProvidersInv
    <2>3. ASSUME NEW d \in Call, call'[d].st = "open",
                 NEW h \in Labels(call'[d].args)
          PROVE  Accounted(h)'
      <3>1. CASE d = c
        BY <1>2, <1>5, <1>8, <2>1, <3>1
      <3>2. CASE d # c
        BY <1>5, <1>7, <2>1, <2>3, <3>2 DEF ProvidersInv
      <3> QED
        BY <3>1, <3>2
    <2> QED
      BY <2>2, <2>3
  <1>10. override' \in Kinds /\ keys' \in [Keyed -> Nat]
    BY DEF ProvidersInv
  <1> QED
    BY <1>5, <1>6, <1>9, <1>10 DEF ProvidersInv, Labels, Supported, CallOk,
       Made, KeyOk, Explained

(* Starting a call is one or the other. *)
LEMMA StartOk ==
  ASSUME ProvidersInv, NEW c \in Call, NEW endpoint, NEW services \in CallArgs,
         Start(c, endpoint, services)
  PROVE  ProvidersInv'
  <1>1. \A s \in services : IsRpcService(s)
    BY ArgsAssumption
  <1>2. UNCHANGED <<keys, override, differAt>>
    BY DEF Start
  <1> DEFINE api == [s \in services |-> RequestTo(s)]
             panics == \E s \in services : Outcome(endpoint, api[s]) = "panic"
             sent == {s \in services : ~panics /\ Outcome(endpoint, api[s]) = "sent"}
             known == UNION {Supported(s) : s \in services}
             lacking == {id \in Keyed \cap {SERVICE_PROVIDER_MAP[s] : s \in known} :
                           keys[id] = 0}
  <1>3. /\ panics \in BOOLEAN
        /\ panics = \E s \in services : Outcome(endpoint, api[s]) = "panic"
        /\ sent = {s \in services : ~panics /\ Outcome(endpoint, api[s]) = "sent"}
        /\ known = UNION {Supported(s) : s \in services}
        /\ lacking = {id \in Keyed \cap {SERVICE_PROVIDER_MAP[s] : s \in known} :
                        keys[id] = 0}
        /\ call' = [call EXCEPT ![c] =
             [st |-> IF panics THEN "trapped" ELSE "open",
              endpoint |-> endpoint, args |-> services,
              api |-> [s \in sent |-> api[s]], override |-> override,
              lacking |-> lacking]]
        /\ requestsAt' = requestsAt \cup {api[s].url.host : s \in sent}
        /\ lapses' = IF panics THEN lapses ELSE lapses \cup lacking
    BY DEF Start
  <1>4. \A s \in services : api[s] = RequestTo(s)
    OBVIOUS
  <1> HIDE DEF api, panics, sent, known, lacking
  <1>5. sent \subseteq services /\ [s \in sent |-> api[s]] = [s \in sent |-> RequestTo(s)]
    BY <1>3, <1>4
  <1>6. ASSUME NEW s \in services, NEW id \in Keyed, FoundAs(s, id), keys[id] = 0
        PROVE  id \in lacking
    <2>1. PICK t : t = PROVIDER_MAP[id].alias /\ t \in Supported(s)
      BY <1>6 DEF FoundAs
    <2>2. SERVICE_PROVIDER_MAP[t] = id
      BY <1>6, <2>1, EntryOf DEF FoundAs
    <2>3. t \in known
      BY <1>3, <2>1
    <2> QED
      BY <1>3, <1>6, <2>2, <2>3
  <1>7. CASE panics
    <2>1. sent = {} /\ lapses' = lapses
      BY <1>3, <1>7
    <2>2. requestsAt' = requestsAt
      BY <1>3, <2>1
    <2>3. \E s \in services : Outcome(endpoint, RequestTo(s)) = "panic"
      BY <1>3, <1>4, <1>7
    <2>4. PICK sentApi : call' = [call EXCEPT ![c] =
            [st |-> "trapped", endpoint |-> endpoint, args |-> services,
             api |-> sentApi, override |-> override, lacking |-> lacking]]
      BY <1>3, <1>7
    <2> QED
      BY <1>1, <1>2, <1>6, <2>1, <2>2, <2>3, <2>4, TrapsOk
  <1>8. CASE ~panics
    <2>1. \A s \in services : Outcome(endpoint, RequestTo(s)) # "panic"
      BY <1>3, <1>4, <1>8
    <2>2. sent = {s \in services : Outcome(endpoint, RequestTo(s)) = "sent"}
      BY <1>3, <1>4, <1>8
    <2>3. \A s \in sent : RequestTo(s).url.host \in requestsAt'
      BY <1>3, <1>4, <1>5
    <2>4. requestsAt \subseteq requestsAt' /\ lapses' = lapses \cup lacking
      BY <1>3, <1>8
    <2>5. PICK sentApi : /\ sentApi = [s \in sent |-> RequestTo(s)]
                         /\ call' = [call EXCEPT ![c] =
                              [st |-> "open", endpoint |-> endpoint,
                               args |-> services, api |-> sentApi,
                               override |-> override, lacking |-> lacking]]
      BY <1>3, <1>5, <1>8
    <2> QED
      BY <1>1, <1>2, <1>6, <2>1, <2>2, <2>3, <2>4, <2>5, OpensOk
  <1> QED
    BY <1>3, <1>7, <1>8

(* The end of a call uses the labels accounted for when it started. *)
LEMMA FinishOk ==
  ASSUME ProvidersInv, NEW c \in Call, NEW inconsistent \in BOOLEAN,
         Finish(c, inconsistent)
  PROVE  ProvidersInv'
  <1>1. /\ call[c].st = "open"
        /\ call' = [call EXCEPT ![c].st = "replied"]
        /\ UNCHANGED <<keys, override, requestsAt, lapses>>
    BY DEF Finish
  <1>2. differAt' \subseteq differAt \cup Labels(call[c].args)
    BY DEF Finish, Labels
  <1>3. PICK k : k = call[c] /\ CallOk(k)
    BY DEF ProvidersInv
  <1>4. PICK l : l = [k EXCEPT !.st = "replied"]
    OBVIOUS
  <1>5. k = Made(k)
    BY <1>1, <1>3 DEF CallOk
  <1>6. /\ l.st = "replied" /\ l.args = k.args /\ l.api = k.api
        /\ l.override = k.override /\ l = Made(l)
    <2>1. l = [st |-> "replied", endpoint |-> k.endpoint, args |-> k.args,
               api |-> k.api, override |-> k.override, lacking |-> k.lacking]
      BY <1>4, <1>5 DEF Made
    <2> QED
      BY <2>1 DEF Made
  <1>7. CallOk(l)
    BY <1>1, <1>3, <1>6 DEF CallOk
  <1>8. /\ DOMAIN call' = Call /\ call'[c] = l
        /\ \A d \in Call : d # c => call'[d] = call[d]
    BY <1>1, <1>3, <1>4 DEF ProvidersInv
  <1>9. \A d \in Call : CallOk(call'[d])
    BY <1>7, <1>8 DEF ProvidersInv
  <1>10. \A h : Accounted(h)' <=> Accounted(h)
    BY <1>1 DEF Accounted
  <1>11. \A d \in Call : call'[d].st = "open" => d # c /\ call'[d] = call[d]
    BY <1>6, <1>8
  <1>12. override' \in {"none", "noMatch"} =>
           /\ \A d \in Call : call'[d].st = "open" =>
                \A h \in Labels(call'[d].args) : Accounted(h)'
           /\ \A h \in differAt' : Accounted(h)'
    BY <1>1, <1>2, <1>10, <1>11 DEF ProvidersInv
  <1>13. override' \in Kinds /\ keys' \in [Keyed -> Nat]
    BY <1>1 DEF ProvidersInv
  <1> QED
    BY <1>8, <1>9, <1>12, <1>13 DEF ProvidersInv, Labels, Supported, CallOk,
       Made, KeyOk, Explained

(* What is known of requests, keys and labels in every state. *)
THEOREM ProvidersInductive == Spec => []ProvidersInv
  <1>1. Init => ProvidersInv
    <2> SUFFICES ASSUME Init PROVE ProvidersInv
      OBVIOUS
    <2>1. \A c \in Call : call[c].st = "new"
      BY DEF Init, NotMade
    <2>2. \A c \in Call : CallOk(call[c])
      BY <2>1 DEF CallOk
    <2>3. /\ keys \in [Keyed -> Nat] /\ override \in Kinds
          /\ DOMAIN call = Call /\ differAt = {}
      BY DEF Init, Kinds
    <2> QED
      BY <2>1, <2>2, <2>3 DEF ProvidersInv
  <1>2. ProvidersInv /\ [Next]_vars => ProvidersInv'
    <2> SUFFICES ASSUME ProvidersInv, [Next]_vars PROVE ProvidersInv'
      OBVIOUS
    <2>1. ASSUME keys' \in [Keyed -> Nat],
                 UNCHANGED <<override, call, requestsAt, differAt, lapses>>
          PROVE  ProvidersInv'
      BY <2>1 DEF ProvidersInv, Accounted, Labels, Supported, CallOk, Made,
         KeyOk, Explained
    <2>2. ASSUME NEW kind \in Override, SetOverride(kind)
          PROVE  ProvidersInv'
      <3>1. /\ keys' = keys /\ override' \in Kinds
            /\ call' = call /\ differAt' = {}
            /\ \A c \in Call : call'[c].st # "open"
        BY <2>2, OverrideAssumption DEF SetOverride, Kinds
      <3> QED
        BY <3>1 DEF ProvidersInv, CallOk, Made, KeyOk, Explained
    <2>3. ASSUME NEW id \in Rotated, NEW version \in KeyVersion \cup {0},
                 UpdateKey(id, version)
          PROVE  ProvidersInv'
      <3>1. version \in Nat
        BY <2>3, VersionAssumption
      <3>2. keys' \in [Keyed -> Nat]
        BY <2>3, <3>1 DEF UpdateKey, ProvidersInv
      <3> QED
        BY <2>1, <2>3, <3>2 DEF UpdateKey
    <2>4. CASE UNCHANGED vars
      BY <2>1, <2>4 DEF vars, ProvidersInv
    <2> QED
      BY <2>2, <2>3, <2>4, StartOk, FinishOk DEF Next
  <1> QED
    BY <1>1, <1>2, PTL DEF Spec

(* Whatever keys are set and changed, overrides installed and services       *)
(* called, by name, by id or as a custom one, a key is sent only where and   *)
(* how its own provider takes it, or inside a URL whose host the controller  *)
(* replaced (Provider::api, OverrideProvider::apply).                        *)
THEOREM KeyConfinedAlways == Spec => []KeyConfined
  <1>1. ProvidersInv => KeyConfined
    BY DEF ProvidersInv, CallOk, KeyOk, KeyConfined
  <1> QED
    BY <1>1, ProvidersInductive, PTL

(* A call panics only for one of the reasons: the missing key of the one      *)
(* entry without a public URL, a custom service that is malformed, or an      *)
(* override that leaves no URL or no host (Provider::api, the expect of       *)
(* parallel_call and the unwrap of on_request).                               *)
THEOREM PanicsExplainedAlways == Spec => []PanicsExplained
  <1>1. ProvidersInv => PanicsExplained
    BY DEF ProvidersInv, CallOk, PanicsExplained
  <1> QED
    BY <1>1, ProvidersInductive, PTL

(* Inconsistencies are labelled with hosts that requests were counted for,   *)
(* unless URLs are replaced or a key is missing (Provider::hostname,         *)
(* process_result).                                                          *)
THEOREM LabelsComparableAlways == Spec => []LabelsComparable
  <1>1. ProvidersInv => LabelsComparable
    BY DEF ProvidersInv, Accounted, LabelsComparable
  <1> QED
    BY <1>1, ProvidersInductive, PTL

-----------------------------------------------------------------------------
(* Services. *)

(* The default order of a network names each of its services once. *)
LEMMA OrderNamesOnce ==
  ASSUME NEW s \in SupportedRpcService
  PROVE  Cardinality({i \in DOMAIN DefaultOrder(s.network) :
                        DefaultOrder(s.network)[i] = s.service}) = 1
  <1>1. \A x \in EthMainnetService : \E j \in 1..6 :
          {i \in DOMAIN EthMainnet : EthMainnet[i] = x} = {j}
    BY DEF EthMainnetService, EthMainnet
  <1>2. \A x \in EthSepoliaService : \E j \in 1..5 :
          {i \in DOMAIN EthSepolia : EthSepolia[i] = x} = {j}
    BY DEF EthSepoliaService, EthSepolia
  <1>3. \A x \in L2MainnetService : \E j \in 1..5 :
          {i \in DOMAIN L2Mainnet : L2Mainnet[i] = x} = {j}
    BY DEF L2MainnetService, L2Mainnet
  <1>4. \/ s.network = "EthMainnet" /\ s.service \in EthMainnetService
        \/ s.network = "EthSepolia" /\ s.service \in EthSepoliaService
        \/ s.network \in L2Network /\ s.service \in L2MainnetService
    BY DEF SupportedRpcService, Named
  <1>5. \E j : {i \in DOMAIN DefaultOrder(s.network) :
                  DefaultOrder(s.network)[i] = s.service} = {j}
    <2>1. CASE s.network = "EthMainnet" /\ s.service \in EthMainnetService
      <3>1. DefaultOrder(s.network) = EthMainnet
        BY <2>1 DEF DefaultOrder, L2Network
      <3> QED
        BY <1>1, <2>1, <3>1
    <2>2. CASE s.network = "EthSepolia" /\ s.service \in EthSepoliaService
      <3>1. DefaultOrder(s.network) = EthSepolia
        BY <2>2 DEF DefaultOrder, L2Network
      <3> QED
        BY <1>2, <2>2, <3>1
    <2>3. CASE s.network \in L2Network /\ s.service \in L2MainnetService
      <3>1. DefaultOrder(s.network) = L2Mainnet
        BY <2>3 DEF DefaultOrder, L2Network
      <3> QED
        BY <1>3, <2>3, <3>1
    <2> QED
      BY <1>4, <2>1, <2>2, <2>3
  <1> QED
    BY <1>5, FS_Singleton

(* A request is made for the entry the service was found as, or panics. *)
LEMMA OwnersAreFound ==
  ASSUME override \in Kinds, NEW s, NEW id, FoundAs(s, id)
  PROVE  RequestTo(s).owner \in {id, Panics.owner}
  <1>1. PICK b, p : /\ b = Resolve(s) /\ RequestTo(s) = ApplyOverride(b)
                    /\ p = PROVIDER_MAP[id]
    BY DEF RequestTo
  <1>2. /\ id \in ProviderId /\ b = ProviderApi(p)
        /\ IsUrl(p.authUrl) /\ IsUrl(p.publicUrl) /\ id \notin {-1, -2}
    BY <1>1, EntryOf DEF FoundAs
  <1>3. ASSUME NEW url, NEW header, NEW secret, IsUrl(url),
               b = Api(url, header, secret, id)
        PROVE  RequestTo(s).owner = id
    BY <1>1, <1>2, <1>3, Overridden
  <1>4. CASE b = Panics
    BY <1>1, <1>4 DEF ApplyOverride
  <1> QED
    BY <1>1, <1>2, <1>3, <1>4, ProviderApis

(* Every service of the enums has its entry, and is sent the same request    *)
(* by name and by the id getServiceProviderMap gives for it, under any keys  *)
(* and any override (resolve_rpc_service, PROVIDER_MAP, find_provider).      *)
THEOREM ServicesResolveAlways == Spec => []ServicesResolve
  <1>1. ProvidersInv => ServicesResolve
    <2> SUFFICES ASSUME ProvidersInv, NEW s \in SupportedRpcService, NEW id,
                        id = SERVICE_PROVIDER_MAP[s]
                 PROVE  /\ s \in DOMAIN SERVICE_PROVIDER_MAP
                        /\ PROVIDER_MAP[id].alias = s
                        /\ PROVIDER_MAP[id].chain = s.network
                        /\ Supported(ById(id)) = {s}
                        /\ RequestTo(s) = RequestTo(ById(id))
                        /\ RequestTo(s).owner \in {id, Panics.owner}
                        /\ Cardinality({i \in DOMAIN DefaultOrder(s.network) :
                              DefaultOrder(s.network)[i] = s.service}) = 1
      BY DEF ServicesResolve
    <2>1. /\ s \in DOMAIN SERVICE_PROVIDER_MAP /\ PROVIDER_MAP[id].alias = s
          /\ FoundAs(s, id) /\ id \in ProviderId
      BY NamesFound DEF FoundAs
    <2>2. PROVIDER_MAP[id].chain = s.network
      BY <2>1, EntryOf
    <2>3. FoundAs(ById(id), id)
      BY <2>1, Found
    <2>4. Supported(ById(id)) = {s} /\ RequestTo(s) = RequestTo(ById(id))
      BY <2>1, <2>3 DEF FoundAs, RequestTo
    <2>5. RequestTo(s).owner \in {id, Panics.owner}
      BY <2>1, OwnersAreFound DEF ProvidersInv
    <2> QED
      BY <2>1, <2>2, <2>4, <2>5, OrderNamesOnce
  <1> QED
    BY <1>1, ProvidersInductive, PTL
=============================================================================
