# EVM RPC canister: TLA+ models, checks and proofs

The EVM RPC canister runs on the Internet Computer (IC) and gives other
canisters access to Ethereum JSON-RPC providers over HTTPS outcalls. This
directory holds TLA+ models of its core, the TLC configurations that check
them and TLAPS proofs of all the safety properties the passing runs check.
Paths below are relative to the root of the repository.

## The system

A canister is an actor. It executes one message at a time; a message is
undone as a whole if it panics; control is given away only at an `await` on
another canister or on an outcall. Concurrency therefore means: several calls
are open, and the replies to their outcalls arrive in any order.

| part | state it keeps | operations | where it can go wrong |
|---|---|---|---|
| multi-provider calls: `src/rpc_client/mod.rs`, `src/candid_rpc/mod.rs` | per call: the services, their outcalls and results | the `eth_*` endpoints: choose services, send one request to each, wait for all, record, reduce, reply | replies of several calls interleave; some providers fail, disagree or are out of cycles; the call must end |
| HTTP client layers: `src/http.rs` | request counter, metrics | each attempt gets an id, is counted, checked against the cycles left and sent; its outcome is counted; a response that is too large is retried with a doubled limit | retries are charged, counted and numbered again; they must end |
| single-provider `request`: `src/main.rs` | none of its own | one attempt with the caller's payload and id | shares counters, metrics and cycles accounting with the calls above |
| provider selection: `choose_providers`, `src/providers.rs` | times of the recent ok results per service | rank the services of a network, take the first ones; record ok results | ranking happens at the start and recording at the end of a call; expiry, capacity, `u8` arithmetic |
| configuration: `src/main.rs`, `src/memory.rs`, `src/types/mod.rs` | API keys, managing principals, demo mode, log filter, URL override, number of nodes | `updateApiKeys`, `init`, `post_upgrade` | a panic between two writes; options that are not given; who may write; calls that keep using what they read |
| response transform: `src/rpc_client/eth_rpc`, `eth_rpc_error` | none | each replica normalises the response before the replicas compare theirs | replicas get one answer in several encodings, and a transaction is sent once per replica; they must agree, and no answer or error may be lost |
| table of providers: `src/providers.rs`, `src/types/mod.rs` | none; reads keys and override | resolve a service, by name or by id, to a URL and headers; label metrics | keys and override change while calls are open; a key must reach its provider only; nobody checks a custom or overridden URL before a request is built of it |
| results: `evm_rpc_types`, `src/candid_rpc` | none | JSON to Candid in the canister, Candid to alloy types in the client, each over one or several results | a conversion fails for some providers only, or makes different answers equal |
| Rust client: `evm_rpc_client` | builders, clients, requests | configure, build, clone, send | settings are merged from three places by calls in any order |
| `requestCost`, Motoko client: `src/main.rs`, `lib/motoko` | a request id | quote a price; try again with the cycles the canister asked for | the price is stale when it is used; a request must not be made or paid for twice |

What each part has to guarantee is listed below with its module. The hazards,
each at its line of code, are in `PROJECT.json`.

## Modules

### ParallelCall (core)

`ParallelCall` models the `eth_*` endpoints and `request` from the moment the
services are chosen to the reply.

State: `counter`, the metrics and `usage` are the canister's unstable memory,
`demo` its stable flag. For each call, `req` holds its arguments with the
charging policy, which `http_client` reads once; `avail` the cycles not
accepted yet; `slot` the outcall and result of each service; `phase` where its
message stands; and `reply`. `spent`, `sent`, `unfunded` and `recent` are
history variables that only the properties read.

| action | code |
|---|---|
| `StartCall`, `StartRequest` (`Begin`) | `parallel_call` up to the client; `request`, `json_rpc_request` |
| `EarlyReturn` | the error returns before any request: invalid configuration, block range, payload, a custom service of `request` that builds no request |
| `Trap` | a panic while the requests are built: a custom URL or header that builds no request or names no host, a provider without key and public URL (`Providers` has them apart, by endpoint and override) |
| `Send` (`Issue`) | one iteration of `canhttp::multi::parallel_call`: id, request metric, cycles, outcall |
| `Responded`, `OutcallFailed`, `TooLarge` | `on_response` and `on_error`, the conversion to `RpcError`, and the retry |
| `Finish` | after the await: record the ok results, reduce, count inconsistencies, reply |
| `Upgrade` | a `post_upgrade`: unstable state starts afresh |

A loop over services is one step per service, but `Idle` keeps every other
message out while a call is `"sending"` or `"finishing"`, as the IC does.

Abstractions: cycles and sizes are numbers, an answer is a number, metrics are
keyed by host and not by method, `usage` counts without ages (these are in
`ProviderSelection`). Errors carry the data that makes two of them differ,
because reductions compare errors. `canhttp` is not part of the repository;
its retry policy, the join of the outcalls and the two reductions are modelled
from their use and from the tests (`tests/tests.rs`). `NotHandledError` ("most
likely sign of a bug") does not occur in the model: it needs a request that
cannot be converted after it was built, or a malformed response of the IC.

### MultiCall (abstract specification)

What a caller may rely on: a call is refused at no cost, or queries some
services; each answers once and for good; cycles are taken only while the call
is open and within what was attached; and the one reply is `Faithful` to the
answers. `ParallelCall` implements it under the mapping in `Promise`, which
hides outcalls, retries, ids, messages, metrics and upgrades.

### ProviderSelection

`choose_providers` with its checks (`Accepted`), the usage record with its
window of 20 minutes and its capacity of 500 (`Insert`, `Unexpired`, `Top`),
and the clock. `Start` ranks and chooses, `Finish` records, any number of
calls are between the two. Results are recorded in order of time, so the
expired ones are a prefix and `Unexpired` cuts it off. Lengths are compared
modulo `U8`. `log` is a
history of all ok results, from which `Recent` defines what the ranking ought
to be.

### CanisterConfig

`updateApiKeys`, `init` and `post_upgrade` as sequences of single writes, each
of which may panic; `Panic` restores the memory the message started with.
Calls read a key when they start and keep it. `Meaning` is the declarative
effect of a message: the last entry for each provider, or exactly the options
that are given.

### Reduction

The reductions of `canhttp` that `ReductionStrategy` selects, and `collapse`
of `MultiRpcResult`, as operators over the results of a set of services.
`ParallelCall` and `ResultConversion` instantiate it. A set of answers stands
for a choice the code leaves to hashes.

### ResponseTransform

One outcall as the replicas see it. `Fetch` is a replica's own request (for
`eth_sendRawTransaction` it changes the provider's pool), `Transform` the
canister's query on it (`CleanupResponse` for `eth_*`, `TransformHttpRequest`
for `request`), `Agree` and `Disagree` the consensus of the replicas,
`TooLarge` the retry, `Reply` what the call decodes. `Mine` puts the
transaction into a block between two requests.

A JSON object is a function from keys to values; `Encodings` are all the ways
a provider may write its content. `Redact` is decoding into the types of
`responses.rs` and encoding again, `SortByHash` the one of the `Reorderings`
of the logs that is in order of digest, and the
four parsers of `eth_rpc_error` are tables of rules tried in order
(`TryParse`), `to_lowercase` included. External: the replicas' consensus, serde,
and the providers with the error messages of their clients.

### Providers

The table entry by entry (`PROVIDERS`), the maps collected from it, the
resolution of a service to a request (`Resolve`, `ProviderApi`,
`ApplyOverride`), and the hosts under which metrics are kept. `UpdateKey` and
`SetOverride` change what later calls read; `Start` resolves, `Finish` labels
an inconsistency. A URL is its host and path; the host of a custom service may
be `Hostless` or the whole URL `Malformed`, and its header a `BadHeader`. An
override is known by what its pattern matches and what becomes of it: nothing,
the host or all of the URL is replaced, the host is removed, or what is left is
no URL; it is applied to every URL alike, and unchecked.

`Outcome` is what comes of a request up to the outcall. It panics for the entry
without a public URL if its key is missing (`Provider::api`); if no request can
be built, an `eth_*` call panics (`expect("BUG: invalid request")`) and
`request` returns an error; without a host both panic (`uri().host().unwrap()`
for the metric). One panic undoes the call, and `PanicsExplained` says who can
cause it.

### ResultConversion

The results of a call on their way to the caller's code: `Answer`,
`ProcessResult` (reduction and metric), `ReplyInCandid` (`map` with the
conversions of `cketh_conversion.rs`) and `ConvertInClient` (`and_then` with
the fallible conversions to alloy). Both maps go over the consistent result or
over each service's own and end in `collapse`. Values keep the fields that a
conversion inspects, narrows or drops. A conversion is a sequence of checks in
the order of the code, of which the first failure counts (`InOrder`), because
errors are compared too. Block numbers and widths are scaled down, in order:
Byzantium 1, Paris 2, 2^64 3, 2^128 4.

### ClientRequests

The Rust client from its builders to the canister: `ConfigureBuilder`,
`Build`, `MakeRequest`, `CloneRequest`, `ConfigureRequest`, `Send`; then
`Serve`, the endpoint of the canister (`Handle`: providers, block range,
response size, parameters as sent to the providers), and `Reply` or `Reject`.
`asked` records per owner what the caller last said about each setting; it is
the reference for the properties. The default range of 500 is 1 in the
instance.

### CycleQuotes

`requestCost` and `request` with their prices, a caller that sends what it was
quoted, and the Motoko client with its one retry, while `UpdateApiKey` and
`Upgrade` change keys, demo mode and number of nodes. `seen` remembers the
last configurations a request was priced in.

The `MC` modules give the constants their values for TLC, the `Proofs` modules
hold the theorems; those on `MultiCall` and `Reduction` are in the `Proofs` of
the modules that instantiate them.

## Runs

| run | instance | shows |
|---|---|---|
| `interleaving` | 2 calls, 2 services on one host, sizes 2 and 3, 22 cycles, demo mode on and off, 338,820 states | payment matches the outcalls made (`CyclesCovered`); requests and outcomes balance (`MetricsBalance`); a call ends with one final result per service (`SettledBeforeReply`, `ResultsAreFinal`); ids in flight differ, around the wrap of the counter too (`IdsInFlightDistinct`); usage counts each ok result once; a retry is larger, new and paid; the calls implement `MultiCall`; every call that starts is answered (`EveryCallAnswered`, with fairness) |
| `reduction` | 1 call, 4 services of which one cannot be called, 2 values, all kinds of errors, equality and thresholds 1 to 3, 57,151 states | `ReplyBacked`: the answer has the support the strategy documents; `MajorityDecides`: with a majority or equality it is unique |
| `selection` | 2 calls, networks of 3 and 1 services, window 1, capacity 2, `U8` 4, clock to 3, 4 results, 727,488 states | the record holds exactly the newest unexpired results; default choices are the best ones; a threshold over distinct services can be met |
| `config` | 3 providers, 7 key lists, 6 sets of options, 17,108 states | messages take effect as a whole or not at all; keys stay usable; only managers change them |
| `transform` | 2 replicas, 6 methods, 2 statuses, headers and key orders, 3 clients, 2 attempts, 1,660,465 states | replicas agree on equal content in any encoding (`EncodingsAgree`), for `request` in any key order (`KeyOrderHidden`), and nothing the call decodes is lost (`ContentKept`); a transaction sent several times looks as if sent once (`ReplayHidden`), and what the caller is told of it is true (`StatusTruthful`) |
| `providers` | the whole table, 2 calls, keys of 3 providers, 6 overrides, 4 custom services of which 3 are faulty, both kinds of endpoint, 462,368 states | enums, table, maps and default orders describe the same services (`ServicesResolve`); keys reach their own provider only (`KeyConfined`); a call panics for the missing key of one entry, its caller's faulty service or the controller's override only (`PanicsExplained`); the labels of the two metrics match (`LabelsComparable`) |
| `conversion` | 3 services, equality and thresholds 1, 2 and 4, 6 methods, 180,100 states | agreement is neither invented nor lost by the two maps (`ResultBacked`); what is counted as inconsistent is shown as such (`CountedIsShown`); providers behind one value differ in nothing but the field the block number makes irrelevant (`OnlyForkFieldsHidden`); numbers are in range, nested in the logs of a receipt too (`InRange`) |
| `clients` | 1 client, 2 requests, 5 of 7 endpoints, 2 configuring calls, 2,206,007 states | the call to the providers carries what was last asked or the documented default (`ForwardedAsAsked`); `eth_getLogs` is refused exactly for too large a range (`RangeEnforced`) |
| `quotes` | 1 caller of `requestCost`, 1 Motoko request, 2 keys, 2 numbers of nodes, demo mode, 407,076 states | a quote holds while nothing changes (`QuoteHonoured`), and so does the amount in `TooFewCycles` (`RetrySuffices`); a request makes and pays at most one outcall (`PaidOnce`) and ends (`RequestsEnd`, with fairness) |
| `threshold_honoured` (violation) | as `reduction` | a service given twice makes `min` exceed the number of services queried; `collapse` then returns a value with less support than `min` |
| `replay_hidden` (violation) | 4 replicas, Nethermind | `AlreadyKnown` is compared with a lower-cased message and never recognised, so replicas disagree |
| `receipts_readable` (violation) | a chain with the Byzantium rules from block 0 | the client refuses receipts from below the mainnet's Byzantium block |

Three more disagreements between comments and code came up and need no run.
`eth_getTransactionReceipt` decodes into an `Option`, whose
`response_transform` is the default `None`, so the transform for receipts is
never applied; `HasTransform` says so and `EncodingsAgree` leaves receipts out.
The comment "Ensure that 0 < min <= total <= all_providers.len()" in
`choose_providers` holds for the caller's list and not for the set made of it
(`ThresholdCanBeMet` has to assume distinct services). And default providers
are "the first `total` providers in the order they are specified"
(`src/providers.rs`) only until results are recorded: then they are the best
ones (`DefaultsAreTheBest`).

Bounds. In `interleaving` 22 cycles pay for the first attempts of both
services and for one retry, of either, but not for two; a retry doubles size 2
up to the largest, 3, where retries stop. Two calls and two services are the
least that let replies of different calls and of different services overlap,
and sharing a host makes their metrics collide. The counter starts at `FirstId`
6 of 8: calls to other hosts drew the ids before it, so the ids of these calls
wrap, and the two calls draw at most eight, so none is in use when it comes up
again. Three callable services and
two values give ties, minorities and majorities in `reduction`; its three
request ids wrap around. In `selection` four results overflow a capacity of
two and a clock of three lets results of different ages expire under a window
of one; lists of four and five services wrap a `U8` of four. Two replicas and
two attempts in `transform` are enough for one replica to find what another
one changed, and for all of them to find what an earlier attempt did;
`replay_hidden` has four, so that a quorum leaves one out. In `conversion` a
threshold of four exceeds the three services, as it may when a service is
repeated. In `clients` a range of 2 lies above the default of 1, and two calls
let a setter meet a configuration set by another on the builder or on the
request; three calls on two requests are out of reach, and the two endpoints
left out have no optional parameter. In `quotes` 4 cycles pay for some
configurations and not for others. Symmetry is used for calls in `selection`
and `providers`, for services in `conversion` and for requests in `clients`; the runs with
liveness use none.

Fairness. `interleaving`: `Send` and `Finish`, a message that is being
executed goes on; `OutcallReply` per call and service, the IC answers every
outcall, with a reject if it times out. Nothing is assumed about which answer
comes; no new call, upgrade or success is assumed to happen. `quotes`: per
request, one of `Progress` and `Reject`; the IC delivers or rejects every
message and ends every outcall, and a caller that was answered goes on. Changes
of keys and upgrades have no fairness and may happen at any time.

## Proofs

The module `XProofs` holds the theorems about `X`. Every invariant and action
property of the passing runs is proved there, for all values of the constants
that satisfy the named `ASSUME`s; the refinement too. TLC found the formulas
true on the instances first. Each proof follows one pattern: an inductive
invariant, one step per action, and the property from the invariant.

`ParallelCallProofs`: any finite set of calls, any number of services, hosts,
sizes, prices and strategies.

- `TypeCorrect`: needs that `Double` stays within the sizes, that ids wrap, and
  that a charge is at most what is available.
- `CyclesCoveredAlways`: the equation between cycles taken and outcalls made
  is inductive only together with `NewUntouched`, since `Begin` overwrites the
  arguments and cycles of a call and relies on nothing having been spent.
- `SettledBeforeReplyAlways`: from the lemma `PhasesMatch`, its inductive form:
  slots and phase agree in every state, as every step that replaces a slot
  derives the phase again (`SlotStepMatches`).
- `MetricsBalanceAlways`: `InFlightStep` says how one replaced slot changes
  the number of outcalls on their way; each way an attempt starts or ends
  then changes both sides by one. It needs `PhasesMatch`, so that an upgrade,
  which resets the metrics, finds no outcall on its way, and a call that
  begins overwrites none.
- `ResultsFinal`: no action but the start of a call replaces a slot that holds
  a result.
- `ReplyBackedAlways`, from `ReplyInv`: an open call has services, a new one no
  reply, and an answered one a reply that is faithful to its slots, which are
  final. `MajorityDecidesAlways`: a support of more than half of the services
  leaves too few of them for another value.
- `UsageCountsAlways`, from `UsageInv`: only calls that are over have been
  counted, and their results do not change any more.
- `CallsImplementMultiCall`: under `Promise`, initial states map to initial
  states and every step to a step or a stutter of `MultiCall`. It needs
  `RefInv`, all of the above on types, cycles, phases and replies: the abstract
  steps take cycles only from an open call and reply only when all services
  have answered.
- `IdsDistinctBeforeWrap`, `RetriesGrowAndPay`, from `IdInv`: the ids on their
  way were drawn from the counter, each once, and lie below it. Both have the
  hypothesis `[]CounterBelowLimit`, that the counter of 64 bits does not wrap
  around. It cannot be dropped: after a wrap ids repeat.

`ProviderSelectionProofs`: any networks, window, capacity, widths and clock.

- `StoreHoldsTheWindowAlways`, from `RecordInv`: the record of a service is
  what its history holds from some position on, in order of time, and what
  lies before that position is expired or the record is full. An insertion
  drops expired results first and the oldest one when there is no room.
- `DefaultsAreTheBestAlways`: the ranking is a strict total order, so ranks
  number the services of a network from 0 without gaps (`RankOrder`) and the
  first n of them are n (`TakenCount`).
- `ThresholdCanBeMetAlways`, from `CallInv`; `TypeCorrect`.

`CanisterConfigProofs`. `IInv` says of a message that is half done: the entries
of `updateApiKeys` before the next one are written and nothing else is
(`UpdateInv`), the options set so far are those given (`InstallInv`), and the
saved memory is one in which keys are usable (`SavedInv`). From it:
`TypeCorrect`, `KeysUsableAlways`, `OnlyManagersChangeKeys`, and
`MessagesAtomic`, that a message as a whole does what `Meaning` says or
nothing.

`CycleQuotesProofs`. `IInv` relates each request to the configurations it was
priced in: what was charged and sent (`OutcallInv`), what a quote promised
(`QuotingInv`), and which of its two attempts the Motoko client is in
(`MotokoInv`). From it: `QuoteHonouredAlways`, `RetrySufficesAlways`,
`PaidOnceAlways`.

`ProvidersProofs`: any set of keys that change, any calls, custom services and
overrides of the six kinds. `ProvidersInv`: keys are typed, each key a call
sent went where it may, and a call that panicked had a reason to; the hosts of
open calls stay accounted for, as an override changes only in an upgrade, which
waits for them. Its main lemma is `Faults`: a request without a URL, a host or
valid headers got the fault from the override or from the caller's own service,
since the table has none and keys are valid headers. From the invariant:
`KeyConfinedAlways`, `PanicsExplainedAlways`, `LabelsComparableAlways`.
`ServicesResolveAlways` is about the table itself.

`ResultConversionProofs`: any number of services, any strategies, any scale of
block numbers.

- `ResultBackedAlways`, from `ConversionInv`: at each stage the reply is what
  the reduction, or `collapse`, makes of the answers as converted so far.
- `CountedIsShownAlways`, from `CountedInv`: the conversions of the canister
  are injective, so answers that differ are still different in Candid.
- `InRangeAlways`: a conversion that succeeds passed each of its checks
  (`InOrderPass`, for a receipt those of its logs among them), and some service
  stands behind every reply.
- `OnlyForkFieldsHiddenAlways`: what each conversion keeps, field by field.

`ClientRequestsProofs`: any clients, requests and values. `RequestsInv`: what
clients and requests hold is what `asked` says, under the merge of builder,
client and request (`ClientsFit`, `RequestsFit`), and a request that was served
keeps its answer (`AnswersFinal`). From it: `ForwardedAsAskedAlways`,
`RangeEnforcedAlways`.

`ResponseTransformProofs`: any number of replicas, attempts, statuses and key
orders. `ExchangeInv`: what a replica holds is the transform of what it was
sent, this is an encoding of the content or the provider's answer to a
transaction, and the result is backed by some replica. From it:
`KeyOrderHiddenAlways`; `EncodingsAgreeAlways` and `ContentKeptAlways`, since
decoding undoes every encoding and sorting forgets the order of logs; and
`ReplayHiddenAlways` and `StatusTruthfulAlways`, by which rule of which parser
recognises each client's messages. These two are stated for every client but
Nethermind: its `AlreadyKnown` is not recognised, as `replay_hidden` shows, and
reaches the caller as a refusal of a transaction that is pending.

Assumptions. They are evaluated by TLC on each run and say which constants the
code can have. Three carry weight: `DigestAssumption`, that different log
entries have different hashes (SHA-256); `ListAssumption`, that a network lists
each service once and fewer of them than a `u8` counts (the lists are constants
of the code); and `PayloadAssumption`, that the sizes the endpoints expect are
sizes they allow.

Only model-checked: the liveness properties `EveryCallAnswered` and
`RequestsEnd`, since fairness and `ENABLED` are out of reach of the prover; and
the three violations.

## Not modelled

- An upgrade of a canister that was not stopped: upgrades wait for open calls.
- Reinstallation and the controllers (a constant).
- The fields of a transaction request, hexadecimal and decimal formats, and
  the newtypes for checked arithmetic: they are copied or rejected one by one,
  without state and without influence on each other.
- The text of JSON in the Motoko client, and its unwrapping of error variants.
  Its request id is taken in the message that makes the request, before
  anything is awaited.
- Logs and what the log filter lets through, the HTTP endpoint, the encoding
  of metrics, and the query endpoints: output of state that the modules keep.

## Plan

1. Done: `ParallelCall`, `MultiCall`, `ProviderSelection`, `CanisterConfig`.
2. Done: `Reduction`, `ResponseTransform`, `Providers`, `ResultConversion`,
   `ClientRequests` and `CycleQuotes`.
3. Done: the proofs above.
4. Next: shorter proofs where a lemma can be shared, and theorems on what the
   modules do not yet say of each other, such as that `ResultConversion`
   starts from what a call of `ParallelCall` leaves.
