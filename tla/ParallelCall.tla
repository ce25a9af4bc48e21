---------------------------- MODULE ParallelCall ----------------------------
(***************************************************************************)
(* Calls of the EVM RPC canister that query Ethereum JSON-RPC providers    *)
(* over HTTPS outcalls: the multi-provider eth_* endpoints (parallel_call, *)
(* reduce, process_result) and the single-provider request endpoint.      *)
(*                                                                         *)
(* A canister is an actor.  It executes one message at a time, and control *)
(* is given away only at the await on the HTTPS outcalls, so other calls   *)
(* run between the replies of one call.  A message that loops over the     *)
(* providers is modelled by one step per iteration: while a call is        *)
(* "sending" or "finishing" its message is still being executed and        *)
(* nothing else can run (Idle guards every action that starts a message).  *)
(*                                                                         *)
(* Cycles are plain numbers, sizes stand for max_response_bytes, the       *)
(* deserialised answer of a provider is a number, and the metrics are      *)
(* keyed by host only (the method label is left out).                      *)
(***************************************************************************)
EXTENDS Integers, FiniteSets

CONSTANTS
  Call,         \* calls received by the canister, each made once
  NumServices,  \* services are numbered in the order of BTreeSet<RpcService>
  Supported,    \* services that resolve to a provider of the PROVIDERS table
  Malformed,    \* custom services whose URL or headers build no request, or
                \* whose URL names no host
  Unkeyed,      \* providers that need an API key and have none configured
  Host,         \* host names, the key of the metrics
  HostOf,       \* the host of the URL requested; services may share one
  HostnameOf,   \* Provider::hostname: the host of the URL that takes the key,
                \* not always the one of the public URL requested without it
  Value,        \* successful answers, as natural numbers
  Code,         \* JSON-RPC error codes, HTTP statuses and reject codes
  BadResponse,  \* kinds of HTTP response that are no answer
  Strategy,     \* consensus strategies callers ask for
  Estimate,     \* values of response_size_estimate that pass its assertion
  SizeFloor,    \* the size doubled by the first retry of a smaller estimate
  SizeMax,      \* HTTP_MAX_SIZE, the largest max_response_bytes
  Cost,         \* cycles an outcall needs, by service and size
  Collateral,   \* COLLATERAL_CYCLES_PER_NODE times the number of nodes
  Attached,     \* amounts of cycles callers attach
  IdModulus,    \* number of request ids, 2^64 in the code
  FirstId       \* the next id when the first of these calls is made; calls to
                \* other hosts drew the ones before it

Service == 1..NumServices
Size == 1..SizeMax

ASSUME CallAssumption == IsFiniteSet(Call)
ASSUME ServiceAssumption ==
  /\ NumServices \in Nat \ {0}
  /\ Supported \subseteq Service
  /\ Malformed \subseteq Service \ Supported
  /\ Unkeyed \subseteq Supported
  /\ HostOf \in [Service -> Host]
  /\ HostnameOf \in [Service -> Host]
ASSUME DataAssumption ==
  /\ Value \subseteq Nat
  /\ Code \subseteq Nat
  /\ BadResponse \subseteq {"json", "status", "badJson", "badId"}
  /\ Strategy \subseteq 0..255
  /\ SizeFloor \in Nat \ {0}
  /\ SizeMax \in Nat \ {0}
  /\ Estimate \subseteq Size
ASSUME CyclesAssumption ==
  /\ Cost \in [Service -> [Size -> Nat]]
  /\ Collateral \in Nat
  /\ Attached \subseteq Nat
ASSUME IdAssumption ==
  /\ IdModulus \in Nat \ {0}
  /\ FirstId \in 0..(IdModulus - 1)

VARIABLES
  demo,                  \* IS_DEMO_ACTIVE: calls are free of charge
  counter,               \* UNSTABLE_HTTP_REQUEST_COUNTER
  usage,                 \* ok results recorded per service (ages left out)
  requests,              \* metric, per host
  responses,             \* metric, per host (all statuses together)
  errMaxResponseSize,    \* metric err_max_response_size_exceeded, per host
  errHttpOutcall,        \* metric err_http_outcall, per host (all codes)
  inconsistentResponses, \* metric, per host
  phase,                 \* progress of each call
  req,                   \* arguments of each call, fixed when it starts
  avail,                 \* cycles of the call not yet accepted
  slot,                  \* per call and service: the outcall and its result
  reply,                 \* answer to the caller
  spent,                 \* history: cycles the canister attached to outcalls
  sent,                  \* history: outcalls made for the call
  unfunded,              \* history: attempts stopped for want of cycles
  recent                 \* history: calls answered since the last upgrade

metricVars == <<requests, responses, errMaxResponseSize, errHttpOutcall,
                inconsistentResponses, unfunded>>
callVars == <<phase, req, avail, slot, reply, spent, sent>>
vars == <<demo, counter, usage, metricVars, callVars, recent>>

(***************************************************************************)
(* Results of one provider.  x and y carry what makes two errors of the    *)
(* same kind differ: RpcError is compared field by field in a reduction.   *)
(***************************************************************************)
Result == [kind : {"none", "ok", "json", "status", "badJson", "badId", "ic",
                   "tooLarge", "cycles", "invalid"}, x : Nat, y : Nat]

Res(kind, x, y) == [kind |-> kind, x |-> x, y |-> y]
NoResult == Res("none", 0, 0)
TooFewCycles(expected, received) == Res("cycles", expected, received)

(***************************************************************************)
(* What an HTTP response can turn into: the decoded value, the JSON-RPC    *)
(* error the provider put in its answer, a status outside 200..299, a body *)
(* that is not a JSON-RPC response, or an answer under another request id  *)
(* (an error that quotes the id expected, so it differs per outcall).      *)
(***************************************************************************)
ResponseResult(id) ==
  {Res("ok", v, 0) : v \in Value} \cup
  {Res(kind, k, 0) : kind \in BadResponse \ {"badId"}, k \in Code} \cup
  {Res(kind, id, 0) : kind \in BadResponse \cap {"badId"}}

Unused == [st |-> "unused", id |-> 0, size |-> 0, res |-> NoResult]
Settled(res) == [st |-> "settled", id |-> 0, size |-> 0, res |-> res]
Slot == {Unused}
   \cup [st : {"unsent", "inflight"}, id : Nat, size : Size, res : {NoResult}]
   \cup [st : {"settled"}, id : {0}, size : {0}, res : Result \ {NoResult}]

Reply == [kind : {"none", "consistent", "inconsistent"}, res : Result]
NoReply == [kind |-> "none", res |-> NoResult]

INSTANCE Reduction

Args == [services : SUBSET Service, min : 0..255, retry : BOOLEAN,
         charging : BOOLEAN, attached : Nat]
NoArgs == [services |-> {}, min |-> Equality, retry |-> FALSE,
           charging |-> FALSE, attached |-> 0]

TypeOK ==
  /\ demo \in BOOLEAN
  /\ counter \in 0..(IdModulus - 1)
  /\ usage \in [Service -> Nat]
  /\ requests \in [Host -> Nat]
  /\ responses \in [Host -> Nat]
  /\ errMaxResponseSize \in [Host -> Nat]
  /\ errHttpOutcall \in [Host -> Nat]
  /\ inconsistentResponses \in [Host -> Nat]
  /\ phase \in [Call -> {"new", "sending", "waiting", "finishing",
                         "replied", "trapped"}]
  /\ req \in [Call -> Args]
  /\ avail \in [Call -> Nat]
  /\ slot \in [Call -> [Service -> Slot]]
  /\ reply \in [Call -> Reply]
  /\ spent \in [Call -> Nat]
  /\ sent \in [Call -> Nat]
  /\ unfunded \in [Host -> Nat]
  /\ recent \in SUBSET Call

Init ==
  /\ demo \in BOOLEAN
  /\ counter = FirstId
  /\ usage = [s \in Service |-> 0]
  /\ requests = [h \in Host |-> 0]
  /\ responses = [h \in Host |-> 0]
  /\ errMaxResponseSize = [h \in Host |-> 0]
  /\ errHttpOutcall = [h \in Host |-> 0]
  /\ inconsistentResponses = [h \in Host |-> 0]
  /\ phase = [c \in Call |-> "new"]
  /\ req = [c \in Call |-> NoArgs]
  /\ avail = [c \in Call |-> 0]
  /\ slot = [c \in Call |-> [s \in Service |-> Unused]]
  /\ reply = [c \in Call |-> NoReply]
  /\ spent = [c \in Call |-> 0]
  /\ sent = [c \in Call |-> 0]
  /\ unfunded = [h \in Host |-> 0]
  /\ recent = {}

-----------------------------------------------------------------------------
(* Helpers of the handlers. *)

Bump(metric, h) == [metric EXCEPT ![h] = @ + 1]

(* No message is being executed. *)
Idle == \A c \in Call : phase[c] \notin {"sending", "finishing"}

Open(c) == phase[c] \in {"sending", "waiting", "finishing"}

(* Mutant of PhaseOf: the call goes on after the first reply. *)
PhaseOfFirstReply(slots) ==
  IF \E s \in Service : slots[s].st = "unsent" THEN "sending"
  ELSE IF \E s \in Service : slots[s].st = "settled" THEN "finishing"
  ELSE "waiting"

(* Where a call stands once its slots are as given. *)
PhaseOf(slots) ==
  IF \E s \in Service : slots[s].st = "unsent" THEN "sending"
  ELSE IF \E s \in Service : slots[s].st = "inflight" THEN "waiting"
  ELSE "finishing"

(* Mutant of Charge: the collateral is not charged. *)
ChargeCostOnly(c, s, z) == IF req[c].charging THEN Cost[s][z] ELSE 0

(* Cycles taken from the caller for one outcall (ChargingPolicyWithCollateral
   over what CyclesAccounting attaches); the policy was fixed with the call. *)
Charge(c, s, z) ==
  IF req[c].charging THEN Cost[s][z] + Collateral ELSE 0

(* DoubleMaxResponseBytes: the size of the next attempt. *)
Double(z) ==
  LET twice == 2 * (IF z < SizeFloor THEN SizeFloor ELSE z)
  IN  IF twice > SizeMax THEN SizeMax ELSE twice

(* Mutants of NextId: the counter stops at the largest id (saturating_add), or
   does not wrap. *)
NextIdSaturating(id) == IF id = IdModulus - 1 THEN id ELSE id + 1
NextIdUnbounded(id) == id + 1

(* next_request_id *)
NextId(id) == (id + 1) % IdModulus

(* One pass of a request through the http_client layers, down to the outcall:
   a fresh id, the request metric, and the cycles.  Too few cycles settle the
   service at once, and no outcall is made. *)
Issue(c, s, z) ==
  LET charge == Charge(c, s, z)
      id == IF req[c].retry THEN counter ELSE 0
  IN  /\ counter' = IF req[c].retry THEN NextId(counter) ELSE counter
      /\ requests' = Bump(requests, HostOf[s])
      /\ \/ /\ avail[c] >= charge
            /\ avail' = [avail EXCEPT ![c] = @ - charge]
            /\ spent' = [spent EXCEPT ![c] = @ + Cost[s][z]]
            /\ sent' = [sent EXCEPT ![c] = @ + 1]
            /\ slot' = [slot EXCEPT ![c][s] =
                 [st |-> "inflight", id |-> id, size |-> z, res |-> NoResult]]
            /\ UNCHANGED unfunded
         \/ /\ avail[c] < charge
            /\ slot' = [slot EXCEPT ![c][s] =
                 Settled(TooFewCycles(charge, avail[c]))]
            /\ unfunded' = Bump(unfunded, HostOf[s])
            /\ UNCHANGED <<avail, spent, sent>>
      /\ phase' = [phase EXCEPT ![c] = PhaseOf(slot'[c])]

(* Mutant of Settle: the call is not resumed by its last result. *)
SettleOnly(c, s, res) ==
  /\ slot' = [slot EXCEPT ![c][s] = Settled(res)]
  /\ UNCHANGED <<phase, counter, requests, unfunded, avail, spent, sent>>

(* The outcall of service s is over and res is its final result. *)
Settle(c, s, res) ==
  /\ slot' = [slot EXCEPT ![c][s] = Settled(res)]
  /\ phase' = [phase EXCEPT ![c] = PhaseOf(slot'[c])]
  /\ UNCHANGED <<counter, requests, unfunded, avail, spent, sent>>

-----------------------------------------------------------------------------
(* Reducing the results to one answer (module Reduction). *)

ResultsOf(c) == [s \in Service |-> slot[c][s].res]

(* Mutant of Reduce: any result is taken for the answer. *)
ReduceToAny(c) == {Consistent(ResultsOf(c)[s]) : s \in req[c].services}

Reduce(c) == ByStrategy(req[c].services, ResultsOf(c), req[c].min)

-----------------------------------------------------------------------------
(* The handlers. *)

(* The message enters the loop over its services. *)
Begin(c, S, m, z, a, retry) ==
  /\ Idle
  /\ phase[c] = "new"
  /\ S \cap (Malformed \cup Unkeyed) = {}
  /\ req' = [req EXCEPT ![c] =
       [services |-> S, min |-> m, retry |-> retry, charging |-> ~demo,
        attached |-> a]]
  /\ avail' = [avail EXCEPT ![c] = a]
  /\ slot' = [slot EXCEPT ![c] = [s \in Service |->
       IF s \in S THEN [st |-> "unsent", id |-> 0, size |-> z, res |-> NoResult]
                  ELSE Unused]]
  /\ phase' = [phase EXCEPT ![c] = "sending"]
  /\ UNCHANGED <<demo, counter, usage, metricVars, reply, spent, sent, recent>>

(* An eth_* endpoint queries the chosen services. *)
StartCall(c, S, m, z, a) == S # {} /\ Begin(c, S, m, z, a, TRUE)

(* The request endpoint queries one service, once, under the caller's id, and
   returns the response as it is, a JSON-RPC error included. *)
StartRequest(c, s, z, a) == Begin(c, {s}, Equality, z, a, FALSE)

(* An argument is refused with an error: no provider, an invalid strategy, a
   block range too large, a payload that is not JSON-RPC, a custom service of
   the request endpoint of which no request can be built. *)
EarlyReturn(c) ==
  /\ Idle
  /\ phase[c] = "new"
  /\ phase' = [phase EXCEPT ![c] = "replied"]
  /\ reply' = [reply EXCEPT ![c] = Consistent(Res("invalid", 0, 0))]
  /\ UNCHANGED <<demo, counter, usage, metricVars, req, avail, slot, spent,
                 sent, recent>>

(* Building the requests panics before any outcall: the message is rolled
   back and the caller gets a reject. *)
Trap(c, S) ==
  /\ Idle
  /\ phase[c] = "new"
  /\ S \cap (Malformed \cup Unkeyed) # {}
  /\ phase' = [phase EXCEPT ![c] = "trapped"]
  /\ UNCHANGED <<demo, counter, usage, metricVars, req, avail, slot, reply,
                 spent, sent, recent>>

(* One iteration of parallel_call: the next service in order is called. *)
Send(c) ==
  /\ phase[c] = "sending"
  /\ \E s \in Service :
       /\ slot[c][s].st = "unsent"
       /\ \A t \in Service : t < s => slot[c][t].st # "unsent"
       /\ Issue(c, s, slot[c][s].size)
  /\ UNCHANGED <<demo, usage, responses, errMaxResponseSize, errHttpOutcall,
                 inconsistentResponses, req, reply, recent>>

(* Mutant of AwaitsReply: a settled outcall can be answered again. *)
AwaitsAnyReply(c, s) ==
  Idle /\ phase[c] = "waiting" /\ slot[c][s].st # "unused"

AwaitsReply(c, s) ==
  /\ Idle
  /\ phase[c] = "waiting"
  /\ slot[c][s].st = "inflight"

(* The outcall returned an HTTP response: on_response, or on_error for a
   response that is not an answer.  Each counts as a response. *)
Responded(c, s, res) ==
  /\ AwaitsReply(c, s)
  /\ res \in ResponseResult(slot[c][s].id)
  /\ responses' = Bump(responses, HostOf[s])
  /\ Settle(c, s, res)
  /\ UNCHANGED <<demo, usage, errMaxResponseSize, errHttpOutcall,
                 inconsistentResponses, req, reply, recent>>

(* Mutant of OutcallFailed: on_error does not count it. *)
OutcallFailedUncounted(c, s, code) ==
  /\ AwaitsReply(c, s)
  /\ Settle(c, s, Res("ic", code, 0))
  /\ UNCHANGED <<demo, usage, responses, errHttpOutcall, errMaxResponseSize,
                 inconsistentResponses, req, reply, recent>>

(* The IC rejected the outcall: a timeout, replicas without consensus... *)
OutcallFailed(c, s, code) ==
  /\ AwaitsReply(c, s)
  /\ errHttpOutcall' = Bump(errHttpOutcall, HostOf[s])
  /\ Settle(c, s, Res("ic", code, 0))
  /\ UNCHANGED <<demo, usage, responses, errMaxResponseSize,
                 inconsistentResponses, req, reply, recent>>

(* Mutant of Retries: the limit of the last attempt is not looked at. *)
RetriesAlways(c, z) == req[c].retry

(* A retry is made with the doubled size, as long as it grows. *)
Retries(c, z) == req[c].retry /\ Double(z) > z

(* The response exceeded max_response_bytes.  A retry passes through all the
   layers below RetryLayer again, within the same message. *)
TooLarge(c, s) ==
  LET z == slot[c][s].size
  IN  /\ AwaitsReply(c, s)
      /\ errMaxResponseSize' = Bump(errMaxResponseSize, HostOf[s])
      /\ \/ Retries(c, z) /\ Issue(c, s, Double(z))
         \/ ~Retries(c, z) /\ Settle(c, s, Res("tooLarge", 0, 0))
      /\ UNCHANGED <<demo, usage, responses, errHttpOutcall,
                     inconsistentResponses, req, reply, recent>>

(* Mutant of RecordOkResults: a service that failed is recorded as well. *)
RecordAllResults(c) ==
  [s \in Service |-> IF s \in req[c].services \cap Supported /\ req[c].retry
                     THEN usage[s] + 1 ELSE usage[s]]

(* record_ok_result for the supported services that gave an ok result. *)
RecordOkResults(c) ==
  [s \in Service |->
     IF s \in Supported /\ req[c].retry /\ slot[c][s].res.kind = "ok"
     THEN usage[s] + 1 ELSE usage[s]]

(* process_result: an inconsistent answer counts for each supported service. *)
CountInconsistent(c, r) ==
  IF r = Inconsistent
  THEN [h \in Host |-> inconsistentResponses[h] +
          Cardinality({s \in req[c].services \cap Supported :
                          HostnameOf[s] = h})]
  ELSE inconsistentResponses

(* The last result is in: parallel_call records the services that answered,
   the results are reduced, an inconsistency is counted for every supported
   service that was queried, and the caller is answered. *)
Finish(c) ==
  /\ phase[c] = "finishing"
  /\ usage' = RecordOkResults(c)
  /\ \E r \in Reduce(c) :
       /\ \E a \in Collapse(req[c].services, ResultsOf(c), r) :
            reply' = [reply EXCEPT ![c] = a]
       /\ inconsistentResponses' = CountInconsistent(c, r)
  /\ phase' = [phase EXCEPT ![c] = "replied"]
  /\ recent' = recent \cup {c}
  /\ UNCHANGED <<demo, counter, requests, responses, errMaxResponseSize,
                 errHttpOutcall, unfunded, req, avail, slot, spent, sent>>

(* post_upgrade of a stopped canister: unstable state starts afresh. *)
Upgrade(d) ==
  /\ \A c \in Call : ~Open(c)
  /\ demo' = d
  /\ counter' = 0
  /\ usage' = [s \in Service |-> 0]
  /\ requests' = [h \in Host |-> 0]
  /\ responses' = [h \in Host |-> 0]
  /\ errMaxResponseSize' = [h \in Host |-> 0]
  /\ errHttpOutcall' = [h \in Host |-> 0]
  /\ inconsistentResponses' = [h \in Host |-> 0]
  /\ unfunded' = [h \in Host |-> 0]
  /\ recent' = {}
  /\ UNCHANGED callVars

Start(c) ==
  \/ \E S \in SUBSET Service, m \in Strategy, z \in Estimate, a \in Attached :
       StartCall(c, S, m, z, a)
  \/ \E s \in Service, z \in Estimate, a \in Attached : StartRequest(c, s, z, a)
  \/ EarlyReturn(c)
  \/ \E S \in SUBSET Service : Trap(c, S)

OutcallReply(c, s) ==
  \/ \E res \in ResponseResult(slot[c][s].id) : Responded(c, s, res)
  \/ \E code \in Code : OutcallFailed(c, s, code)
  \/ TooLarge(c, s)

Next ==
  \/ \E c \in Call : Start(c) \/ Send(c) \/ Finish(c)
  \/ \E c \in Call, s \in Service : OutcallReply(c, s)
  \/ \E d \in BOOLEAN : Upgrade(d)

Spec == Init /\ [][Next]_vars

(* A message that runs goes on to its end, and the IC answers every outcall,
   with a reject if need be. *)
Fairness ==
  /\ \A c \in Call : WF_vars(Send(c)) /\ WF_vars(Finish(c))
  /\ \A c \in Call, s \in Service : WF_vars(OutcallReply(c, s))

FairSpec == Spec /\ Fairness

-----------------------------------------------------------------------------
(* Properties. *)

(* The caller pays for exactly the outcalls made on its behalf, retries
   included: what was accepted is what the outcalls cost plus the collateral
   of each, so the canister never spends its own cycles on a charged call and
   never keeps cycles for an attempt it did not make.  In demo mode nothing is
   accepted.  (CyclesAccounting in http_client, ChargingPolicyWithCollateral) *)
CyclesCovered ==
  \A c \in Call :
    req[c].attached - avail[c] =
      IF req[c].charging THEN spent[c] + Collateral * sent[c] ELSE 0

(* A call that has not begun has touched nothing: the strengthening that makes
   CyclesCovered and the phase invariants inductive. *)
NewUntouched ==
  \A c \in Call : phase[c] = "new" =>
    /\ req[c] = NoArgs
    /\ avail[c] = 0 /\ spent[c] = 0 /\ sent[c] = 0
    /\ slot[c] = [s \in Service |-> Unused]

(* The outcalls to host h that are on their way, over all the calls. *)
InFlight(h) == {p \in Call \X Service : /\ slot[p[1]][p[2]].st = "inflight"
                                        /\ HostOf[p[2]] = h}

(* Every request counted for a host is accounted for: it was answered (as a
   response, as a too large response or as a failed outcall), it is still on
   its way, or it was never sent for want of cycles, whatever calls and
   retries interleave.  (on_request, on_response, on_error of http_client) *)
MetricsBalance ==
  \A h \in Host :
    requests[h] = responses[h] + errMaxResponseSize[h] + errHttpOutcall[h]
                  + unfunded[h] + Cardinality(InFlight(h))

(* A call is reduced and answered only when each queried service has exactly
   one final result and no outcall of the call is on its way, and no other
   service has one ("BUG: expected 1 result per provider"). *)
SettledBeforeReply ==
  \A c \in Call, s \in Service :
    phase[c] \in {"finishing", "replied"} =>
      slot[c][s].st = (IF s \in req[c].services THEN "settled" ELSE "unused")

(* How many of the queried services ended with this result. *)
Backing(c, res) ==
  Cardinality({s \in req[c].services : slot[c][s].res = res})

Answered(c) == phase[c] = "replied" /\ req[c].services # {}

(* A value was returned by all the services, or by min of them; an error is
   the result of every one of them; and services are reported inconsistent
   only when they disagree and no value has the support the strategy asks
   for (ConsensusStrategy, process_result and collapse). *)
ReplyBacked ==
  \A c \in Call : Answered(c) =>
    LET n == Cardinality(req[c].services)
        quorum == IF req[c].min = Equality THEN n ELSE req[c].min
        res == reply[c].res
    IN  /\ reply[c].kind = "consistent" =>
             \/ Backing(c, res) = n
             \/ res.kind = "ok" /\ Backing(c, res) >= quorum
        /\ reply[c].kind = "inconsistent" =>
             \A s \in req[c].services :
               LET b == Backing(c, slot[c][s].res) IN
               /\ b < n
               /\ slot[c][s].res.kind = "ok" => b < quorum

(* What ConsensusStrategy::Threshold documents: a value is returned only when
   at least min providers returned it.  With more asked for than there are
   services the reduction finds no value, and collapse returns one. *)
ThresholdHonoured ==
  \A c \in Call :
    /\ Answered(c) /\ req[c].min # Equality
    /\ reply[c].kind = "consistent" /\ reply[c].res.kind = "ok"
    => Backing(c, reply[c].res) >= req[c].min

(* When the threshold is a majority of the services, or with equality, the
   results leave no choice for the answer: it depends neither on the order
   in which replies came in nor on how ties are broken. *)
MajorityDecides ==
  \A c \in Call :
    /\ phase[c] = "finishing"
    /\ req[c].min = Equality \/ 2 * req[c].min > Cardinality(req[c].services)
    => Cardinality(Reduce(c)) = 1

(* No two outcalls on their way carry the same generated request id, so that
   log lines and replies can be told apart across calls and retries.
   (next_request_id; ids would only repeat after IdModulus requests.) *)
IdsInFlightDistinct ==
  \A c, d \in Call, s, t \in Service :
    /\ slot[c][s].st = "inflight" /\ slot[d][t].st = "inflight"
    /\ req[c].retry /\ req[d].retry
    /\ slot[c][s].id = slot[d][t].id
    => c = d /\ s = t

(* The ranking of the providers rests on the number of calls each supported
   service answered since the last upgrade: consistent or not, once per call
   however many retries it took, and never for an error or for request. *)
UsageCountsOkResults ==
  \A s \in Service :
    usage[s] = Cardinality({c \in recent : /\ s \in Supported
                                           /\ req[c].retry
                                           /\ slot[c][s].res.kind = "ok"})

(* A final result is final, an answer is given once, and a call that was
   answered or trapped is never charged again: late steps of other calls and
   upgrades leave it alone. *)
ResultsAreFinal ==
  [][\A c \in Call :
       /\ \A s \in Service :
            slot[c][s].st = "settled" => slot'[c][s] = slot[c][s]
       /\ phase[c] \in {"replied", "trapped"} =>
            <<phase[c], reply[c], avail[c]>>' = <<phase[c], reply[c], avail[c]>>
    ]_vars

(* An outcall is replaced by another one for the same service only as a retry
   of an eth_* call: with a strictly larger limit, under a new id, and paid
   for in the same step. *)
RetryIsLargerAndPaid ==
  [][\A c \in Call, s \in Service :
       /\ slot[c][s].st = "inflight" /\ slot'[c][s].st = "inflight"
       /\ slot'[c][s] # slot[c][s]
       => /\ req[c].retry
          /\ slot'[c][s].size > slot[c][s].size
          /\ slot'[c][s].id # slot[c][s].id
          /\ avail'[c] = avail[c] - Charge(c, s, slot'[c][s].size)
    ]_vars

(* Every call that starts is answered: retries end at SizeMax, and a service
   that fails, is slow or is out of cycles cannot keep the call open. *)
EveryCallAnswered == \A c \in Call : Open(c) ~> phase[c] = "replied"

(* The calls implement MultiCall: seen from the callers, each is refused at no
   cost or goes through one answer per queried service, pays within what was
   attached while it is open, and ends in one faithful reply. *)
Promise == INSTANCE MultiCall WITH
  status <- [c \in Call |-> IF phase[c] = "new" THEN "new"
                             ELSE IF Open(c) THEN "open" ELSE "done"],
  args <- [c \in Call |-> [services |-> req[c].services, min |-> req[c].min,
                            attached |-> req[c].attached]],
  answer <- [c \in Call |-> [s \in Service |-> slot[c][s].res]],
  paid <- [c \in Call |-> req[c].attached - avail[c]]

ImplementsMultiCall == Promise!Spec
=============================================================================
