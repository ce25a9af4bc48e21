-------------------------- MODULE ProviderSelection --------------------------
(***************************************************************************)
(* Which services an eth_* call queries.  A caller names them, or leaves   *)
(* the choice to the canister, which takes the services of the network     *)
(* with the most ok results in the last 20 minutes (Providers::new,        *)
(* choose_providers, SupportedRpcServiceUsage).  The choice is made when a *)
(* call starts; its ok results are recorded when it ends, after any number *)
(* of other calls started, ended and recorded theirs.                      *)
(***************************************************************************)
EXTENDS Integers, FiniteSets, Sequences, SequencesExt

CONSTANTS
  Call,        \* calls in progress at the same time
  Network,     \* networks with supported providers
  List,        \* per network, its supported services in their default order
  Custom,      \* services that are not supported ones
  Request,     \* choices callers make
  Window,      \* age up to which an ok result counts, 20 minutes in the code
  Capacity,    \* ok results kept per service, 500 in the code
  DefaultNum,  \* DEFAULT_NUM_PROVIDERS_FOR_EQUALITY, 3 in the code
  U8,          \* number of values of u8, 256
  Horizon,     \* bound on the clock
  MaxRecorded  \* bound on the ok results recorded between two upgrades

Supported == UNION {Range(List[n]) : n \in Network}
Service == Supported \cup Custom
Time == 0..Horizon
NoTotal == -1

(* A caller's choice: the network, the services if it gives any (Some of a
   possibly empty list, or None), and ConsensusStrategy. *)
IsRequest(q) ==
  /\ q.net \in Network
  /\ q.given \in BOOLEAN
  /\ q.list \in Seq(Service)
  /\ q.strategy \in {"equality", "threshold"}
  /\ q.min \in 0..(U8 - 1)
  /\ q.total \in {NoTotal} \cup 0..(U8 - 1)

ASSUME ListAssumption ==
  /\ IsFiniteSet(Network)
  /\ \A n \in Network : /\ List[n] \in Seq(Supported) /\ IsInjective(List[n])
                        /\ Len(List[n]) < U8
ASSUME RequestAssumption == \A q \in Request : IsRequest(q)
ASSUME BoundAssumption ==
  /\ Window \in Nat /\ Horizon \in Nat /\ MaxRecorded \in Nat
  /\ Capacity \in Nat \ {0} /\ DefaultNum \in Nat \ {0} /\ U8 \in Nat \ {0}
  /\ Supported \cap Custom = {}

VARIABLES
  now,     \* ic_cdk::api::time()
  store,   \* times of the ok results kept per service, oldest first
  phase,   \* "idle" or "open", per call
  query,   \* the request of an open call
  chosen,  \* its services, fixed when it started
  log      \* history: times of all the ok results since the last upgrade

vars == <<now, store, phase, query, chosen, log>>

NoQuery == [net |-> "none"]

TypeOK ==
  /\ now \in Time
  /\ store \in [Supported -> BoundedSeq(Time, Capacity)]
  /\ phase \in [Call -> {"idle", "open"}]
  /\ query \in [Call -> Request \cup {NoQuery}]
  /\ chosen \in [Call -> SUBSET Service]
  /\ log \in [Supported -> BoundedSeq(Time, MaxRecorded)]

Init ==
  /\ now = 0
  /\ store = [s \in Supported |-> <<>>]
  /\ phase = [c \in Call |-> "idle"]
  /\ query = [c \in Call |-> NoQuery]
  /\ chosen = [c \in Call |-> {}]
  /\ log = [s \in Supported |-> <<>>]

-----------------------------------------------------------------------------
(* The usage record. *)

(* evict_expired: what remains of the results kept for a service.  They are
   kept in the order of their times, so that those that expired come first. *)
Unexpired(times) ==
  LET expired == {i \in DOMAIN times : now - times[i] > Window}
  IN  SubSeq(times, Cardinality(expired) + 1, Len(times))

(* Mutants of Insert: the capacity is ignored, or the newest result goes. *)
InsertUncapped(times) == Append(Unexpired(times), now)
InsertOverNewest(times) ==
  LET kept == Unexpired(times)
  IN  Append(IF Len(kept) = Capacity THEN Front(kept) ELSE kept, now)

(* insert_evict: expired results go, the oldest one makes room. *)
Insert(times) ==
  LET kept == Unexpired(times)
  IN  Append(IF Len(kept) = Capacity THEN Tail(kept) ELSE kept, now)

(* Mutant of Count: expired results still count. *)
CountAll(s) == Len(store[s])

(* What a service is ranked by. *)
Count(s) == Len(Unexpired(store[s]))

(* rank_ascending_evict, then take(k): the k services of the list with the
   most results, those with as many in the order of the list. *)
Top(list, k) ==
  LET before(i, j) == \/ Count(list[i]) > Count(list[j])
                      \/ Count(list[i]) = Count(list[j]) /\ i < j
      rank(j) == Cardinality({i \in DOMAIN list : before(i, j)})
  IN  {list[j] : j \in {k0 \in DOMAIN list : rank(k0) < k}}

-----------------------------------------------------------------------------
(* choose_providers *)

(* Mutant of Accepted: min is not compared with the number of services. *)
AcceptedAnyMin(q) ==
  \/ q.strategy = "equality"
  \/ /\ q.min > 0
     /\ q.given => q.total \in {NoTotal, Len(q.list) % U8}
     /\ ~q.given => q.total # NoTotal /\ q.total <= Len(List[q.net]) % U8

(* The strategy passes the checks of choose_providers. *)
Accepted(q) ==
  \/ q.strategy = "equality"
  \/ /\ q.min > 0
     /\ q.given => /\ q.min <= Len(q.list) % U8
                   /\ q.total \in {NoTotal, Len(q.list) % U8}
     /\ ~q.given => /\ q.total # NoTotal
                    /\ q.min <= q.total
                    /\ q.total <= Len(List[q.net]) % U8

Wanted(q) == IF q.strategy = "equality" THEN DefaultNum ELSE q.total

Choice(q) == IF q.given THEN Range(q.list) ELSE Top(List[q.net], Wanted(q))

-----------------------------------------------------------------------------
(* The steps. *)

(* Providers::new succeeds and the call goes on to its outcalls.  Ranking the
   services of a network forgets their expired results. *)
Start(c, q) ==
  /\ phase[c] = "idle"
  /\ Accepted(q) /\ Choice(q) # {}
  /\ phase' = [phase EXCEPT ![c] = "open"]
  /\ query' = [query EXCEPT ![c] = q]
  /\ chosen' = [chosen EXCEPT ![c] = Choice(q)]
  /\ store' = [s \in Supported |->
       IF ~q.given /\ s \in Range(List[q.net]) THEN Unexpired(store[s])
                                               ELSE store[s]]
  /\ UNCHANGED <<now, log>>

(* InvalidRpcConfig or ProviderNotFound: the caller gets the error, and
   nothing was ranked. *)
Refuse(c, q) ==
  /\ phase[c] = "idle"
  /\ ~Accepted(q) \/ Choice(q) = {}
  /\ UNCHANGED vars

(* The number of ok results recorded since the last upgrade. *)
Recorded == Cardinality(UNION {{s} \X DOMAIN log[s] : s \in Supported})

(* The results of the call are in and those of oks are Ok: record_ok_result
   for each supported one. *)
Finish(c, oks) ==
  /\ phase[c] = "open"
  /\ Recorded + Cardinality(oks) <= MaxRecorded
  /\ phase' = [phase EXCEPT ![c] = "idle"]
  /\ query' = [query EXCEPT ![c] = NoQuery]
  /\ chosen' = [chosen EXCEPT ![c] = {}]
  /\ store' = [s \in Supported |->
                 IF s \in oks THEN Insert(store[s]) ELSE store[s]]
  /\ log' = [s \in Supported |->
               IF s \in oks THEN Append(log[s], now) ELSE log[s]]
  /\ UNCHANGED now

Tick ==
  /\ now < Horizon
  /\ now' = now + 1
  /\ UNCHANGED <<store, phase, query, chosen, log>>

(* post_upgrade of a stopped canister: the record is not kept. *)
Upgrade ==
  /\ \A c \in Call : phase[c] = "idle"
  /\ store' = [s \in Supported |-> <<>>]
  /\ log' = [s \in Supported |-> <<>>]
  /\ UNCHANGED <<now, phase, query, chosen>>

Next ==
  \/ \E c \in Call, q \in Request : Start(c, q) \/ Refuse(c, q)
  \/ \E c \in Call : \E oks \in SUBSET chosen[c] : Finish(c, oks)
  \/ Tick
  \/ Upgrade

Spec == Init /\ [][Next]_vars

-----------------------------------------------------------------------------
(* Properties. *)

Newest(times, n) ==
  SubSeq(times, 1 + (IF Len(times) > n THEN Len(times) - n ELSE 0), Len(times))

(* Whatever was evicted at whatever time, by the calls that rank and by those
   that record, the unexpired results kept for a service are the newest
   Capacity ones of all the ok results of the window.
   (record_evict, rank_ascending_evict) *)
StoreHoldsTheWindow ==
  \A s \in Supported :
    Unexpired(store[s]) = Newest(Unexpired(log[s]), Capacity)

(* Ok results of the window, up to the capacity. *)
Recent(s) == Len(Newest(Unexpired(log[s]), Capacity))

(* A call that leaves the choice to the canister queries as many different
   services as it asked for, or all there are, and no service left out has
   more recent ok results than one chosen, or as many and an earlier place
   in the default order ("BUG: duplicate providers" in choose_providers). *)
DefaultsAreTheBest ==
  [][\A c \in Call :
       phase[c] = "idle" /\ phase'[c] = "open" /\ ~query'[c].given =>
         LET list == List[query'[c].net]
             in(i) == list[i] \in chosen'[c]
             k == Wanted(query'[c])
         IN  /\ chosen'[c] \subseteq Range(list)
             /\ Cardinality(chosen'[c]) = IF k < Len(list) THEN k ELSE Len(list)
             /\ \A i, j \in DOMAIN list : in(i) /\ ~in(j) =>
                  \/ Recent(list[i]) > Recent(list[j])
                  \/ Recent(list[i]) = Recent(list[j]) /\ i < j
    ]_vars

Thresholds == {c \in Call : phase[c] = "open" /\ query[c].strategy = "threshold"}

(* A threshold can be met when the caller repeated no service: at least one
   service and at least min services are queried, even when the length of the
   list does not fit into the u8 it is compared in. *)
ThresholdCanBeMet ==
  \A c \in Thresholds : IsInjective(query[c].list) =>
    0 < query[c].min /\ query[c].min <= Cardinality(chosen[c])
=============================================================================
