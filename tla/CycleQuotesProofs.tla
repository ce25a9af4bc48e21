-------------------------- MODULE CycleQuotesProofs --------------------------
(***************************************************************************)
(* Proofs about CycleQuotes for any number of requests of both kinds of    *)
(* callers, any prices and any history of key changes and upgrades.        *)
(***************************************************************************)
EXTENDS CycleQuotes, TLAPS

(* What a request was priced in: nothing yet, one configuration, or the last
   one and whether it is the one of the time before. *)
Seen == {<<>>} \cup {<<c>> : c \in Config}
               \cup {<<c, same>> : c \in Config, same \in BOOLEAN}

Tag == {"none", "Quote", "ProviderError", "ValidationError", "TooFewCycles",
        "Ok", "HttpOutcallError", "Rejected"}

TypeInv ==
  /\ config \in Config
  /\ nextId \in Nat
  /\ pc \in [Request -> {"idle", "asking", "quoted", "sent", "calling",
                         "replied", "done"}]
  /\ kind \in [Request -> Kind]
  /\ id \in [Request -> Nat]
  /\ cycles \in [Request -> Nat]
  /\ reply \in [Request -> [tag : Tag, amount : Nat]]
  /\ outcalls \in [Request -> Nat]
  /\ paid \in [Request -> Nat]
  /\ seen \in [Request -> Seen]

(* At most one outcall, paid at the price it was made at. *)
OutcallInv(r) ==
  /\ outcalls[r] \in {0, 1}
  /\ paid[r] = IF outcalls[r] = 0 THEN 0 ELSE Charge(seen[r][1])
  /\ outcalls[r] = 1 => seen[r] # <<>>
  /\ pc[r] \in {"idle", "asking", "quoted", "sent"} => outcalls[r] = 0
  /\ pc[r] = "replied" /\ reply[r].tag = "TooFewCycles" => outcalls[r] = 0

(* What a caller of requestCost holds before it is answered. *)
QuotingInv(r) ==
  /\ pc[r] \in {"idle", "asking"} => seen[r] = <<>>
  /\ pc[r] \in {"quoted", "sent"} =>
       /\ Len(seen[r]) = 1
       /\ reply[r] = RequestCost(seen[r][1], kind[r])
  /\ pc[r] = "sent" =>
       reply[r].tag = "Quote" /\ cycles[r] = reply[r].amount
  /\ PricedTwiceAlike(r) =>
       /\ reply[r].tag # "TooFewCycles"
       /\ outcalls[r] = 1 => paid[r] = cycles[r]

(* What the Motoko client holds: a second attempt carries the price of the
   first. *)
MotokoInv(r) ==
  /\ pc[r] \notin {"asking", "quoted"}
  /\ pc[r] = "idle" => seen[r] = <<>>
  /\ pc[r] = "sent" =>
       seen[r] = <<>> \/ (Len(seen[r]) = 1 /\ cycles[r] = Charge(seen[r][1]))
  /\ pc[r] = "replied" /\ reply[r].tag = "TooFewCycles" =>
       reply[r].amount = Charge(seen[r][1])
  /\ PricedTwiceAlike(r) /\ pc[r] \in {"replied", "done"} =>
       reply[r].tag # "TooFewCycles"

RequestInv(r) ==
  /\ OutcallInv(r)
  /\ r \in Quoting => QuotingInv(r)
  /\ r \in Motoko => MotokoInv(r)

IInv == TypeInv /\ \A r \in Request : RequestInv(r)
-----------------------------------------------------------------------------
(* Lemmas about the operators. *)

(* The charge for a request is a number of cycles. *)
LEMMA ChargeNat == \A c \in Config : Charge(c) \in Nat
  <1> SUFFICES ASSUME NEW c \in Config PROVE Charge(c) \in Nat
    OBVIOUS
  <1>1. c.nodes \in Nodes /\ c.key \in Key /\ c.nodes \in Nat
    BY QuotesAssumption DEF Config
  <1>2. Cost[c.nodes][c.key] \in Nat /\ Collateral * c.nodes \in Nat
    BY <1>1, QuotesAssumption
  <1> QED
    BY <1>2 DEF Charge, CyclesToCharge, ChargingPolicy

(* Nothing is charged in demo mode. *)
LEMMA DemoIsFree == \A c \in Config : c.demo => Charge(c) = 0
  BY DEF Charge, CyclesToCharge, ChargingPolicy

(* requestCost answers with a price or with the error request would give. *)
LEMMA RequestCostType ==
  ASSUME NEW c \in Config, NEW k \in Kind
  PROVE  /\ RequestCost(c, k) \in [tag : Tag, amount : Nat]
         /\ RequestCost(c, k).tag # "TooFewCycles"
  <1>1. Charge(c) \in Nat
    BY ChargeNat
  <1> QED
    BY <1>1 DEF RequestCost, Refusal, Refused, Reply, Tag

(* A quote for a request that is not refused is what it is charged. *)
LEMMA QuoteIsCharge ==
  ASSUME NEW c \in Config, NEW k, ~Refused(k)
  PROVE  RequestCost(c, k).amount = Charge(c)
  BY DemoIsFree DEF RequestCost, Reply

(* What pricing a request changes. *)
LEMMA PriceValue ==
  ASSUME TypeInv, NEW r \in Request, Price(r)
  PROVE  /\ seen' \in [Request -> Seen]
         /\ \A d \in Request : d # r => seen'[d] = seen[d]
         /\ seen'[r] # <<>> /\ seen'[r][1] = config
         /\ seen[r] = <<>> => Len(seen'[r]) = 1
         /\ seen[r] # <<>> =>
              Len(seen'[r]) = 2 /\ (seen'[r][2] <=> seen[r][1] = config)
  <1> DEFINE new == IF seen[r] = <<>> THEN <<config>>
                    ELSE <<config, seen[r][1] = config>>
  <1>1. seen' = [seen EXCEPT ![r] = new]
    BY DEF Price
  <1>2. new \in Seen
    <2>1. config \in Config /\ (seen[r][1] = config) \in BOOLEAN
      BY DEF TypeInv
    <2>2. <<config>> \in Seen /\ \A b \in BOOLEAN : <<config, b>> \in Seen
      BY <2>1 DEF Seen
    <2> QED
      BY <2>1, <2>2, Zenon
  <1>3. new # <<>> /\ new[1] = config
    OBVIOUS
  <1>4. /\ seen[r] = <<>> => Len(new) = 1
        /\ seen[r] # <<>> => Len(new) = 2 /\ (new[2] <=> seen[r][1] = config)
    OBVIOUS
  <1> HIDE DEF new
  <1>5. seen'[r] = new
    BY <1>1 DEF TypeInv
  <1>6. seen' \in [Request -> Seen] /\ \A d \in Request : d # r => seen'[d] = seen[d]
    BY <1>1, <1>2 DEF TypeInv
  <1> QED
    BY <1>3, <1>4, <1>5, <1>6
-----------------------------------------------------------------------------
(* Preservation. *)

(* Every step keeps the types. *)
LEMMA NextType == TypeInv /\ [Next]_vars => TypeInv'
  <1> SUFFICES ASSUME TypeInv, [Next]_vars PROVE TypeInv'
    OBVIOUS
  <1>1. ASSUME NEW r \in Request, AskQuote(r) PROVE TypeInv'
    BY <1>1 DEF TypeInv, AskQuote
  <1>2. ASSUME NEW r \in Request, MotokoRequest(r) PROVE TypeInv'
    BY <1>2, QuotesAssumption DEF TypeInv, MotokoRequest
  <1>3. ASSUME NEW r \in Request, ServeQuote(r) PROVE TypeInv'
    <2>1. seen' \in [Request -> Seen]
      BY <1>3, PriceValue DEF ServeQuote
    <2>2. RequestCost(config, kind[r]) \in [tag : Tag, amount : Nat]
      BY RequestCostType DEF TypeInv
    <2> QED
      BY <1>3, <2>1, <2>2 DEF TypeInv, ServeQuote
  <1>4. ASSUME NEW r \in Request, ServeRequest(r) PROVE TypeInv'
    <2>1. seen' \in [Request -> Seen]
      BY <1>4, PriceValue DEF ServeRequest
    <2>2. Charge(config) \in Nat
      BY ChargeNat DEF TypeInv
    <2>3. /\ Refusal(kind[r]) \in [tag : Tag, amount : Nat]
          /\ TooFewCycles(Charge(config), cycles[r]) \in [tag : Tag, amount : Nat]
      BY <2>2 DEF Refusal, TooFewCycles, Reply, Tag
    <2>4. /\ reply' \in [Request -> [tag : Tag, amount : Nat]]
          /\ outcalls' \in [Request -> Nat] /\ paid' \in [Request -> Nat]
          /\ pc' \in [Request -> {"idle", "asking", "quoted", "sent", "calling",
                                  "replied", "done"}]
      <3>1. \/ \E a \in [tag : Tag, amount : Nat] :
                 /\ reply' = [reply EXCEPT ![r] = a]
                 /\ pc' = [pc EXCEPT ![r] = "replied"]
                 /\ UNCHANGED <<outcalls, paid>>
            \/ /\ paid' = [paid EXCEPT ![r] = @ + Charge(config)]
               /\ outcalls' = [outcalls EXCEPT ![r] = @ + 1]
               /\ pc' = [pc EXCEPT ![r] = "calling"]
               /\ UNCHANGED reply
        BY <1>4, <2>3 DEF ServeRequest
      <3> QED
        BY <2>2, <3>1 DEF TypeInv
    <2> QED
      BY <1>4, <2>1, <2>4 DEF TypeInv, ServeRequest
  <1>5. ASSUME NEW r \in Request, EndOutcall(r) PROVE TypeInv'
    BY <1>5 DEF TypeInv, EndOutcall, Reply, Tag
  <1>6. ASSUME NEW r \in Request, UseQuote(r) PROVE TypeInv'
    BY <1>6 DEF TypeInv, UseQuote
  <1>7. ASSUME NEW r \in Request, Receive(r) PROVE TypeInv'
    BY <1>7 DEF TypeInv, Receive
  <1>8. ASSUME NEW r \in Request, Reject(r) PROVE TypeInv'
    BY <1>8 DEF TypeInv, Reject, Reply, Tag
  <1>9. ASSUME NEW k \in Key, UpdateApiKey(k) PROVE TypeInv'
    BY <1>9 DEF TypeInv, UpdateApiKey, Config
  <1>10. ASSUME NEW demo \in BOOLEAN, NEW nodes \in Nodes, Upgrade(demo, nodes)
         PROVE  TypeInv'
    BY <1>10 DEF TypeInv, Upgrade, Config
  <1>11. CASE UNCHANGED vars
    BY <1>11 DEF TypeInv, vars
  <1> QED
    BY <1>1, <1>2, <1>3, <1>4, <1>5, <1>6, <1>7, <1>8, <1>9, <1>10, <1>11
    DEF Next, Progress

(* The invariant of a request speaks of nothing but the request. *)
LEMMA Frame ==
  ASSUME NEW d, RequestInv(d),
         pc'[d] = pc[d], kind'[d] = kind[d], cycles'[d] = cycles[d],
         reply'[d] = reply[d], outcalls'[d] = outcalls[d],
         paid'[d] = paid[d], seen'[d] = seen[d]
  PROVE  RequestInv(d)'
  BY DEF RequestInv, OutcallInv, QuotingInv, MotokoInv, PricedTwiceAlike

(* A step keeps the invariant of every request. *)
LEMMA NextRequests == IInv /\ [Next]_vars => \A r \in Request : RequestInv(r)'
  <1> SUFFICES ASSUME IInv, [Next]_vars, NEW d \in Request
               PROVE  RequestInv(d)'
    OBVIOUS
  <1>0. TypeInv /\ RequestInv(d) /\ (\A r \in Request : RequestInv(r))
    BY DEF IInv
  <1>1. ASSUME NEW r \in Request, AskQuote(r) PROVE RequestInv(d)'
    <2>1. CASE d # r
      BY <1>0, <1>1, <2>1, Frame DEF TypeInv, AskQuote
    <2>2. CASE d = r
      <3>1. /\ pc[d] = "idle" /\ pc'[d] = "asking" /\ d \in Quoting
            /\ UNCHANGED <<kind, cycles, reply, outcalls, paid, seen>>
        BY <1>0, <1>1, <2>2 DEF TypeInv, AskQuote
      <3> QED
        BY <1>0, <3>1, QuotesAssumption
        DEF RequestInv, OutcallInv, QuotingInv, MotokoInv, PricedTwiceAlike
    <2> QED
      BY <2>1, <2>2
  <1>2. ASSUME NEW r \in Request, MotokoRequest(r) PROVE RequestInv(d)'
    <2>1. CASE d # r
      BY <1>0, <1>2, <2>1, Frame DEF TypeInv, MotokoRequest
    <2>2. CASE d = r
      <3>1. /\ pc[d] = "idle" /\ pc'[d] = "sent" /\ d \in Motoko
            /\ UNCHANGED <<kind, reply, outcalls, paid, seen>>
        BY <1>0, <1>2, <2>2 DEF TypeInv, MotokoRequest
      <3> QED
        BY <1>0, <3>1, QuotesAssumption
        DEF RequestInv, OutcallInv, QuotingInv, MotokoInv, PricedTwiceAlike
    <2> QED
      BY <2>1, <2>2
  <1>5. ASSUME NEW r \in Request, EndOutcall(r) PROVE RequestInv(d)'
    <2>1. CASE d # r
      BY <1>0, <1>5, <2>1, Frame DEF TypeInv, EndOutcall
    <2>2. CASE d = r
      <3>1. /\ pc[d] = "calling" /\ pc'[d] = "replied"
            /\ reply'[d].tag \in {"Ok", "HttpOutcallError"}
            /\ UNCHANGED <<kind, cycles, outcalls, paid, seen>>
        BY <1>0, <1>5, <2>2 DEF TypeInv, EndOutcall, Reply
      <3> QED
        BY <1>0, <3>1
        DEF RequestInv, OutcallInv, QuotingInv, MotokoInv, PricedTwiceAlike
    <2> QED
      BY <2>1, <2>2
  <1>6. ASSUME NEW r \in Request, UseQuote(r) PROVE RequestInv(d)'
    <2>1. CASE d # r
      BY <1>0, <1>6, <2>1, Frame DEF TypeInv, UseQuote
    <2>2. CASE d = r
      <3>1. /\ pc[d] = "quoted"
            /\ \/ /\ pc'[d] = "sent" /\ reply[d].tag = "Quote"
                  /\ cycles'[d] = reply[d].amount
               \/ pc'[d] = "done" /\ cycles' = cycles
            /\ UNCHANGED <<kind, reply, outcalls, paid, seen>>
        BY <1>0, <1>6, <2>2 DEF TypeInv, UseQuote
      <3> QED
        BY <1>0, <3>1
        DEF RequestInv, OutcallInv, QuotingInv, MotokoInv, PricedTwiceAlike
    <2> QED
      BY <2>1, <2>2
  <1>7. ASSUME NEW r \in Request, Receive(r) PROVE RequestInv(d)'
    <2>1. CASE d # r
      BY <1>0, <1>7, <2>1, Frame DEF TypeInv, Receive
    <2>2. CASE d = r
      <3>1. /\ pc[d] = "replied"
            /\ \/ /\ pc'[d] = "sent" /\ d \in Motoko
                  /\ reply[d].tag = "TooFewCycles" /\ Len(seen[d]) = 1
                  /\ cycles'[d] = reply[d].amount
               \/ pc'[d] = "done" /\ cycles' = cycles
            /\ UNCHANGED <<kind, reply, outcalls, paid, seen>>
        BY <1>0, <1>7, <2>2 DEF TypeInv, Receive, Retries
      <3> QED
        BY <1>0, <3>1, QuotesAssumption
        DEF RequestInv, OutcallInv, QuotingInv, MotokoInv, PricedTwiceAlike
    <2> QED
      BY <2>1, <2>2
  <1>8. ASSUME NEW r \in Request, Reject(r) PROVE RequestInv(d)'
    <2>1. CASE d # r
      BY <1>0, <1>8, <2>1, Frame DEF TypeInv, Reject
    <2>2. CASE d = r
      <3>1. /\ pc'[d] = "done" /\ reply'[d].tag = "Rejected"
            /\ UNCHANGED <<kind, cycles, outcalls, paid, seen>>
        BY <1>0, <1>8, <2>2 DEF TypeInv, Reject, Reply
      <3> QED
        BY <1>0, <3>1
        DEF RequestInv, OutcallInv, QuotingInv, MotokoInv, PricedTwiceAlike
    <2> QED
      BY <2>1, <2>2
  <1>9. ASSUME UNCHANGED <<pc, kind, cycles, reply, outcalls, paid, seen>>
        PROVE  RequestInv(d)'
    BY <1>0, <1>9, Frame
  <1>3. ASSUME NEW r \in Request, ServeQuote(r) PROVE RequestInv(d)'
    <2>0. Price(r)
      BY <1>3 DEF ServeQuote
    <2>1. CASE d # r
      BY <1>0, <1>3, <2>0, <2>1, Frame, PriceValue DEF TypeInv, ServeQuote
    <2>2. CASE d = r
      <3>1. /\ pc[d] = "asking" /\ pc'[d] = "quoted"
            /\ reply'[d] = RequestCost(config, kind[d])
            /\ UNCHANGED <<kind, cycles, outcalls, paid>>
        BY <1>0, <1>3, <2>2 DEF TypeInv, ServeQuote
      <3>2. d \in Quoting /\ d \notin Motoko /\ seen[d] = <<>>
        BY <1>0, <3>1, QuotesAssumption DEF RequestInv, QuotingInv, MotokoInv, Request
      <3>3. Len(seen'[d]) = 1 /\ seen'[d][1] = config
        BY <1>0, <2>0, <2>2, <3>2, PriceValue
      <3> QED
        BY <1>0, <3>1, <3>2, <3>3
        DEF RequestInv, OutcallInv, QuotingInv, PricedTwiceAlike
    <2> QED
      BY <2>1, <2>2
  <1>4. ASSUME NEW r \in Request, ServeRequest(r) PROVE RequestInv(d)'
    <2>0. Price(r)
      BY <1>4 DEF ServeRequest
    <2>1. CASE d # r
      BY <1>0, <1>4, <2>0, <2>1, Frame, PriceValue DEF TypeInv, ServeRequest
    <2>2. CASE d = r
      <3> DEFINE charge == Charge(config)
      <3>1. pc[d] = "sent" /\ UNCHANGED <<kind, cycles>>
        BY <1>4, <2>2 DEF ServeRequest
      <3>2. \/ /\ Refused(kind[d]) /\ pc'[d] = "replied"
               /\ reply'[d] = Refusal(kind[d]) /\ UNCHANGED <<outcalls, paid>>
            \/ /\ ~Refused(kind[d]) /\ cycles[d] < charge
               /\ pc'[d] = "replied" /\ UNCHANGED <<outcalls, paid>>
               /\ reply'[d] = Reply("TooFewCycles", charge)
            \/ /\ ~Refused(kind[d]) /\ cycles[d] >= charge
               /\ pc'[d] = "calling" /\ UNCHANGED reply
               /\ outcalls'[d] = outcalls[d] + 1
               /\ paid'[d] = paid[d] + charge
        BY <1>0, <1>4, <2>2 DEF TypeInv, ServeRequest, TooFewCycles
      <3>3. /\ seen'[d] # <<>> /\ seen'[d][1] = config
            /\ seen[d] = <<>> => Len(seen'[d]) = 1
            /\ seen[d] # <<>> =>
                 Len(seen'[d]) = 2 /\ (seen'[d][2] <=> seen[d][1] = config)
        BY <1>0, <2>0, <2>2, PriceValue
      <3>4. charge \in Nat /\ cycles[d] \in Nat
        BY <1>0, ChargeNat DEF TypeInv
      <3>5. outcalls[d] = 0 /\ paid[d] = 0
        BY <1>0, <3>1 DEF RequestInv, OutcallInv
      <3>6. Refusal(kind[d]).tag # "TooFewCycles"
        BY DEF Refusal, Reply
      <3> HIDE DEF charge
      <3>7. OutcallInv(d)'
        <4>1. charge = Charge(seen'[d][1])
          BY <3>3 DEF charge
        <4> QED
          BY <3>2, <3>3, <3>4, <3>5, <3>6, <4>1 DEF OutcallInv, Reply
      <3>8. ASSUME d \in Quoting PROVE QuotingInv(d)'
        <4>1. /\ Len(seen[d]) = 1 /\ reply[d] = RequestCost(seen[d][1], kind[d])
              /\ reply[d].tag = "Quote" /\ cycles[d] = reply[d].amount
          BY <1>0, <3>1, <3>8 DEF RequestInv, QuotingInv
        <4>2. seen[d] # <<>>
          BY <4>1
        <4>3. ASSUME seen'[d][2], ~Refused(kind[d]) PROVE cycles[d] = charge
          <5>1. seen[d][1] = config
            BY <3>3, <4>2, <4>3
          <5> QED
            BY <1>0, <4>1, <4>3, <5>1, QuoteIsCharge DEF charge, TypeInv
        <4>4. ASSUME PricedTwiceAlike(d)'
              PROVE  /\ reply'[d].tag # "TooFewCycles"
                     /\ outcalls'[d] = 1 => paid'[d] = cycles'[d]
          <5>1. seen'[d][2]
            BY <4>4 DEF PricedTwiceAlike
          <5> QED
            BY <3>1, <3>2, <3>4, <3>5, <3>6, <4>1, <4>3, <5>1
        <4>5. pc'[d] \in {"replied", "calling"}
          BY <3>2
        <4> QED
          BY <4>4, <4>5 DEF QuotingInv
      <3>9. ASSUME d \in Motoko PROVE MotokoInv(d)'
        <4>1. seen[d] = <<>> \/ (Len(seen[d]) = 1 /\ cycles[d] = Charge(seen[d][1]))
          BY <1>0, <3>1, <3>9 DEF RequestInv, MotokoInv
        <4>2. pc'[d] \in {"replied", "calling"}
          BY <3>2
        <4>3. ASSUME PricedTwiceAlike(d)', pc'[d] = "replied"
              PROVE  reply'[d].tag # "TooFewCycles"
          <5>1. Len(seen'[d]) = 2 /\ seen'[d][2]
            BY <4>3 DEF PricedTwiceAlike
          <5>2. seen[d] # <<>> /\ seen[d][1] = config
            BY <3>3, <5>1
          <5>3. cycles[d] = charge
            BY <4>1, <5>2 DEF charge
          <5> QED
            BY <3>2, <3>4, <3>6, <4>3, <5>3
        <4>4. ASSUME pc'[d] = "replied", reply'[d].tag = "TooFewCycles"
              PROVE  reply'[d].amount = Charge(seen'[d][1])
          BY <3>2, <3>3, <3>6, <4>4 DEF charge, Reply
        <4> QED
          BY <4>2, <4>3, <4>4 DEF MotokoInv
      <3> QED
        BY <3>7, <3>8, <3>9 DEF RequestInv
    <2> QED
      BY <2>1, <2>2
  <1> QED
    BY <1>1, <1>2, <1>3, <1>4, <1>5, <1>6, <1>7, <1>8, <1>9
    DEF Next, Progress, UpdateApiKey, Upgrade, vars

(* The inductive invariant holds in every reachable state. *)
THEOREM QuotesInductive == Spec => []IInv
  <1>1. Init => IInv
    <2> SUFFICES ASSUME Init PROVE IInv
      OBVIOUS
    <2>1. TypeInv
      BY DEF Init, TypeInv, Seen, NoReply, Reply, Tag
    <2>2. ASSUME NEW r \in Request PROVE RequestInv(r)
      BY DEF Init, RequestInv, OutcallInv, QuotingInv, MotokoInv,
             PricedTwiceAlike, NoReply, Reply
    <2> QED
      BY <2>1, <2>2 DEF IInv
  <1>2. IInv /\ [Next]_vars => IInv'
    BY NextType, NextRequests DEF IInv
  <1> QED
    BY <1>1, <1>2, PTL DEF Spec

(* A caller that sends what requestCost quoted, in the configuration it was
   quoted in, is not told TooFewCycles and pays exactly the quote, whatever
   the prices and whatever other callers, key changes and upgrades do. *)
THEOREM QuoteHonouredAlways == Spec => []QuoteHonoured
  <1>1. IInv => QuoteHonoured
    BY DEF IInv, RequestInv, QuotingInv, QuoteHonoured, Request
  <1> QED
    BY <1>1, QuotesInductive, PTL

(* The second attempt of the Motoko client has enough cycles unless the price
   changed in between. *)
THEOREM RetrySufficesAlways == Spec => []RetrySuffices
  <1>1. IInv => RetrySuffices
    BY DEF IInv, RequestInv, MotokoInv, RetrySuffices, Request
  <1> QED
    BY <1>1, QuotesInductive, PTL

(* However often a request is tried, one outcall at most is made for it, and
   what is kept of its cycles is the charge of that outcall. *)
THEOREM PaidOnceAlways == Spec => []PaidOnce
  <1>1. IInv => PaidOnce
    BY DEF IInv, RequestInv, OutcallInv, PaidOnce
  <1> QED
    BY <1>1, QuotesInductive, PTL
=============================================================================
