------------------------- MODULE ParallelCallProofs -------------------------
(***************************************************************************)
(* Proofs about ParallelCall for every number of calls, services, hosts,   *)
(* sizes, prices and amounts of cycles.  The first half is about types,    *)
(* cycles, phases and metrics.  The second half is about the answers: what *)
(* a reduction returns for any set of services, results and threshold,     *)
(* that an answer is backed by the results and final, that each ok result  *)
(* is counted once in the usage, that the calls implement MultiCall step   *)
(* by step, and that request ids tell outcalls apart until the counter     *)
(* wraps.                                                                  *)
(***************************************************************************)
EXTENDS ParallelCall, TLAPS, FiniteSetTheorems, WellFoundedInduction

(* A size that is doubled is a size again. *)
LEMMA DoubleSize == \A z \in Size : Double(z) \in Size
  BY DataAssumption DEF Double, Size

(* The request counter wraps around within its range. *)
LEMMA NextIdRange ==
  \A id \in 0..(IdModulus - 1) : NextId(id) \in 0..(IdModulus - 1)
  BY IdAssumption DEF NextId

(* A metric stays a family of natural numbers when an event is counted. *)
LEMMA BumpType ==
  ASSUME NEW metric \in [Host -> Nat], NEW h \in Host
  PROVE  Bump(metric, h) \in [Host -> Nat]
  BY DEF Bump

(* What a slot of a given state holds. *)
LEMMA SlotFields ==
  ASSUME TypeOK, NEW c \in Call, NEW s \in Service
  PROVE  /\ slot[c][s] \in Slot
         /\ slot[c][s].st \in {"unsent", "inflight"} =>
              slot[c][s].size \in Size /\ slot[c][s].id \in Nat
              /\ slot[c][s].res = NoResult
  <1>1. slot[c][s] \in Slot
    BY DEF TypeOK
  <1>2. QED
    BY <1>1 DEF Slot, Unused

(* The charge for an outcall is a number of cycles. *)
LEMMA ChargeNat ==
  ASSUME TypeOK, NEW c \in Call, NEW s \in Service, NEW z \in Size
  PROVE  /\ Cost[s][z] \in Nat
         /\ Charge(c, s, z) \in Nat
  BY CyclesAssumption DEF Charge

(* Every response of an outcall is a final result. *)
LEMMA ResponseResultType ==
  ASSUME NEW id \in Nat, NEW res \in ResponseResult(id)
  PROVE  res \in Result \ {NoResult}
  BY DataAssumption DEF ResponseResult, Result, Res, NoResult

(* The phase of a call that is being served, whatever its slots. *)
LEMMA PhaseOfType ==
  ASSUME NEW slots
  PROVE  PhaseOf(slots) \in {"sending", "waiting", "finishing"}
  BY DEF PhaseOf

(* Replacing one slot keeps the slots well typed. *)
LEMMA SlotUpdate ==
  ASSUME NEW f \in [Call -> [Service -> Slot]], NEW c \in Call,
         NEW s \in Service, NEW r \in Slot
  PROVE  [f EXCEPT ![c][s] = r] \in [Call -> [Service -> Slot]]
  OBVIOUS

(* The slots, the phase and the cycles after a request was issued. *)
LEMMA IssueType ==
  ASSUME TypeOK, NEW c \in Call, NEW s \in Service, NEW z \in Size,
         Issue(c, s, z)
  PROVE  /\ counter' \in 0..(IdModulus - 1)
         /\ requests' \in [Host -> Nat]
         /\ unfunded' \in [Host -> Nat]
         /\ avail' \in [Call -> Nat]
         /\ spent' \in [Call -> Nat]
         /\ sent' \in [Call -> Nat]
         /\ slot' \in [Call -> [Service -> Slot]]
         /\ phase' \in [Call -> {"new", "sending", "waiting", "finishing",
                                 "replied", "trapped"}]
  <1> DEFINE charge == Charge(c, s, z)
             id == IF req[c].retry THEN counter ELSE 0
  <1>1. Cost[s][z] \in Nat /\ charge \in Nat
    BY ChargeNat
  <1>2. HostOf[s] \in Host
    BY ServiceAssumption
  <1>3. id \in Nat /\ counter' \in 0..(IdModulus - 1)
    BY NextIdRange, IdAssumption DEF TypeOK, Issue
  <1>4. requests' \in [Host -> Nat] /\ unfunded' \in [Host -> Nat]
    <2>1. /\ requests' = Bump(requests, HostOf[s])
          /\ unfunded' \in {unfunded, Bump(unfunded, HostOf[s])}
      BY DEF Issue
    <2>2. requests \in [Host -> Nat] /\ unfunded \in [Host -> Nat]
      BY DEF TypeOK
    <2> QED
      BY <2>1, <2>2, <1>2, BumpType
  <1>5. phase' \in [Call -> {"new", "sending", "waiting", "finishing",
                             "replied", "trapped"}]
    <2>1. phase' = [phase EXCEPT ![c] = PhaseOf(slot'[c])]
      BY DEF Issue
    <2> QED
      BY <2>1, PhaseOfType DEF TypeOK
  <1>6. CASE avail[c] >= charge
    <2>1. /\ avail' = [avail EXCEPT ![c] = @ - charge]
          /\ spent' = [spent EXCEPT ![c] = @ + Cost[s][z]]
          /\ sent' = [sent EXCEPT ![c] = @ + 1]
          /\ slot' = [slot EXCEPT ![c][s] =
               [st |-> "inflight", id |-> id, size |-> z, res |-> NoResult]]
      BY <1>6, <1>1 DEF Issue, TypeOK
    <2>2. [st |-> "inflight", id |-> id, size |-> z, res |-> NoResult] \in Slot
      BY <1>3 DEF Slot
    <2>3. slot' \in [Call -> [Service -> Slot]]
      BY <2>1, <2>2, SlotUpdate DEF TypeOK
    <2>4. avail' \in [Call -> Nat] /\ spent' \in [Call -> Nat]
          /\ sent' \in [Call -> Nat]
      BY <2>1, <1>1, <1>6 DEF TypeOK
    <2> QED
      BY <2>3, <2>4, <1>3, <1>4, <1>5
  <1>7. CASE avail[c] < charge
    <2>1. /\ UNCHANGED <<avail, spent, sent>>
          /\ slot' = [slot EXCEPT ![c][s] =
               Settled(TooFewCycles(charge, avail[c]))]
      BY <1>7, <1>1 DEF Issue, TypeOK
    <2>2. avail[c] \in Nat
      BY DEF TypeOK
    <2>3. Settled(TooFewCycles(charge, avail[c])) \in Slot
      BY <1>1, <2>2 DEF Slot, Settled, TooFewCycles, Res, Result, NoResult
    <2>4. slot' \in [Call -> [Service -> Slot]]
      BY <2>1, <2>3, SlotUpdate DEF TypeOK
    <2>5. avail' \in [Call -> Nat] /\ spent' \in [Call -> Nat]
          /\ sent' \in [Call -> Nat]
      BY <2>1 DEF TypeOK
    <2> QED
      BY <2>4, <2>5, <1>3, <1>4, <1>5
  <1>8. avail[c] \in Nat
    BY DEF TypeOK
  <1> QED
    BY <1>1, <1>6, <1>7, <1>8

(* The slots and the phase after a service was settled. *)
LEMMA SettleType ==
  ASSUME TypeOK, NEW c \in Call, NEW s \in Service,
         NEW res \in Result \ {NoResult}, Settle(c, s, res)
  PROVE  /\ slot' \in [Call -> [Service -> Slot]]
         /\ phase' \in [Call -> {"new", "sending", "waiting", "finishing",
                                 "replied", "trapped"}]
  <1>1. Settled(res) \in Slot
    BY DEF Slot, Settled
  <1>2. slot' \in [Call -> [Service -> Slot]]
    BY <1>1, SlotUpdate DEF TypeOK, Settle
  <1>3. QED
    BY <1>2, PhaseOfType DEF TypeOK, Settle

(* Beginning a call leaves everything well typed. *)
LEMMA BeginType ==
  ASSUME TypeOK, NEW c \in Call, NEW S \in SUBSET Service, NEW m \in 0..255,
         NEW z \in Size, NEW a \in Nat, NEW retry \in BOOLEAN,
         Begin(c, S, m, z, a, retry)
  PROVE  TypeOK'
  <1>1. req' \in [Call -> Args]
    BY DEF TypeOK, Begin, Args
  <1>2. slot' \in [Call -> [Service -> Slot]]
    <2> DEFINE row == [s \in Service |->
          IF s \in S THEN [st |-> "unsent", id |-> 0, size |-> z,
                           res |-> NoResult] ELSE Unused]
    <2>1. row \in [Service -> Slot]
      BY DEF Slot
    <2>2. slot' = [slot EXCEPT ![c] = row]
      BY DEF Begin
    <2> HIDE DEF row
    <2> QED
      BY <2>1, <2>2 DEF TypeOK
  <1>3. avail' \in [Call -> Nat]
    BY DEF TypeOK, Begin
  <1>4. phase' \in [Call -> {"new", "sending", "waiting", "finishing",
                             "replied", "trapped"}]
    BY DEF TypeOK, Begin
  <1> QED
    BY <1>1, <1>2, <1>3, <1>4 DEF TypeOK, Begin, metricVars

(* Sets of services are finite. *)
LEMMA ServicesFinite ==
  ASSUME NEW S \in SUBSET Service
  PROVE  IsFiniteSet(S) /\ Cardinality(S) \in Nat
  <1>1. IsFiniteSet(Service)
    BY FS_Interval, ServiceAssumption DEF Service
  <1> QED
    BY <1>1, FS_Subset, FS_CardinalityType

(* A reduction, collapsed, yields replies. *)
LEMMA ReduceType ==
  ASSUME TypeOK, NEW c \in Call, NEW r \in Reduce(c),
         NEW a \in Collapse(req[c].services, ResultsOf(c), r)
  PROVE  a \in Reply
  <1>1. \A s \in Service : slot[c][s].res \in Result
    BY DEF TypeOK, Slot, Unused, NoResult, Res, Result
  <1>2. req[c].services \subseteq Service
    BY DEF TypeOK, Args
  <1>3. Inconsistent \in Reply
    BY DEF Inconsistent, Reply, NoResult, Res, Result
  <1>4. \A s \in Service : Consistent(ResultsOf(c)[s]) \in Reply
    BY <1>1 DEF Consistent, Reply, ResultsOf
  <1>5. r = Inconsistent \/ \E s \in Service : r = Consistent(ResultsOf(c)[s])
    BY <1>2 DEF Reduce, ByStrategy, ByEquality, ByThreshold
  <1>6. a = r \/ \E s \in Service : a = Consistent(ResultsOf(c)[s])
    BY <1>2 DEF Collapse
  <1> QED
    BY <1>3, <1>4, <1>5, <1>6

(* Type correctness of the initial states. *)
LEMMA InitType == Init => TypeOK
  <1> SUFFICES ASSUME Init PROVE TypeOK
    OBVIOUS
  <1>1. NoArgs \in Args
    BY DEF NoArgs, Args, Equality
  <1>2. Unused \in Slot
    BY DEF Slot
  <1>3. NoReply \in Reply
    BY DEF NoReply, Reply, NoResult, Res, Result
  <1> QED
    BY <1>1, <1>2, <1>3, IdAssumption DEF Init, TypeOK

(* The type invariant is preserved by every step. *)
LEMMA NextType == TypeOK /\ [Next]_vars => TypeOK'
  <1> SUFFICES ASSUME TypeOK, [Next]_vars PROVE TypeOK'
    OBVIOUS
  <1>1. ASSUME NEW c \in Call, NEW S \in SUBSET Service, NEW m \in Strategy,
               NEW z \in Estimate, NEW a \in Attached, StartCall(c, S, m, z, a)
        PROVE  TypeOK'
    <2>1. m \in 0..255 /\ z \in Size /\ a \in Nat
      BY DataAssumption, CyclesAssumption
    <2> QED
      BY <1>1, <2>1, BeginType DEF StartCall
  <1>2. ASSUME NEW c \in Call, NEW s \in Service, NEW z \in Estimate,
               NEW a \in Attached, StartRequest(c, s, z, a)
        PROVE  TypeOK'
    <2>1. z \in Size /\ a \in Nat /\ Equality \in 0..255 /\ {s} \in SUBSET Service
      BY DataAssumption, CyclesAssumption DEF Equality
    <2> QED
      BY <1>2, <2>1, BeginType DEF StartRequest
  <1>3. ASSUME NEW c \in Call, EarlyReturn(c) PROVE TypeOK'
    <2>1. Consistent(Res("invalid", 0, 0)) \in Reply
      BY DEF Consistent, Res, Reply, Result
    <2> QED
      BY <1>3, <2>1 DEF TypeOK, EarlyReturn, metricVars
  <1>4. ASSUME NEW c \in Call, NEW S \in SUBSET Service, Trap(c, S) PROVE TypeOK'
    BY <1>4 DEF TypeOK, Trap, metricVars
  <1>5. ASSUME NEW c \in Call, Send(c) PROVE TypeOK'
    <2>1. PICK s \in Service : slot[c][s].st = "unsent"
                               /\ Issue(c, s, slot[c][s].size)
      BY <1>5 DEF Send
    <2>2. slot[c][s].size \in Size
      BY <2>1, SlotFields
    <2> QED
      BY <1>5, <2>1, <2>2, IssueType DEF TypeOK, Send
  <1>6. ASSUME NEW c \in Call, NEW s \in Service, NEW res, Responded(c, s, res)
        PROVE  TypeOK'
    <2>1. slot[c][s].id \in Nat
      BY <1>6, SlotFields DEF Responded, AwaitsReply
    <2>2. res \in Result \ {NoResult}
      BY <1>6, <2>1, ResponseResultType DEF Responded
    <2>3. responses' \in [Host -> Nat]
      BY <1>6, BumpType, ServiceAssumption DEF TypeOK, Responded
    <2>4. Settle(c, s, res)
      BY <1>6 DEF Responded
    <2> QED
      BY <1>6, <2>2, <2>3, <2>4, SettleType DEF TypeOK, Responded, Settle
  <1>7. ASSUME NEW c \in Call, NEW s \in Service, NEW code \in Code,
               OutcallFailed(c, s, code)
        PROVE  TypeOK'
    <2>1. Res("ic", code, 0) \in Result \ {NoResult}
      BY DataAssumption DEF Res, Result, NoResult
    <2>2. errHttpOutcall' \in [Host -> Nat]
      BY <1>7, BumpType, ServiceAssumption DEF TypeOK, OutcallFailed
    <2>3. Settle(c, s, Res("ic", code, 0))
      BY <1>7 DEF OutcallFailed
    <2> QED
      BY <1>7, <2>1, <2>2, <2>3, SettleType DEF TypeOK, OutcallFailed, Settle
  <1>8. ASSUME NEW c \in Call, NEW s \in Service, TooLarge(c, s) PROVE TypeOK'
    <2> DEFINE z == slot[c][s].size
    <2>1. z \in Size /\ Double(z) \in Size
      BY <1>8, SlotFields, DoubleSize DEF TooLarge, AwaitsReply
    <2>2. errMaxResponseSize' \in [Host -> Nat]
      BY <1>8, BumpType, ServiceAssumption DEF TypeOK, TooLarge
    <2>3. CASE Issue(c, s, Double(z))
      BY <1>8, <2>1, <2>2, <2>3, IssueType DEF TypeOK, TooLarge
    <2>4. CASE Settle(c, s, Res("tooLarge", 0, 0))
      <3>1. Res("tooLarge", 0, 0) \in Result \ {NoResult}
        BY DEF Res, Result, NoResult
      <3> QED
        BY <1>8, <2>2, <2>4, <3>1, SettleType DEF TypeOK, TooLarge, Settle
    <2> QED
      BY <1>8, <2>3, <2>4 DEF TooLarge
  <1>9. ASSUME NEW c \in Call, Finish(c) PROVE TypeOK'
    <2>1. usage' \in [Service -> Nat]
      BY <1>9 DEF TypeOK, Finish, RecordOkResults
    <2>2. PICK r \in Reduce(c) :
            /\ \E a \in Collapse(req[c].services, ResultsOf(c), r) :
                 reply' = [reply EXCEPT ![c] = a]
            /\ inconsistentResponses' =
                 IF r = Inconsistent
                 THEN [h \in Host |-> inconsistentResponses[h] +
                        Cardinality({s \in req[c].services \cap Supported :
                                       HostnameOf[s] = h})]
                 ELSE inconsistentResponses
      BY <1>9 DEF Finish, CountInconsistent
    <2>3. reply' \in [Call -> Reply]
      BY <2>2, ReduceType DEF TypeOK
    <2> DEFINE queried(h) ==
          Cardinality({s \in req[c].services \cap Supported :
                         HostnameOf[s] = h})
    <2>4. \A h \in Host : queried(h) \in Nat
      BY ServicesFinite, ServiceAssumption
    <2>5. inconsistentResponses' \in [Host -> Nat]
      <3>1. \/ inconsistentResponses' = inconsistentResponses
            \/ inconsistentResponses' =
                 [h \in Host |-> inconsistentResponses[h] + queried(h)]
        BY <2>2
      <3>2. inconsistentResponses \in [Host -> Nat]
        BY DEF TypeOK
      <3> HIDE DEF queried
      <3> QED
        BY <3>1, <3>2, <2>4
    <2>6. phase' \in [Call -> {"new", "sending", "waiting", "finishing",
                               "replied", "trapped"}]
      BY <1>9 DEF TypeOK, Finish
    <2> QED
      BY <1>9, <2>1, <2>3, <2>5, <2>6 DEF TypeOK, Finish
  <1>10. ASSUME NEW d \in BOOLEAN, Upgrade(d) PROVE TypeOK'
    BY <1>10, IdAssumption DEF TypeOK, Upgrade, callVars
  <1>11. CASE UNCHANGED vars
    BY <1>11 DEF TypeOK, vars, metricVars, callVars
  <1> QED
    BY <1>1, <1>2, <1>3, <1>4, <1>5, <1>6, <1>7, <1>8, <1>9, <1>10, <1>11
    DEF Next, Start, OutcallReply

(* All variables keep their types, whatever calls, replies, retries and
   upgrades interleave. *)
THEOREM TypeCorrect == Spec => []TypeOK
  <1>1. Init => TypeOK
    BY InitType
  <1>2. TypeOK /\ [Next]_vars => TypeOK'
    BY NextType
  <1> QED
    BY <1>1, <1>2, PTL DEF Spec

-----------------------------------------------------------------------------
(* Cycles. *)

CyclesInv == CyclesCovered /\ NewUntouched

(* The collateral of one more outcall. *)
LEMMA CollateralStep ==
  \A n \in Nat : Collateral * (n + 1) = Collateral * n + Collateral
                 /\ Collateral * n \in Nat
  BY CyclesAssumption

(* Issuing a request keeps what was accepted equal to what was spent plus the
   collateral. *)
LEMMA IssueCycles ==
  ASSUME TypeOK, CyclesInv, NEW c \in Call, NEW s \in Service, NEW z \in Size,
         phase[c] # "new", Issue(c, s, z), req' = req
  PROVE  CyclesInv'
  <1>1. NewUntouched'
    <2>1. \A d \in Call : d # c =>
            /\ phase'[d] = phase[d] /\ slot'[d] = slot[d]
            /\ avail'[d] = avail[d] /\ spent'[d] = spent[d]
            /\ sent'[d] = sent[d]
      BY DEF TypeOK, Issue
    <2>2. phase'[c] # "new"
      <3>1. phase' = [phase EXCEPT ![c] = PhaseOf(slot'[c])]
        BY DEF Issue
      <3> QED
        BY <3>1, PhaseOfType DEF TypeOK
    <2> QED
      BY <2>1, <2>2 DEF CyclesInv, NewUntouched
  <1>2. CyclesCovered'
    <2> SUFFICES ASSUME NEW d \in Call
                 PROVE  req[d].attached - avail'[d] =
                          IF req[d].charging
                          THEN spent'[d] + Collateral * sent'[d] ELSE 0
      BY DEF CyclesCovered
    <2>1. req[d].attached - avail[d] =
            IF req[d].charging THEN spent[d] + Collateral * sent[d] ELSE 0
      BY DEF CyclesInv, CyclesCovered
    <2>2. CASE d # c \/ UNCHANGED <<avail, spent, sent>>
      BY <2>1, <2>2 DEF Issue, TypeOK
    <2>3. CASE d = c /\ ~UNCHANGED <<avail, spent, sent>>
      <3>1. /\ avail' = [avail EXCEPT ![c] = @ - Charge(c, s, z)]
            /\ spent' = [spent EXCEPT ![c] = @ + Cost[s][z]]
            /\ sent' = [sent EXCEPT ![c] = @ + 1]
        BY <2>3 DEF Issue
      <3>2. /\ avail'[c] = avail[c] - Charge(c, s, z)
            /\ spent'[c] = spent[c] + Cost[s][z]
            /\ sent'[c] = sent[c] + 1
            /\ avail[c] \in Nat /\ spent[c] \in Nat /\ sent[c] \in Nat
            /\ req[c].attached \in Nat /\ req[c].charging \in BOOLEAN
        BY <3>1 DEF TypeOK, Args
      <3>3. Cost[s][z] \in Nat /\ Collateral \in Nat
        BY ChargeNat, CyclesAssumption
      <3>4. /\ Collateral * (sent[c] + 1) = Collateral * sent[c] + Collateral
            /\ Collateral * sent[c] \in Nat
        BY <3>2, CollateralStep
      <3>5. Charge(c, s, z) = IF req[c].charging THEN Cost[s][z] + Collateral
                              ELSE 0
        BY DEF Charge
      <3> HIDE DEF Charge
      <3> QED
        BY <2>1, <2>3, <3>2, <3>3, <3>4, <3>5
    <2> QED
      BY <2>2, <2>3
  <1> QED
    BY <1>1, <1>2 DEF CyclesInv

(* Settling a service moves no cycles. *)
LEMMA SettleCycles ==
  ASSUME TypeOK, CyclesInv, NEW c \in Call, NEW s \in Service, NEW res,
         phase[c] # "new", Settle(c, s, res), req' = req
  PROVE  CyclesInv'
  <1>1. CyclesCovered'
    BY DEF CyclesInv, CyclesCovered, Settle
  <1>2. \A d \in Call : d # c => phase'[d] = phase[d] /\ slot'[d] = slot[d]
    BY DEF TypeOK, Settle
  <1>3. phase'[c] # "new"
    BY PhaseOfType DEF TypeOK, Settle
  <1> QED
    BY <1>1, <1>2, <1>3 DEF CyclesInv, NewUntouched, Settle

(* A call that begins has accepted nothing yet. *)
LEMMA BeginCycles ==
  ASSUME TypeOK, CyclesInv, NEW c \in Call, NEW S \in SUBSET Service,
         NEW m, NEW z, NEW a \in Nat, NEW retry, Begin(c, S, m, z, a, retry)
  PROVE  CyclesInv'
  <1>1. \A d \in Call : d # c =>
          /\ req'[d] = req[d] /\ avail'[d] = avail[d]
          /\ slot'[d] = slot[d] /\ phase'[d] = phase[d]
    BY DEF TypeOK, Begin
  <1>2. /\ req'[c].attached = a /\ avail'[c] = a /\ phase'[c] = "sending"
        /\ req'[c].charging = ~demo
    BY DEF TypeOK, Begin
  <1>3. spent' = spent /\ sent' = sent /\ spent[c] = 0 /\ sent[c] = 0
    BY DEF CyclesInv, NewUntouched, Begin
  <1>4. Collateral * 0 = 0
    BY CyclesAssumption
  <1>5. CyclesCovered'
    BY <1>1, <1>2, <1>3, <1>4 DEF CyclesInv, CyclesCovered
  <1>6. NewUntouched'
    BY <1>1, <1>2, <1>3 DEF CyclesInv, NewUntouched
  <1> QED
    BY <1>5, <1>6 DEF CyclesInv

(* The cycles invariant is preserved by every step. *)
LEMMA NextCycles == TypeOK /\ CyclesInv /\ [Next]_vars => CyclesInv'
  <1> SUFFICES ASSUME TypeOK, CyclesInv, [Next]_vars PROVE CyclesInv'
    OBVIOUS
  <1>1. ASSUME NEW c \in Call, NEW S \in SUBSET Service, NEW m \in Strategy,
               NEW z \in Estimate, NEW a \in Attached, StartCall(c, S, m, z, a)
        PROVE  CyclesInv'
    BY <1>1, BeginCycles, CyclesAssumption DEF StartCall
  <1>2. ASSUME NEW c \in Call, NEW s \in Service, NEW z \in Estimate,
               NEW a \in Attached, StartRequest(c, s, z, a)
        PROVE  CyclesInv'
    <2>1. {s} \in SUBSET Service /\ a \in Nat
      BY CyclesAssumption
    <2> QED
      BY <1>2, <2>1, BeginCycles DEF StartRequest
  <1>3. ASSUME NEW c \in Call, EarlyReturn(c) PROVE CyclesInv'
    BY <1>3 DEF TypeOK, EarlyReturn, CyclesInv, CyclesCovered, NewUntouched
  <1>4. ASSUME NEW c \in Call, NEW S \in SUBSET Service, Trap(c, S)
        PROVE  CyclesInv'
    BY <1>4 DEF TypeOK, Trap, CyclesInv, CyclesCovered, NewUntouched
  <1>5. ASSUME NEW c \in Call, Send(c) PROVE CyclesInv'
    <2>1. PICK s \in Service : slot[c][s].st = "unsent"
                               /\ Issue(c, s, slot[c][s].size)
      BY <1>5 DEF Send
    <2>2. slot[c][s].size \in Size
      BY <2>1, SlotFields
    <2>3. phase[c] # "new" /\ req' = req
      BY <1>5 DEF Send
    <2> QED
      BY <2>1, <2>2, <2>3, IssueCycles
  <1>6. ASSUME NEW c \in Call, NEW s \in Service, NEW res, Responded(c, s, res)
        PROVE  CyclesInv'
    <2>1. Settle(c, s, res) /\ phase[c] # "new" /\ req' = req
      BY <1>6 DEF Responded, AwaitsReply
    <2> QED
      BY <2>1, SettleCycles
  <1>7. ASSUME NEW c \in Call, NEW s \in Service, NEW code \in Code,
               OutcallFailed(c, s, code)
        PROVE  CyclesInv'
    <2>1. Settle(c, s, Res("ic", code, 0)) /\ phase[c] # "new" /\ req' = req
      BY <1>7 DEF OutcallFailed, AwaitsReply
    <2> QED
      BY <2>1, SettleCycles
  <1>8. ASSUME NEW c \in Call, NEW s \in Service, TooLarge(c, s)
        PROVE  CyclesInv'
    <2>1. Double(slot[c][s].size) \in Size
      BY <1>8, SlotFields, DoubleSize DEF TooLarge, AwaitsReply
    <2>2. phase[c] # "new" /\ req' = req
      BY <1>8 DEF TooLarge, AwaitsReply
    <2>3. \/ Issue(c, s, Double(slot[c][s].size))
          \/ Settle(c, s, Res("tooLarge", 0, 0))
      BY <1>8 DEF TooLarge
    <2> QED
      BY <2>1, <2>2, <2>3, IssueCycles, SettleCycles
  <1>9. ASSUME NEW c \in Call, Finish(c) PROVE CyclesInv'
    BY <1>9 DEF TypeOK, Finish, CyclesInv, CyclesCovered, NewUntouched
  <1>10. ASSUME NEW d \in BOOLEAN, Upgrade(d) PROVE CyclesInv'
    BY <1>10 DEF Upgrade, callVars, CyclesInv, CyclesCovered, NewUntouched
  <1>11. CASE UNCHANGED vars
    BY <1>11 DEF vars, callVars, CyclesInv, CyclesCovered, NewUntouched
  <1> QED
    BY <1>1, <1>2, <1>3, <1>4, <1>5, <1>6, <1>7, <1>8, <1>9, <1>10, <1>11
    DEF Next, Start, OutcallReply

(* In every reachable state cycles are covered and new calls are untouched. *)
LEMMA CyclesInductive == Spec => []CyclesInv
  <1>1. Init => CyclesInv
    <2>1. Collateral * 0 = 0
      BY CyclesAssumption
    <2> QED
      BY <2>1 DEF Init, CyclesInv, CyclesCovered, NewUntouched, NoArgs
  <1>2. TypeOK /\ CyclesInv /\ [Next]_vars => CyclesInv'
    BY NextCycles
  <1> QED
    BY <1>1, <1>2, TypeCorrect, PTL DEF Spec

(* The caller of a charged call pays for exactly the outcalls made on its
   behalf, with their collateral, and the caller of a free one pays nothing,
   however calls, retries and upgrades interleave. *)
THEOREM CyclesCoveredAlways == Spec => []CyclesCovered
  <1>1. CyclesInv => CyclesCovered
    BY DEF CyclesInv
  <1> QED
    BY <1>1, CyclesInductive, PTL

-----------------------------------------------------------------------------
(* Phases and slots. *)

(* The slots in use are those of the queried services, and they tell how far
   the call is: the inductive form of SettledBeforeReply. *)
PhaseMatchesSlots ==
  \A c \in Call :
    /\ \A s \in Service : slot[c][s].st = "unused" <=> s \notin req[c].services
    /\ Open(c) => phase[c] = PhaseOf(slot[c])
    /\ ~Open(c) => PhaseOf(slot[c]) = "finishing"

(* A step that replaces one slot of a call in progress, and derives the phase
   from the slots, keeps phases and slots in step. *)
LEMMA SlotStepMatches ==
  ASSUME TypeOK, PhaseMatchesSlots, NEW c \in Call, NEW s \in Service, NEW r,
         slot' = [slot EXCEPT ![c][s] = r],
         phase' = [phase EXCEPT ![c] = PhaseOf(slot'[c])], req' = req,
         slot[c][s].st # "unused", r.st # "unused"
  PROVE  PhaseMatchesSlots'
  <1>1. \A d \in Call : d # c => slot'[d] = slot[d] /\ phase'[d] = phase[d]
    BY DEF TypeOK
  <1>2. phase'[c] = PhaseOf(slot'[c]) /\ Open(c)'
    BY PhaseOfType DEF TypeOK, Open
  <1>3. \A t \in Service : slot'[c][t].st = "unused" <=> slot[c][t].st = "unused"
    BY DEF TypeOK
  <1> QED
    BY <1>1, <1>2, <1>3 DEF PhaseMatchesSlots, Open

(* The phase and the slots of every call agree in every step. *)
LEMMA NextPhases == TypeOK /\ PhaseMatchesSlots /\ [Next]_vars => PhaseMatchesSlots'
  <1> SUFFICES ASSUME TypeOK, PhaseMatchesSlots, [Next]_vars
               PROVE  PhaseMatchesSlots'
    OBVIOUS
  <1>1. ASSUME NEW c \in Call, NEW S \in SUBSET Service, NEW m, NEW z, NEW a,
               NEW retry, Begin(c, S, m, z, a, retry), S # {}
        PROVE  PhaseMatchesSlots'
    <2>1. \A d \in Call : d # c =>
            slot'[d] = slot[d] /\ phase'[d] = phase[d] /\ req'[d] = req[d]
      BY <1>1 DEF TypeOK, Begin
    <2>2. phase'[c] = "sending" /\ req'[c].services = S
      BY <1>1 DEF TypeOK, Begin
    <2>3. \A s \in Service : slot'[c][s].st = IF s \in S THEN "unsent" ELSE "unused"
      BY <1>1 DEF TypeOK, Begin, Unused
    <2>4. PhaseOf(slot'[c]) = "sending"
      BY <1>1, <2>3 DEF PhaseOf
    <2> QED
      BY <2>1, <2>2, <2>3, <2>4 DEF PhaseMatchesSlots, Open
  <1>2. ASSUME NEW c \in Call, EarlyReturn(c) PROVE PhaseMatchesSlots'
    BY <1>2 DEF TypeOK, EarlyReturn, PhaseMatchesSlots, Open
  <1>3. ASSUME NEW c \in Call, NEW S \in SUBSET Service, Trap(c, S)
        PROVE  PhaseMatchesSlots'
    BY <1>3 DEF TypeOK, Trap, PhaseMatchesSlots, Open
  <1>4. ASSUME NEW c \in Call, NEW s \in Service, NEW z, Issue(c, s, z),
               slot[c][s].st # "unused", req' = req
        PROVE  PhaseMatchesSlots'
    <2> DEFINE charge == Charge(c, s, z)
               id == IF req[c].retry THEN counter ELSE 0
               funded == [st |-> "inflight", id |-> id, size |-> z,
                          res |-> NoResult]
               broke == Settled(TooFewCycles(charge, avail[c]))
    <2>0. funded.st = "inflight" /\ broke.st = "settled"
      BY DEF Settled
    <2>1. PICK r : r.st \in {"inflight", "settled"}
                   /\ slot' = [slot EXCEPT ![c][s] = r]
      <3>1. \/ slot' = [slot EXCEPT ![c][s] = funded]
            \/ slot' = [slot EXCEPT ![c][s] = broke]
        BY <1>4 DEF Issue
      <3> HIDE DEF funded, broke
      <3> QED
        BY <2>0, <3>1
    <2>2. phase' = [phase EXCEPT ![c] = PhaseOf(slot'[c])]
      BY <1>4 DEF Issue
    <2> QED
      BY <1>4, <2>1, <2>2, SlotStepMatches
  <1>5. ASSUME NEW c \in Call, NEW s \in Service, NEW res, Settle(c, s, res),
               slot[c][s].st # "unused", req' = req
        PROVE  PhaseMatchesSlots'
    <2>1. Settled(res).st # "unused"
      BY DEF Settled
    <2>2. /\ slot' = [slot EXCEPT ![c][s] = Settled(res)]
          /\ phase' = [phase EXCEPT ![c] = PhaseOf(slot'[c])]
      BY <1>5 DEF Settle
    <2> QED
      BY <1>5, <2>1, <2>2, SlotStepMatches
  <1>6. ASSUME NEW c \in Call, Send(c) PROVE PhaseMatchesSlots'
    <2>1. PICK s \in Service : slot[c][s].st = "unsent"
                               /\ Issue(c, s, slot[c][s].size)
      BY <1>6 DEF Send
    <2> QED
      BY <1>4, <1>6, <2>1 DEF Send
  <1>7. ASSUME NEW c \in Call, NEW s \in Service, OutcallReply(c, s)
        PROVE  PhaseMatchesSlots'
    <2>1. slot[c][s].st = "inflight" /\ req' = req
      BY <1>7 DEF OutcallReply, Responded, OutcallFailed, TooLarge, AwaitsReply
    <2>2. \/ \E z : Issue(c, s, z)
          \/ \E res : Settle(c, s, res)
      BY <1>7 DEF OutcallReply, Responded, OutcallFailed, TooLarge
    <2> QED
      BY <2>1, <2>2, <1>4, <1>5
  <1>8. ASSUME NEW c \in Call, Finish(c) PROVE PhaseMatchesSlots'
    BY <1>8 DEF TypeOK, Finish, PhaseMatchesSlots, Open
  <1>9. ASSUME NEW d \in BOOLEAN, Upgrade(d) PROVE PhaseMatchesSlots'
    BY <1>9 DEF Upgrade, callVars, PhaseMatchesSlots, Open
  <1>10. CASE UNCHANGED vars
    BY <1>10 DEF vars, callVars, PhaseMatchesSlots, Open
  <1>11. ASSUME NEW c \in Call, Start(c) PROVE PhaseMatchesSlots'
    <2>1. \A s \in Service : {s} \in SUBSET Service /\ {s} # {}
      OBVIOUS
    <2> QED
      BY <1>1, <1>2, <1>3, <1>11, <2>1 DEF Start, StartCall, StartRequest
  <1> QED
    BY <1>6, <1>7, <1>8, <1>9, <1>10, <1>11 DEF Next

(* In every reachable state the phase of a call tells what its slots hold. *)
LEMMA PhasesMatch == Spec => []PhaseMatchesSlots
  <1>1. Init => PhaseMatchesSlots
    BY DEF Init, PhaseMatchesSlots, PhaseOf, Open, Unused, NoArgs
  <1> QED
    BY <1>1, NextPhases, TypeCorrect, PTL DEF Spec

(* A call is reduced and answered only when every queried service, and no
   other, has its one final result. *)
THEOREM SettledBeforeReplyAlways == Spec => []SettledBeforeReply
  <1>1. TypeOK /\ PhaseMatchesSlots => SettledBeforeReply
    <2> SUFFICES ASSUME TypeOK, PhaseMatchesSlots, NEW c \in Call,
                        NEW s \in Service,
                        phase[c] \in {"finishing", "replied"}
                 PROVE  slot[c][s].st = IF s \in req[c].services
                                        THEN "settled" ELSE "unused"
      BY DEF SettledBeforeReply
    <2>1. PhaseOf(slot[c]) = "finishing"
      BY DEF PhaseMatchesSlots, Open
    <2>2. slot[c][s].st \notin {"unsent", "inflight"}
      BY <2>1 DEF PhaseOf
    <2>3. slot[c][s].st \in {"unused", "unsent", "inflight", "settled"}
      BY DEF TypeOK, Slot, Unused
    <2> QED
      BY <2>2, <2>3 DEF PhaseMatchesSlots
  <1> QED
    BY <1>1, PhasesMatch, TypeCorrect, PTL

-----------------------------------------------------------------------------
(* Metrics. *)

(* The outcalls on their way are finitely many. *)
LEMMA InFlightFinite ==
  ASSUME NEW h \in Host
  PROVE  /\ IsFiniteSet(InFlight(h)) /\ Cardinality(InFlight(h)) \in Nat
         /\ Cardinality(InFlight(h)') \in Nat
  <1>1. IsFiniteSet(Service)
    BY ServicesFinite
  <1>2. IsFiniteSet(Call \X Service)
    BY <1>1, CallAssumption, FS_Product
  <1>3. InFlight(h) \in SUBSET (Call \X Service)
    BY DEF InFlight
  <1>4. InFlight(h)' \in SUBSET (Call \X Service)
    BY DEF InFlight
  <1>5. IsFiniteSet(InFlight(h)) /\ IsFiniteSet(InFlight(h)')
    BY <1>2, <1>3, <1>4, FS_Subset
  <1> QED
    BY <1>5, FS_CardinalityType

(* How replacing one slot changes the number of outcalls on their way. *)
LEMMA InFlightStep ==
  ASSUME TypeOK, NEW c \in Call, NEW s \in Service, NEW r,
         slot' = [slot EXCEPT ![c][s] = r], NEW h \in Host
  PROVE  Cardinality(InFlight(h)') = Cardinality(InFlight(h)) +
           (IF HostOf[s] = h /\ r.st = "inflight" THEN 1 ELSE 0) -
           (IF HostOf[s] = h /\ slot[c][s].st = "inflight" THEN 1 ELSE 0)
  <1> DEFINE p == <<c, s>>
  <1>1. p \in Call \X Service /\ p[1] = c /\ p[2] = s
    OBVIOUS
  <1>2. \A q \in Call \X Service :
          slot'[q[1]][q[2]] = IF q = p THEN r ELSE slot[q[1]][q[2]]
    <2> SUFFICES ASSUME NEW d \in Call, NEW t \in Service
                 PROVE  slot'[d][t] = IF d = c /\ t = s THEN r ELSE slot[d][t]
      OBVIOUS
    <2> QED
      BY DEF TypeOK
  <1>3. p \in InFlight(h) <=> HostOf[s] = h /\ slot[c][s].st = "inflight"
    BY <1>1 DEF InFlight
  <1>4. Cardinality(InFlight(h)) \in Nat /\ IsFiniteSet(InFlight(h))
    BY InFlightFinite
  <1>5. CASE HostOf[s] = h /\ r.st = "inflight"
    <2>1. InFlight(h)' = InFlight(h) \cup {p}
      BY <1>1, <1>2, <1>5 DEF InFlight
    <2>2. Cardinality(InFlight(h) \cup {p}) =
            IF p \in InFlight(h) THEN Cardinality(InFlight(h))
            ELSE Cardinality(InFlight(h)) + 1
      BY <1>4, FS_AddElement
    <2> QED
      BY <2>1, <2>2, <1>3, <1>4, <1>5
  <1>6. CASE ~(HostOf[s] = h /\ r.st = "inflight")
    <2>1. InFlight(h)' = InFlight(h) \ {p}
      BY <1>1, <1>2, <1>6 DEF InFlight
    <2>2. Cardinality(InFlight(h) \ {p}) =
            IF p \in InFlight(h) THEN Cardinality(InFlight(h)) - 1
            ELSE Cardinality(InFlight(h))
      BY <1>4, FS_RemoveElement
    <2> QED
      BY <2>1, <2>2, <1>3, <1>4, <1>6
  <1> QED
    BY <1>5, <1>6

(* 1 for host h when the event is about a service of h. *)
One(s, h) == IF HostOf[s] = h THEN 1 ELSE 0

(* A metric that counted one event. *)
LEMMA BumpValue ==
  ASSUME NEW metric \in [Host -> Nat], NEW s \in Service, NEW h \in Host
  PROVE  Bump(metric, HostOf[s])[h] = metric[h] + One(s, h)
  BY ServiceAssumption DEF Bump, One

(* An issued request is counted once: as on its way or as unfunded. *)
LEMMA IssueBalance ==
  ASSUME TypeOK, NEW c \in Call, NEW s \in Service, NEW z \in Size,
         Issue(c, s, z), NEW h \in Host
  PROVE  /\ requests'[h] = requests[h] + One(s, h)
         /\ unfunded'[h] + Cardinality(InFlight(h)') =
              unfunded[h] + Cardinality(InFlight(h)) + One(s, h)
              - (IF slot[c][s].st = "inflight" THEN One(s, h) ELSE 0)
  <1> DEFINE charge == Charge(c, s, z)
             id == IF req[c].retry THEN counter ELSE 0
             funded == [st |-> "inflight", id |-> id, size |-> z,
                        res |-> NoResult]
             broke == Settled(TooFewCycles(charge, avail[c]))
  <1>1. requests'[h] = requests[h] + One(s, h)
    <2>1. requests' = Bump(requests, HostOf[s]) /\ requests \in [Host -> Nat]
      BY DEF Issue, TypeOK
    <2> QED
      BY <2>1, BumpValue
  <1>2. funded.st = "inflight" /\ broke.st = "settled"
    BY DEF Settled
  <1>3. \/ slot' = [slot EXCEPT ![c][s] = funded] /\ unfunded' = unfunded
        \/ slot' = [slot EXCEPT ![c][s] = broke]
           /\ unfunded' = Bump(unfunded, HostOf[s])
    BY DEF Issue
  <1>4. unfunded \in [Host -> Nat] /\ unfunded[h] \in Nat
    BY DEF TypeOK
  <1>5. Bump(unfunded, HostOf[s])[h] = unfunded[h] + One(s, h)
    BY <1>4, BumpValue
  <1>6. Cardinality(InFlight(h)) \in Nat
    BY InFlightFinite
  <1> HIDE DEF funded, broke
  <1>7. CASE slot' = [slot EXCEPT ![c][s] = funded] /\ unfunded' = unfunded
    <2>1. Cardinality(InFlight(h)') = Cardinality(InFlight(h)) + One(s, h)
            - (IF slot[c][s].st = "inflight" THEN One(s, h) ELSE 0)
      BY <1>2, <1>6, <1>7, InFlightStep DEF One
    <2> QED
      BY <2>1, <1>1, <1>4, <1>6, <1>7 DEF One
  <1>8. CASE /\ slot' = [slot EXCEPT ![c][s] = broke]
             /\ unfunded' = Bump(unfunded, HostOf[s])
    <2>1. Cardinality(InFlight(h)') = Cardinality(InFlight(h))
            - (IF slot[c][s].st = "inflight" THEN One(s, h) ELSE 0)
      <3>1. broke.st # "inflight"
        BY <1>2
      <3>2. Cardinality(InFlight(h)') = Cardinality(InFlight(h)) +
              (IF HostOf[s] = h /\ broke.st = "inflight" THEN 1 ELSE 0) -
              (IF HostOf[s] = h /\ slot[c][s].st = "inflight" THEN 1 ELSE 0)
        BY <1>8, InFlightStep
      <3> QED
        BY <1>6, <3>1, <3>2 DEF One
    <2> QED
      BY <2>1, <1>1, <1>4, <1>5, <1>6, <1>8 DEF One
  <1> QED
    BY <1>3, <1>7, <1>8

(* A settled outcall is no longer on its way. *)
LEMMA SettleBalance ==
  ASSUME TypeOK, NEW c \in Call, NEW s \in Service, NEW res,
         Settle(c, s, res), slot[c][s].st = "inflight", NEW h \in Host
  PROVE  /\ requests' = requests /\ unfunded' = unfunded
         /\ Cardinality(InFlight(h)') = Cardinality(InFlight(h)) - One(s, h)
  <1>1. Settled(res).st # "inflight"
    BY DEF Settled
  <1>2. slot' = [slot EXCEPT ![c][s] = Settled(res)]
    BY DEF Settle
  <1>3. Cardinality(InFlight(h)) \in Nat
    BY InFlightFinite
  <1>4. Cardinality(InFlight(h)') = Cardinality(InFlight(h)) - One(s, h)
    <2>1. Cardinality(InFlight(h)') = Cardinality(InFlight(h)) +
            (IF HostOf[s] = h /\ Settled(res).st = "inflight" THEN 1 ELSE 0) -
            (IF HostOf[s] = h /\ slot[c][s].st = "inflight" THEN 1 ELSE 0)
      BY <1>2, InFlightStep
    <2> QED
      BY <1>1, <1>3, <2>1 DEF One
  <1> QED
    BY <1>4 DEF Settle

BalanceInv == MetricsBalance /\ PhaseMatchesSlots

(* Every step counts what it must. *)
LEMMA NextBalance ==
  TypeOK /\ BalanceInv /\ [Next]_vars => MetricsBalance'
  <1> SUFFICES ASSUME TypeOK, BalanceInv, [Next]_vars, NEW h \in Host
               PROVE  requests'[h] = responses'[h] + errMaxResponseSize'[h]
                        + errHttpOutcall'[h] + unfunded'[h]
                        + Cardinality(InFlight(h)')
    BY DEF MetricsBalance
  <1> DEFINE Goal == requests'[h] = responses'[h] + errMaxResponseSize'[h]
                        + errHttpOutcall'[h] + unfunded'[h]
                        + Cardinality(InFlight(h)')
  <1>1. requests[h] = responses[h] + errMaxResponseSize[h] + errHttpOutcall[h]
          + unfunded[h] + Cardinality(InFlight(h))
    BY DEF BalanceInv, MetricsBalance
  <1>2. /\ requests[h] \in Nat /\ responses[h] \in Nat /\ unfunded[h] \in Nat
        /\ errMaxResponseSize[h] \in Nat /\ errHttpOutcall[h] \in Nat
        /\ Cardinality(InFlight(h)) \in Nat
    BY InFlightFinite DEF TypeOK
  <1>0. unfunded'[h] \in Nat /\ Cardinality(InFlight(h)') \in Nat
    BY NextType, InFlightFinite DEF TypeOK
  <1>3. ASSUME UNCHANGED <<metricVars, slot>> PROVE Goal
    BY <1>1, <1>3 DEF metricVars, InFlight
  <1>4. ASSUME NEW c \in Call, NEW S \in SUBSET Service, NEW m, NEW z, NEW a,
               NEW retry, Begin(c, S, m, z, a, retry)
        PROVE  Goal
    <2>1. \A s \in Service : slot[c][s].st # "inflight"
      <3>1. PhaseOf(slot[c]) = "finishing"
        BY <1>4 DEF Begin, BalanceInv, PhaseMatchesSlots, Open
      <3> QED
        BY <3>1 DEF PhaseOf
    <2>2. \A s \in Service : slot'[c][s].st # "inflight"
      BY <1>4 DEF Begin, TypeOK, Unused
    <2>3. \A d \in Call : d # c => slot'[d] = slot[d]
      BY <1>4 DEF Begin, TypeOK
    <2>4. InFlight(h)' = InFlight(h)
      BY <2>1, <2>2, <2>3 DEF InFlight
    <2> QED
      BY <1>1, <1>4, <2>4 DEF Begin, metricVars
  <1>5. ASSUME NEW c \in Call, Send(c) PROVE Goal
    <2>1. PICK s \in Service : slot[c][s].st = "unsent"
                               /\ Issue(c, s, slot[c][s].size)
      BY <1>5 DEF Send
    <2>2. slot[c][s].size \in Size
      BY <2>1, SlotFields
    <2>3. /\ requests'[h] = requests[h] + One(s, h)
          /\ unfunded'[h] + Cardinality(InFlight(h)') =
               unfunded[h] + Cardinality(InFlight(h)) + One(s, h) - 0
      BY <2>1, <2>2, IssueBalance
    <2>4. UNCHANGED <<responses, errMaxResponseSize, errHttpOutcall>>
      BY <1>5 DEF Send
    <2> QED
      BY <1>0, <1>1, <1>2, <2>3, <2>4 DEF One
  <1>6. ASSUME NEW c \in Call, NEW s \in Service, NEW res, Responded(c, s, res)
        PROVE  Goal
    <2>1. /\ Settle(c, s, res) /\ slot[c][s].st = "inflight"
          /\ responses' = Bump(responses, HostOf[s])
          /\ UNCHANGED <<errMaxResponseSize, errHttpOutcall>>
      BY <1>6 DEF Responded, AwaitsReply
    <2>2. responses'[h] = responses[h] + One(s, h)
      <3>1. responses \in [Host -> Nat]
        BY DEF TypeOK
      <3> QED
        BY <2>1, <3>1, BumpValue
    <2>3. /\ requests' = requests /\ unfunded' = unfunded
          /\ Cardinality(InFlight(h)') = Cardinality(InFlight(h)) - One(s, h)
      BY <2>1, SettleBalance
    <2> QED
      BY <1>1, <1>2, <2>1, <2>2, <2>3 DEF One
  <1>7. ASSUME NEW c \in Call, NEW s \in Service, NEW code \in Code,
               OutcallFailed(c, s, code)
        PROVE  Goal
    <2>1. /\ Settle(c, s, Res("ic", code, 0)) /\ slot[c][s].st = "inflight"
          /\ errHttpOutcall' = Bump(errHttpOutcall, HostOf[s])
          /\ UNCHANGED <<errMaxResponseSize, responses>>
      BY <1>7 DEF OutcallFailed, AwaitsReply
    <2>2. errHttpOutcall'[h] = errHttpOutcall[h] + One(s, h)
      <3>1. errHttpOutcall \in [Host -> Nat]
        BY DEF TypeOK
      <3> QED
        BY <2>1, <3>1, BumpValue
    <2>3. /\ requests' = requests /\ unfunded' = unfunded
          /\ Cardinality(InFlight(h)') = Cardinality(InFlight(h)) - One(s, h)
      BY <2>1, SettleBalance
    <2> QED
      BY <1>1, <1>2, <2>1, <2>2, <2>3 DEF One
  <1>8. ASSUME NEW c \in Call, NEW s \in Service, TooLarge(c, s) PROVE Goal
    <2>1. /\ slot[c][s].st = "inflight"
          /\ errMaxResponseSize' = Bump(errMaxResponseSize, HostOf[s])
          /\ UNCHANGED <<errHttpOutcall, responses>>
      BY <1>8 DEF TooLarge, AwaitsReply
    <2>2. errMaxResponseSize'[h] = errMaxResponseSize[h] + One(s, h)
      <3>1. errMaxResponseSize \in [Host -> Nat]
        BY DEF TypeOK
      <3> QED
        BY <2>1, <3>1, BumpValue
    <2>3. CASE Issue(c, s, Double(slot[c][s].size))
      <3>1. Double(slot[c][s].size) \in Size
        BY <2>1, SlotFields, DoubleSize
      <3>2. /\ requests'[h] = requests[h] + One(s, h)
            /\ unfunded'[h] + Cardinality(InFlight(h)') =
                 unfunded[h] + Cardinality(InFlight(h)) + One(s, h) - One(s, h)
        BY <2>1, <2>3, <3>1, IssueBalance
      <3> QED
        BY <1>0, <1>1, <1>2, <2>1, <2>2, <3>2 DEF One
    <2>4. CASE Settle(c, s, Res("tooLarge", 0, 0))
      <3>1. /\ requests' = requests /\ unfunded' = unfunded
            /\ Cardinality(InFlight(h)') = Cardinality(InFlight(h)) - One(s, h)
        BY <2>1, <2>4, SettleBalance
      <3> QED
        BY <1>1, <1>2, <2>1, <2>2, <3>1 DEF One
    <2> QED
      BY <1>8, <2>3, <2>4 DEF TooLarge
  <1>9. ASSUME NEW c \in Call, Finish(c) PROVE Goal
    BY <1>1, <1>9 DEF Finish, InFlight
  <1>10. ASSUME NEW d \in BOOLEAN, Upgrade(d) PROVE Goal
    <2>1. \A c \in Call : PhaseOf(slot[c]) = "finishing"
      BY <1>10 DEF Upgrade, BalanceInv, PhaseMatchesSlots
    <2>2. \A c \in Call, s \in Service : slot'[c][s].st # "inflight"
      BY <1>10, <2>1 DEF Upgrade, callVars, PhaseOf
    <2>3. InFlight(h)' = {}
      BY <2>2 DEF InFlight
    <2>4. Cardinality(InFlight(h)') = 0
      BY <2>3, FS_EmptySet
    <2> QED
      BY <1>10, <2>4 DEF Upgrade
  <1>11. ASSUME NEW c \in Call, Start(c) PROVE Goal
    <2>1. CASE EarlyReturn(c)
      BY <1>3, <2>1 DEF EarlyReturn
    <2>2. CASE \E S \in SUBSET Service : Trap(c, S)
      BY <1>3, <2>2 DEF Trap
    <2>3. \A s \in Service : {s} \in SUBSET Service
      OBVIOUS
    <2> QED
      BY <1>4, <1>11, <2>1, <2>2, <2>3 DEF Start, StartCall, StartRequest
  <1>12. ASSUME UNCHANGED vars PROVE Goal
    BY <1>3, <1>12 DEF vars, callVars
  <1> QED
    BY <1>5, <1>6, <1>7, <1>8, <1>9, <1>10, <1>11, <1>12
    DEF Next, OutcallReply

(* Every request that was counted for a host is accounted for by exactly one
   of the other metrics, by an attempt without cycles or by an outcall on its
   way, for any number of calls, services and hosts. *)
THEOREM MetricsBalanceAlways == Spec => []MetricsBalance
  <1>1. Init => MetricsBalance
    <2> SUFFICES ASSUME Init, NEW h \in Host
                 PROVE  requests[h] = responses[h] + errMaxResponseSize[h]
                          + errHttpOutcall[h] + unfunded[h]
                          + Cardinality(InFlight(h))
      BY DEF MetricsBalance
    <2>1. InFlight(h) = {}
      BY DEF Init, InFlight, Unused
    <2>2. Cardinality(InFlight(h)) = 0
      BY <2>1, FS_EmptySet
    <2> QED
      BY <2>2 DEF Init
  <1>2. TypeOK /\ MetricsBalance /\ PhaseMatchesSlots /\ [Next]_vars
          => MetricsBalance'
    BY NextBalance DEF BalanceInv
  <1> QED
    BY <1>1, <1>2, PhasesMatch, TypeCorrect, PTL DEF Spec

-----------------------------------------------------------------------------
(* Reductions. *)

(* A bounded set of natural numbers has a largest element. *)
LEMMA LargestNat ==
  ASSUME NEW T \in SUBSET Nat, T # {}, NEW n \in Nat, \A x \in T : x <= n
  PROVE  \E x \in T : \A y \in T : y <= x
  <1> DEFINE U == {n - x : x \in T}
             R == OpToRel(<, Nat)
  <1>1. U \subseteq Nat /\ U # {}
    <2>1. \A x \in T : x \in Nat /\ n - x \in Nat
      OBVIOUS
    <2> QED
      BY <2>1
  <1>2. IsWellFoundedOn(R, Nat)
    BY NatLessThanWellFounded
  <1>3. PICK u \in U : \A w \in U : ~(<<w, u>> \in R)
    <2> HIDE DEF U, R
    <2> QED
      BY <1>1, <1>2, WFMin
  <1>4. \A w \in U : ~(w < u)
    <2> SUFFICES ASSUME NEW w \in U, w < u PROVE FALSE
      OBVIOUS
    <2>1. w \in Nat /\ u \in Nat
      BY <1>1
    <2>2. <<w, u>> \in R
      BY <2>1 DEF OpToRel
    <2> QED
      BY <1>3, <2>2
  <1>5. PICK x \in T : u = n - x
    OBVIOUS
  <1>6. ASSUME NEW y \in T PROVE y <= x
    <2>1. n - y \in U /\ ~(n - y < u)
      BY <1>4
    <2>2. x \in Nat /\ y \in Nat
      OBVIOUS
    <2> HIDE DEF U
    <2> QED
      BY <1>5, <2>1, <2>2
  <1> QED
    BY <1>6

(* The services of S that returned r. *)
With(S, res, r) == {s \in S : res[s] = r}

(* Results agree when one of them is everyone's. *)
LEMMA AgreeWith ==
  ASSUME NEW S, NEW res, NEW s \in S
  PROVE  Agree(S, res) <=> With(S, res, res[s]) = S
  BY DEF Agree, With

(* Subsets of a finite set of services can be counted. *)
LEMMA WithFinite ==
  ASSUME NEW S, IsFiniteSet(S), NEW res, NEW r
  PROVE  /\ IsFiniteSet(With(S, res, r))
         /\ Cardinality(With(S, res, r)) \in Nat /\ Cardinality(S) \in Nat
         /\ Cardinality(With(S, res, r)) <= Cardinality(S)
         /\ Cardinality(With(S, res, r)) = Cardinality(S) <=> With(S, res, r) = S
  <1>1. With(S, res, r) \in SUBSET S
    BY DEF With
  <1> QED
    BY <1>1, FS_Subset, FS_CardinalityType

(* Consistent answers and the inconsistent one differ. *)
LEMMA ReplyKinds ==
  /\ \A r : Consistent(r).kind = "consistent" /\ Consistent(r).res = r
            /\ Consistent(r) # Inconsistent
  /\ Inconsistent.kind = "inconsistent"
  BY DEF Consistent, Inconsistent

(* The services that returned a value, and the most frequent values. *)
Oks(S, res) == {s \in S : res[s].kind = "ok"}
Support(S, res, s) == Cardinality(With(S, res, res[s]))
Best(S, res) == {s \in Oks(S, res) :
                   \A t \in Oks(S, res) : Support(S, res, t) <= Support(S, res, s)}

(* A reduction by threshold in terms of them. *)
LEMMA ByThresholdCases ==
  ASSUME NEW S, NEW res, NEW m
  PROVE  ByThreshold(S, res, m) =
           IF Cardinality(Oks(S, res)) < m
           THEN IF Oks(S, res) = {} /\ Agree(S, res)
                THEN {Consistent(res[s]) : s \in S} ELSE {Inconsistent}
           ELSE IF \E s \in Best(S, res) : Support(S, res, s) >= m
                THEN {Consistent(res[s]) : s \in Best(S, res)}
                ELSE {Inconsistent}
  <1> DEFINE oks == {s \in S : res[s].kind = "ok"}
             support(s) == Cardinality({t \in oks : res[t] = res[s]})
             best == {s \in oks : \A t \in oks : support(t) <= support(s)}
  <1>1. oks = Oks(S, res)
    BY DEF Oks
  <1>2. ASSUME NEW s \in oks PROVE support(s) = Support(S, res, s)
    <2>1. {t \in oks : res[t] = res[s]} = With(S, res, res[s])
      BY DEF With
    <2> QED
      BY <2>1 DEF Support
  <1> HIDE DEF support
  <1>3. best = Best(S, res)
    BY <1>1, <1>2 DEF Best
  <1>4. (\E s \in best : support(s) >= m) <=>
        (\E s \in Best(S, res) : Support(S, res, s) >= m)
    BY <1>2, <1>3
  <1> QED
    BY <1>1, <1>3, <1>4 DEF ByThreshold, support

(* If a value has enough support, one of the most frequent values does. *)
LEMMA BestSupport ==
  ASSUME NEW S, IsFiniteSet(S), NEW res, NEW s \in Oks(S, res)
  PROVE  \E b \in Best(S, res) : Support(S, res, b) >= Support(S, res, s)
  <1> DEFINE T == {Support(S, res, t) : t \in Oks(S, res)}
  <1>1. \A t \in Oks(S, res) :
          Support(S, res, t) \in Nat /\ Support(S, res, t) <= Cardinality(S)
    BY WithFinite DEF Support
  <1>2. T \in SUBSET Nat /\ T # {} /\ Cardinality(S) \in Nat
        /\ \A x \in T : x <= Cardinality(S)
    BY <1>1, FS_CardinalityType
  <1>3. PICK x \in T : \A y \in T : y <= x
    <2> HIDE DEF T
    <2> QED
      BY <1>2, LargestNat
  <1>4. PICK b \in Oks(S, res) : x = Support(S, res, b)
    OBVIOUS
  <1>5. \A t \in Oks(S, res) : Support(S, res, t) <= Support(S, res, b)
    BY <1>3, <1>4
  <1> QED
    BY <1>1, <1>4, <1>5 DEF Best

(* A reduction, collapsed, is faithful to the results: a value with enough
   support, a result all services share, or a disagreement that leaves no
   value with enough support. *)
LEMMA ReductionFaithful ==
  ASSUME NEW S, IsFiniteSet(S), S # {}, NEW res, NEW m \in Nat,
         NEW r \in ByStrategy(S, res, m), NEW a \in Collapse(S, res, r)
  PROVE  LET quorum == IF m = Equality THEN Cardinality(S) ELSE m
         IN  \/ /\ a.kind = "consistent" /\ a.res.kind = "ok"
                /\ Cardinality(With(S, res, a.res)) >= quorum
             \/ /\ a.kind = "consistent"
                /\ With(S, res, a.res) = S
             \/ /\ a.kind = "inconsistent"
                /\ \A s \in S :
                     /\ With(S, res, res[s]) # S
                     /\ res[s].kind = "ok" =>
                          Cardinality(With(S, res, res[s])) < quorum
  <1> DEFINE quorum == IF m = Equality THEN Cardinality(S) ELSE m
             Valued == /\ a.kind = "consistent" /\ a.res.kind = "ok"
                       /\ Cardinality(With(S, res, a.res)) >= quorum
             Shared == a.kind = "consistent" /\ With(S, res, a.res) = S
             Split == /\ a.kind = "inconsistent"
                      /\ \A s \in S :
                           /\ With(S, res, res[s]) # S
                           /\ res[s].kind = "ok" =>
                                Cardinality(With(S, res, res[s])) < quorum
  <1>1. ASSUME Agree(S, res), a \in {Consistent(res[s]) : s \in S} PROVE Shared
    <2>1. PICK s \in S : a = Consistent(res[s])
      BY <1>1
    <2>2. a.kind = "consistent" /\ a.res = res[s]
      BY <2>1, ReplyKinds
    <2> QED
      BY <1>1, <2>2, AgreeWith
  <1>2. ASSUME r # Inconsistent PROVE a = r
    BY <1>2 DEF Collapse
  <1>3. ASSUME r = Inconsistent, ~Agree(S, res),
               \A s \in S : res[s].kind = "ok" =>
                              Cardinality(With(S, res, res[s])) < quorum
        PROVE  Split
    <2>1. a = Inconsistent
      BY <1>3 DEF Collapse
    <2> QED
      BY <1>3, <2>1, AgreeWith, ReplyKinds
  <1>4. ASSUME r = Inconsistent, Agree(S, res) PROVE Shared
    <2>1. a \in {Consistent(res[s]) : s \in S}
      BY <1>4 DEF Collapse
    <2> QED
      BY <1>1, <1>4, <2>1
  <1>5. CASE m = Equality
    <2>1. r \in ByEquality(S, res)
      BY <1>5 DEF ByStrategy
    <2>2. CASE Agree(S, res)
      <3>1. r \in {Consistent(res[s]) : s \in S}
        BY <2>1, <2>2 DEF ByEquality
      <3>2. r # Inconsistent
        BY <3>1, ReplyKinds
      <3> QED
        BY <1>1, <1>2, <2>2, <3>1, <3>2
    <2>3. CASE ~Agree(S, res)
      <3>1. r = Inconsistent
        BY <2>1, <2>3 DEF ByEquality
      <3>2. ASSUME NEW s \in S
            PROVE  Cardinality(With(S, res, res[s])) < quorum
        <4>1. With(S, res, res[s]) # S
          BY <2>3, AgreeWith
        <4> QED
          BY <1>5, <4>1, WithFinite
      <3> QED
        BY <1>3, <2>3, <3>1, <3>2
    <2> QED
      BY <2>2, <2>3
  <1>6. CASE m # Equality
    <2> DEFINE oks == Oks(S, res)
               best == Best(S, res)
    <2>1. r \in ByThreshold(S, res, m) /\ quorum = m
      BY <1>6 DEF ByStrategy
    <2>2. IsFiniteSet(oks) /\ Cardinality(oks) \in Nat
      <3>1. oks \in SUBSET S
        BY DEF Oks
      <3> QED
        BY <3>1, FS_Subset, FS_CardinalityType
    <2>3. ASSUME NEW s \in S, res[s].kind = "ok"
          PROVE  /\ Cardinality(With(S, res, res[s])) \in Nat
                 /\ Cardinality(With(S, res, res[s])) <= Cardinality(oks)
      <3>1. With(S, res, res[s]) \in SUBSET oks
        BY <2>3 DEF With, Oks
      <3> QED
        BY <2>2, <3>1, FS_Subset, FS_CardinalityType
    <2>4. CASE Cardinality(oks) < m
      <3>1. \A s \in S : res[s].kind = "ok" =>
                           Cardinality(With(S, res, res[s])) < quorum
        BY <2>1, <2>2, <2>3, <2>4
      <3>2. CASE oks = {} /\ Agree(S, res)
        <4>1. r \in {Consistent(res[s]) : s \in S}
          BY <2>1, <2>4, <3>2, ByThresholdCases
        <4>2. r # Inconsistent
          BY <4>1, ReplyKinds
        <4> QED
          BY <1>1, <1>2, <3>2, <4>1, <4>2
      <3>3. CASE ~(oks = {} /\ Agree(S, res))
        <4>1. r = Inconsistent
          BY <2>1, <2>4, <3>3, ByThresholdCases
        <4> QED
          BY <1>3, <1>4, <3>1, <4>1
      <3> QED
        BY <3>2, <3>3
    <2>5. CASE ~(Cardinality(oks) < m)
      <3>1. CASE \E s \in best : Support(S, res, s) >= m
        <4>1. r \in {Consistent(res[s]) : s \in best}
          BY <2>1, <2>5, <3>1, ByThresholdCases
        <4>2. PICK b \in best : r = Consistent(res[b])
          BY <4>1
        <4>3. a = r /\ a.kind = "consistent" /\ a.res = res[b]
          BY <1>2, <4>2, ReplyKinds
        <4>4. PICK s \in best : Support(S, res, s) >= m
          BY <3>1
        <4>5. b \in oks /\ s \in oks /\ Support(S, res, s) <= Support(S, res, b)
          BY DEF Best
        <4>6. Support(S, res, s) \in Nat /\ Support(S, res, b) \in Nat
          BY WithFinite DEF Support
        <4>7. Support(S, res, b) >= m
          BY <4>4, <4>5, <4>6
        <4> QED
          BY <2>1, <4>3, <4>5, <4>7 DEF Support, Oks
      <3>2. CASE ~\E s \in best : Support(S, res, s) >= m
        <4>1. r = Inconsistent
          BY <2>1, <2>5, <3>2, ByThresholdCases
        <4>2. ASSUME NEW s \in S, res[s].kind = "ok"
              PROVE  Cardinality(With(S, res, res[s])) < quorum
          <5>1. s \in oks
            BY <4>2 DEF Oks
          <5>2. PICK b \in best : Support(S, res, b) >= Support(S, res, s)
            BY <5>1, BestSupport
          <5>3. Support(S, res, s) \in Nat /\ Support(S, res, b) \in Nat
            BY WithFinite DEF Support
          <5>4. ~(Support(S, res, b) >= m)
            BY <3>2
          <5> QED
            BY <2>1, <5>2, <5>3, <5>4 DEF Support
        <4> QED
          BY <1>3, <1>4, <4>1, <4>2
      <3> QED
        BY <3>1, <3>2
    <2> QED
      BY <2>4, <2>5
  <1> QED
    BY <1>5, <1>6

(* With equality, or a threshold above half of the services, the results
   leave one answer. *)
LEMMA MajorityReduction ==
  ASSUME NEW S, IsFiniteSet(S), S # {}, NEW res, NEW m \in Nat,
         m = Equality \/ 2 * m > Cardinality(S)
  PROVE  \E r : ByStrategy(S, res, m) = {r}
  <1>1. ASSUME Agree(S, res)
        PROVE  \E r : {Consistent(res[s]) : s \in S} = {r}
    <2>1. PICK t \in S : TRUE
      OBVIOUS
    <2>2. {Consistent(res[s]) : s \in S} = {Consistent(res[t])}
      BY <1>1 DEF Agree
    <2> QED
      BY <2>2
  <1>2. CASE m = Equality
    BY <1>1, <1>2 DEF ByStrategy, ByEquality
  <1>3. CASE m # Equality
    <2>1. 2 * m > Cardinality(S) /\ ByStrategy(S, res, m) = ByThreshold(S, res, m)
      BY <1>3 DEF ByStrategy
    <2>2. CASE Cardinality(Oks(S, res)) < m
      BY <1>1, <2>1, <2>2, ByThresholdCases
    <2>3. CASE ~\E s \in Best(S, res) : Support(S, res, s) >= m
      BY <1>1, <2>1, <2>3, ByThresholdCases
    <2>4. CASE /\ ~(Cardinality(Oks(S, res)) < m)
               /\ \E s \in Best(S, res) : Support(S, res, s) >= m
      <3>1. PICK s \in Best(S, res) : Support(S, res, s) >= m
        BY <2>4
      <3>2. ASSUME NEW t \in Best(S, res) PROVE res[t] = res[s]
        <4>1. Support(S, res, s) \in Nat /\ Support(S, res, t) \in Nat
              /\ Cardinality(S) \in Nat
          BY WithFinite DEF Support
        <4>2. Support(S, res, s) <= Support(S, res, t)
          BY DEF Best
        <4>3. Support(S, res, s) + Support(S, res, t) > Cardinality(S)
          BY <2>1, <3>1, <4>1, <4>2
        <4>4. /\ With(S, res, res[s]) \subseteq S
              /\ With(S, res, res[t]) \subseteq S
          BY DEF With
        <4>5. With(S, res, res[s]) \cap With(S, res, res[t]) # {}
          BY <4>3, <4>4, FS_MajoritiesIntersect DEF Support
        <4> QED
          BY <4>5 DEF With
      <3>3. {Consistent(res[t]) : t \in Best(S, res)} = {Consistent(res[s])}
        BY <3>2
      <3>4. ByThreshold(S, res, m) = {Consistent(res[t]) : t \in Best(S, res)}
        BY <2>4, ByThresholdCases
      <3> QED
        BY <2>1, <3>3, <3>4
    <2> QED
      BY <2>2, <2>3, <2>4
  <1> QED
    BY <1>2, <1>3
-----------------------------------------------------------------------------
(* Steps. *)

(* What a step of a message does to one slot: it is sent, retried or settled. *)
SlotStep(c, s, r) ==
  /\ phase[c] \in {"sending", "waiting"}
  /\ slot[c][s].st \in {"unsent", "inflight"}
  /\ r.st \in {"inflight", "settled"}
  /\ slot' = [slot EXCEPT ![c][s] = r]
  /\ phase' = [phase EXCEPT ![c] = PhaseOf(slot'[c])]
  /\ avail' \in [Call -> Nat] /\ avail'[c] <= avail[c]
  /\ \A d \in Call : d # c => avail'[d] = avail[d]
  /\ UNCHANGED <<req, reply, usage, recent>>

(* A request that is issued is such a step. *)
LEMMA IssueSlotStep ==
  ASSUME TypeOK, NEW c \in Call, NEW s \in Service, NEW z \in Size,
         Issue(c, s, z), phase[c] \in {"sending", "waiting"},
         slot[c][s].st \in {"unsent", "inflight"},
         UNCHANGED <<req, reply, usage, recent>>
  PROVE  \E r : SlotStep(c, s, r)
  <1> DEFINE charge == Charge(c, s, z)
             id == IF req[c].retry THEN counter ELSE 0
             funded == [st |-> "inflight", id |-> id, size |-> z,
                        res |-> NoResult]
             broke == Settled(TooFewCycles(charge, avail[c]))
  <1>1. charge \in Nat /\ avail \in [Call -> Nat] /\ avail[c] \in Nat
    BY ChargeNat DEF TypeOK
  <1>2. funded.st = "inflight" /\ broke.st = "settled"
    BY DEF Settled
  <1>3. phase' = [phase EXCEPT ![c] = PhaseOf(slot'[c])]
    BY DEF Issue
  <1>4. \/ /\ slot' = [slot EXCEPT ![c][s] = funded] /\ avail[c] >= charge
           /\ avail' = [avail EXCEPT ![c] = avail[c] - charge]
        \/ slot' = [slot EXCEPT ![c][s] = broke] /\ avail' = avail
    BY DEF Issue
  <1> HIDE DEF funded, broke, charge
  <1>5. CASE /\ slot' = [slot EXCEPT ![c][s] = funded] /\ avail[c] >= charge
             /\ avail' = [avail EXCEPT ![c] = avail[c] - charge]
    <2>1. /\ avail' \in [Call -> Nat] /\ avail'[c] <= avail[c]
          /\ \A d \in Call : d # c => avail'[d] = avail[d]
      BY <1>1, <1>5
    <2>2. SlotStep(c, s, funded)
      BY <1>2, <1>3, <1>5, <2>1 DEF SlotStep
    <2> QED
      BY <2>2
  <1>6. CASE slot' = [slot EXCEPT ![c][s] = broke] /\ avail' = avail
    <2>1. SlotStep(c, s, broke)
      BY <1>1, <1>2, <1>3, <1>6 DEF SlotStep
    <2> QED
      BY <2>1
  <1> QED
    BY <1>4, <1>5, <1>6

(* So is an outcall that is over. *)
LEMMA SettleSlotStep ==
  ASSUME TypeOK, NEW c \in Call, NEW s \in Service, NEW res,
         Settle(c, s, res), phase[c] \in {"sending", "waiting"},
         slot[c][s].st \in {"unsent", "inflight"},
         UNCHANGED <<req, reply, usage, recent>>
  PROVE  \E r : SlotStep(c, s, r)
  <1>1. Settled(res).st = "settled"
    BY DEF Settled
  <1>2. avail \in [Call -> Nat] /\ avail[c] \in Nat
    BY DEF TypeOK
  <1>3. SlotStep(c, s, Settled(res))
    BY <1>1, <1>2 DEF Settle, SlotStep
  <1> QED
    BY <1>3

(* Sending to the next service is a step of its slot. *)
LEMMA SendStep ==
  ASSUME TypeOK, NEW c \in Call, Send(c)
  PROVE  \E s \in Service : \E r : SlotStep(c, s, r)
  <1>1. PICK s \in Service : slot[c][s].st = "unsent"
                             /\ Issue(c, s, slot[c][s].size)
    BY DEF Send
  <1>2. slot[c][s].size \in Size
    BY <1>1, SlotFields
  <1>3. phase[c] = "sending" /\ UNCHANGED <<req, reply, usage, recent>>
    BY DEF Send
  <1>4. \E r : SlotStep(c, s, r)
    BY <1>1, <1>2, <1>3, IssueSlotStep
  <1> QED
    BY <1>4

(* So is hearing from a service, whether it is then retried or settled. *)
LEMMA OutcallReplyStep ==
  ASSUME TypeOK, NEW c \in Call, NEW s \in Service, OutcallReply(c, s)
  PROVE  \E r : SlotStep(c, s, r)
  <1>1. /\ phase[c] = "waiting" /\ slot[c][s].st = "inflight"
        /\ UNCHANGED <<req, reply, usage, recent>>
    BY DEF OutcallReply, Responded, OutcallFailed, TooLarge, AwaitsReply
  <1>2. \/ Issue(c, s, Double(slot[c][s].size))
        \/ \E res : Settle(c, s, res)
    BY DEF OutcallReply, Responded, OutcallFailed, TooLarge
  <1>3. Double(slot[c][s].size) \in Size
    BY <1>1, SlotFields, DoubleSize
  <1> QED
    BY <1>1, <1>2, <1>3, IssueSlotStep, SettleSlotStep

(* How a call gets its arguments. *)
Starts(c, S, m, z, a, retry) ==
  /\ S \in SUBSET Service /\ S # {} /\ m \in 0..255 /\ z \in Size /\ a \in Nat
  /\ Begin(c, S, m, z, a, retry)

(* A call starts by entering the loop over its services, or is refused. *)
LEMMA StartCases ==
  ASSUME NEW c \in Call, Start(c)
  PROVE  \/ \E S, m, z, a, retry : Starts(c, S, m, z, a, retry)
         \/ EarlyReturn(c)
         \/ \E S : Trap(c, S)
  <1>1. ASSUME NEW S \in SUBSET Service, NEW m \in Strategy,
               NEW z \in Estimate, NEW a \in Attached, StartCall(c, S, m, z, a)
        PROVE  Starts(c, S, m, z, a, TRUE)
    BY <1>1, DataAssumption, CyclesAssumption DEF StartCall, Starts
  <1>2. ASSUME NEW s \in Service, NEW z \in Estimate, NEW a \in Attached,
               StartRequest(c, s, z, a)
        PROVE  Starts(c, {s}, Equality, z, a, FALSE)
    <2>1. /\ {s} \in SUBSET Service /\ {s} # {} /\ Equality \in 0..255
          /\ z \in Size /\ a \in Nat
      BY DataAssumption, CyclesAssumption DEF Equality
    <2> QED
      BY <1>2, <2>1 DEF StartRequest, Starts
  <1> QED
    BY <1>1, <1>2 DEF Start

(* Every step is one of these. *)
LEMMA StepCases ==
  ASSUME TypeOK, [Next]_vars
  PROVE  \/ \E c \in Call : \E S, m, z, a, retry : Starts(c, S, m, z, a, retry)
         \/ \E c \in Call : EarlyReturn(c)
         \/ \E c \in Call : \E S : Trap(c, S)
         \/ \E c \in Call, s \in Service : \E r : SlotStep(c, s, r)
         \/ \E c \in Call : Finish(c)
         \/ \E d \in BOOLEAN : Upgrade(d)
         \/ UNCHANGED vars
  BY StartCases, SendStep, OutcallReplyStep DEF Next

(* A call is changed by its own steps only. *)
LEMMA OthersKept ==
  ASSUME TypeOK, NEW c \in Call, NEW d \in Call, d # c,
         \/ \E S, m, z, a, retry : Starts(c, S, m, z, a, retry)
         \/ EarlyReturn(c)
         \/ \E S : Trap(c, S)
         \/ \E s \in Service : \E r : SlotStep(c, s, r)
         \/ Finish(c)
  PROVE  /\ phase'[d] = phase[d] /\ req'[d] = req[d] /\ avail'[d] = avail[d]
         /\ slot'[d] = slot[d] /\ reply'[d] = reply[d]
  BY DEF TypeOK, Starts, Begin, EarlyReturn, Trap, SlotStep, Finish

(* A call that was answered or trapped keeps everything. *)
LEMMA DoneKept ==
  ASSUME TypeOK, [Next]_vars, NEW c \in Call, phase[c] \in {"replied", "trapped"}
  PROVE  /\ phase'[c] = phase[c] /\ req'[c] = req[c] /\ avail'[c] = avail[c]
         /\ slot'[c] = slot[c] /\ reply'[c] = reply[c]
  <1>1. CASE \E d \in BOOLEAN : Upgrade(d)
    BY <1>1 DEF Upgrade, callVars
  <1>2. CASE UNCHANGED vars
    BY <1>2 DEF vars, callVars
  <1>3. ASSUME NEW d \in Call,
               \/ \E S, m, z, a, retry : Starts(d, S, m, z, a, retry)
               \/ EarlyReturn(d)
               \/ \E S : Trap(d, S)
               \/ \E s \in Service : \E r : SlotStep(d, s, r)
               \/ Finish(d)
        PROVE  d # c
    BY <1>3 DEF Starts, Begin, EarlyReturn, Trap, SlotStep, Finish
  <1> QED
    BY <1>1, <1>2, <1>3, StepCases, OthersKept

(* A settled slot keeps its result. *)
LEMMA SettledKept ==
  ASSUME TypeOK, CyclesInv, [Next]_vars, NEW c \in Call, NEW s \in Service,
         slot[c][s].st = "settled"
  PROVE  slot'[c][s] = slot[c][s]
  <1>1. CASE \E d \in BOOLEAN : Upgrade(d)
    BY <1>1 DEF Upgrade, callVars
  <1>2. CASE UNCHANGED vars
    BY <1>2 DEF vars, callVars
  <1>3. ASSUME NEW S, NEW m, NEW z, NEW a, NEW retry, Starts(c, S, m, z, a, retry)
        PROVE  FALSE
    BY <1>3 DEF Starts, Begin, CyclesInv, NewUntouched, Unused
  <1>4. ASSUME NEW t \in Service, NEW r, SlotStep(c, t, r)
        PROVE  slot'[c][s] = slot[c][s]
    BY <1>4 DEF SlotStep, TypeOK
  <1>5. CASE EarlyReturn(c) \/ (\E S : Trap(c, S)) \/ Finish(c)
    BY <1>5 DEF EarlyReturn, Trap, Finish
  <1> QED
    BY <1>1, <1>2, <1>3, <1>4, <1>5, StepCases, OthersKept

(* A result that is final stays, an answer is given once, and a call that was
   answered or trapped is never charged again. *)
THEOREM ResultsFinal == Spec => ResultsAreFinal
  <1>1. TypeOK /\ CyclesInv /\ [Next]_vars =>
          [\A c \in Call :
             /\ \A s \in Service :
                  slot[c][s].st = "settled" => slot'[c][s] = slot[c][s]
             /\ phase[c] \in {"replied", "trapped"} =>
                  <<phase[c], reply[c], avail[c]>>'
                    = <<phase[c], reply[c], avail[c]>>]_vars
    BY SettledKept, DoneKept
  <1> QED
    BY <1>1, TypeCorrect, CyclesInductive, PTL DEF Spec, ResultsAreFinal
-----------------------------------------------------------------------------
(* Answers. *)

(* The answer of call c is faithful to its results. *)
FaithfulReply(c) ==
  LET S == req[c].services
      res == ResultsOf(c)
      quorum == IF req[c].min = Equality THEN Cardinality(S) ELSE req[c].min
      a == reply[c]
  IN  \/ /\ a.kind = "consistent" /\ a.res.kind = "ok"
         /\ Cardinality(With(S, res, a.res)) >= quorum
      \/ /\ a.kind = "consistent"
         /\ With(S, res, a.res) = S
      \/ /\ a.kind = "inconsistent"
         /\ \A s \in S :
              /\ With(S, res, res[s]) # S
              /\ res[s].kind = "ok" => Cardinality(With(S, res, res[s])) < quorum

(* A call that runs has services to query, one that has not begun has no
   answer, and an answer that was given is faithful. *)
ReplyInv ==
  \A c \in Call :
    /\ Open(c) => req[c].services # {}
    /\ phase[c] = "new" => reply[c] = NoReply
    /\ Answered(c) => FaithfulReply(c)

(* The arguments of a call. *)
LEMMA ArgsFields ==
  ASSUME TypeOK, NEW c \in Call
  PROVE  /\ req[c].services \in SUBSET Service
         /\ IsFiniteSet(req[c].services)
         /\ req[c].min \in Nat
  <1>1. req[c] \in Args
    BY DEF TypeOK
  <1>2. req[c].services \in SUBSET Service /\ req[c].min \in 0..255
    BY <1>1 DEF Args
  <1>3. IsFiniteSet(req[c].services)
    BY <1>2, ServicesFinite
  <1> QED
    BY <1>2, <1>3

(* The answer Finish gives is faithful. *)
LEMMA FinishFaithful ==
  ASSUME TypeOK, NEW c \in Call, req[c].services # {}, Finish(c)
  PROVE  FaithfulReply(c)'
  <1>0. PICK r \in Reduce(c) :
          \E a \in Collapse(req[c].services, ResultsOf(c), r) :
            reply' = [reply EXCEPT ![c] = a]
    BY DEF Finish
  <1>1. PICK a \in Collapse(req[c].services, ResultsOf(c), r) :
          reply' = [reply EXCEPT ![c] = a]
    BY <1>0
  <1>2. reply'[c] = a
    BY <1>1 DEF TypeOK
  <1>3. IsFiniteSet(req[c].services) /\ req[c].min \in Nat
    BY ArgsFields
  <1>4. r \in ByStrategy(req[c].services, ResultsOf(c), req[c].min)
    BY DEF Reduce
  <1>5. UNCHANGED <<req, slot>> /\ ResultsOf(c)' = ResultsOf(c)
    BY DEF Finish, ResultsOf
  <1> QED
    BY <1>1, <1>2, <1>3, <1>4, <1>5, ReductionFaithful DEF FaithfulReply

(* The invariant of a call whose arguments, slots and answer stay. *)
LEMMA ReplyFrame ==
  ASSUME NEW c \in Call, ReplyInv,
         phase'[c] = phase[c], req'[c] = req[c], slot'[c] = slot[c],
         reply'[c] = reply[c]
  PROVE  /\ Open(c)' => req'[c].services # {}
         /\ phase'[c] = "new" => reply'[c] = NoReply
         /\ Answered(c)' => FaithfulReply(c)'
  BY DEF ReplyInv, Open, Answered, FaithfulReply, ResultsOf

(* Every step keeps the invariant of the answers. *)
LEMMA NextReply ==
  TypeOK /\ CyclesInv /\ ReplyInv /\ [Next]_vars => ReplyInv'
  <1> SUFFICES ASSUME TypeOK, CyclesInv, ReplyInv, [Next]_vars, NEW c \in Call
               PROVE  /\ Open(c)' => req'[c].services # {}
                      /\ phase'[c] = "new" => reply'[c] = NoReply
                      /\ Answered(c)' => FaithfulReply(c)'
    BY DEF ReplyInv
  <1> DEFINE Goal == /\ Open(c)' => req'[c].services # {}
                     /\ phase'[c] = "new" => reply'[c] = NoReply
                     /\ Answered(c)' => FaithfulReply(c)'
  <1>1. CASE \E d \in BOOLEAN : Upgrade(d)
    BY <1>1, ReplyFrame DEF Upgrade, callVars
  <1>2. CASE UNCHANGED vars
    BY <1>2, ReplyFrame DEF vars, callVars
  <1>3. ASSUME NEW S, NEW m, NEW z, NEW a, NEW retry, Starts(c, S, m, z, a, retry)
        PROVE  Goal
    <2>1. phase'[c] = "sending" /\ req'[c].services = S /\ S # {}
      BY <1>3 DEF Starts, Begin, TypeOK
    <2> QED
      BY <2>1 DEF Answered
  <1>4. CASE EarlyReturn(c) \/ \E S : Trap(c, S)
    <2>1. /\ phase[c] = "new" /\ phase'[c] \in {"replied", "trapped"}
          /\ req' = req
      BY <1>4 DEF EarlyReturn, Trap, TypeOK
    <2>2. req[c].services = {}
      BY <2>1 DEF CyclesInv, NewUntouched, NoArgs
    <2> QED
      BY <2>1, <2>2 DEF Open, Answered
  <1>5. ASSUME NEW s \in Service, NEW r, SlotStep(c, s, r) PROVE Goal
    <2>1. phase'[c] \in {"sending", "waiting", "finishing"} /\ req' = req
      BY <1>5, PhaseOfType DEF SlotStep, TypeOK
    <2>2. req[c].services # {}
      BY <1>5 DEF SlotStep, ReplyInv, Open
    <2> QED
      BY <2>1, <2>2 DEF Answered
  <1>6. CASE Finish(c)
    <2>1. phase[c] = "finishing" /\ phase'[c] = "replied"
      BY <1>6 DEF Finish, TypeOK
    <2>2. req[c].services # {}
      BY <2>1 DEF ReplyInv, Open
    <2> QED
      BY <1>6, <2>1, <2>2, FinishFaithful DEF Open
  <1>7. ASSUME NEW d \in Call, d # c,
               \/ \E S, m, z, a, retry : Starts(d, S, m, z, a, retry)
               \/ EarlyReturn(d)
               \/ \E S : Trap(d, S)
               \/ \E s \in Service : \E r : SlotStep(d, s, r)
               \/ Finish(d)
        PROVE  Goal
    BY <1>7, OthersKept, ReplyFrame
  <1> QED
    BY <1>1, <1>2, <1>3, <1>4, <1>5, <1>6, <1>7, StepCases

(* In every reachable state the answers given are faithful. *)
LEMMA ReplyInductive == Spec => []ReplyInv
  <1>1. Init => ReplyInv
    BY DEF Init, ReplyInv, Open, Answered
  <1> QED
    BY <1>1, NextReply, TypeCorrect, CyclesInductive, PTL DEF Spec

(* How many services back a result, as in ReplyBacked. *)
LEMMA BackingWith ==
  ASSUME TypeOK, NEW c \in Call, NEW r
  PROVE  Backing(c, r) = Cardinality(With(req[c].services, ResultsOf(c), r))
  <1>1. req[c].services \subseteq Service
    BY DEF TypeOK, Args
  <1>2. {s \in req[c].services : slot[c][s].res = r} =
          With(req[c].services, ResultsOf(c), r)
    BY <1>1 DEF With, ResultsOf
  <1> QED
    BY <1>2 DEF Backing

(* Whatever the services return and in whatever order, a value that is
   answered has the support the strategy asks for or is everyone's, an error
   is everyone's, and a disagreement is reported only when no value has that
   support. *)
THEOREM ReplyBackedAlways == Spec => []ReplyBacked
  <1>1. TypeOK /\ ReplyInv => ReplyBacked
    <2> SUFFICES ASSUME TypeOK, ReplyInv, NEW c \in Call, Answered(c)
                 PROVE  LET n == Cardinality(req[c].services)
                            quorum == IF req[c].min = Equality THEN n
                                      ELSE req[c].min
                            res == reply[c].res
                        IN  /\ reply[c].kind = "consistent" =>
                                 \/ Backing(c, res) = n
                                 \/ res.kind = "ok" /\ Backing(c, res) >= quorum
                            /\ reply[c].kind = "inconsistent" =>
                                 \A s \in req[c].services :
                                   LET b == Backing(c, slot[c][s].res) IN
                                   /\ b < n
                                   /\ slot[c][s].res.kind = "ok" => b < quorum
      BY DEF ReplyBacked
    <2> DEFINE S == req[c].services
               n == Cardinality(S)
               quorum == IF req[c].min = Equality THEN n ELSE req[c].min
    <2>1. FaithfulReply(c)
      BY DEF ReplyInv
    <2>2. S \subseteq Service /\ IsFiniteSet(S)
      BY ArgsFields
    <2>3. \A s \in S : ResultsOf(c)[s] = slot[c][s].res
      BY <2>2 DEF ResultsOf
    <2>4. CASE reply[c].kind = "consistent"
      <3>1. \/ /\ reply[c].res.kind = "ok"
               /\ Cardinality(With(S, ResultsOf(c), reply[c].res)) >= quorum
            \/ With(S, ResultsOf(c), reply[c].res) = S
        BY <2>1, <2>4 DEF FaithfulReply
      <3> QED
        BY <2>4, <3>1, BackingWith
    <2>5. CASE reply[c].kind = "inconsistent"
      <3>1. ASSUME NEW s \in S
            PROVE  /\ Backing(c, slot[c][s].res) < n
                   /\ slot[c][s].res.kind = "ok" =>
                        Backing(c, slot[c][s].res) < quorum
        <4> DEFINE r == slot[c][s].res
        <4>1. /\ With(S, ResultsOf(c), r) # S
              /\ r.kind = "ok" => Cardinality(With(S, ResultsOf(c), r)) < quorum
          BY <2>1, <2>3, <2>5 DEF FaithfulReply
        <4>2. Cardinality(With(S, ResultsOf(c), r)) < n
          BY <2>2, <4>1, WithFinite
        <4> QED
          BY <4>1, <4>2, BackingWith
      <3> QED
        BY <2>5, <3>1
    <2>6. CASE reply[c].kind \notin {"consistent", "inconsistent"}
      BY <2>6
    <2> QED
      BY <2>4, <2>5, <2>6
  <1> QED
    BY <1>1, ReplyInductive, TypeCorrect, PTL

(* With equality, or with a threshold that is a majority of the services, the
   answer depends on the results only. *)
THEOREM MajorityDecidesAlways == Spec => []MajorityDecides
  <1>1. TypeOK /\ ReplyInv => MajorityDecides
    <2> SUFFICES ASSUME TypeOK, ReplyInv, NEW c \in Call,
                        phase[c] = "finishing",
                        \/ req[c].min = Equality
                        \/ 2 * req[c].min > Cardinality(req[c].services)
                 PROVE  Cardinality(Reduce(c)) = 1
      BY DEF MajorityDecides
    <2>1. IsFiniteSet(req[c].services) /\ req[c].min \in Nat
      BY ArgsFields
    <2>2. req[c].services # {}
      BY DEF ReplyInv, Open
    <2> DEFINE S == req[c].services
               m == req[c].min
    <2>3. m = Equality \/ 2 * m > Cardinality(S)
      OBVIOUS
    <2> HIDE DEF S, m
    <2>5. PICK r : ByStrategy(S, ResultsOf(c), m) = {r}
      <3>1. IsFiniteSet(S) /\ S # {} /\ m \in Nat
        BY <2>1, <2>2 DEF S, m
      <3> QED
        BY <2>3, <3>1, MajorityReduction
    <2>4. Reduce(c) = {r}
      BY <2>5 DEF Reduce, S, m
    <2> QED
      BY <2>4, FS_Singleton
  <1> QED
    BY <1>1, ReplyInductive, TypeCorrect, PTL
-----------------------------------------------------------------------------
(* Usage. *)

(* The calls since the last upgrade for which service s gave a value. *)
OkCalls(s) == {c \in recent : /\ s \in Supported
                              /\ req[c].retry
                              /\ slot[c][s].res.kind = "ok"}

(* Usage is counted for calls that are over: their results cannot change. *)
UsageInv ==
  /\ \A c \in recent : phase[c] = "replied"
  /\ \A s \in Service : usage[s] = Cardinality(OkCalls(s))

(* There are finitely many calls to count. *)
LEMMA OkCallsFinite ==
  ASSUME TypeOK, NEW s \in Service
  PROVE  IsFiniteSet(OkCalls(s)) /\ Cardinality(OkCalls(s)) \in Nat
  <1>1. OkCalls(s) \subseteq Call
    BY DEF OkCalls, TypeOK
  <1> QED
    BY <1>1, CallAssumption, FS_Subset, FS_CardinalityType

(* The answer of a call records each of its services once. *)
LEMMA FinishUsage ==
  ASSUME TypeOK, UsageInv, NEW c \in Call, Finish(c), NEW s \in Service
  PROVE  usage'[s] = Cardinality(OkCalls(s)')
  <1>1. /\ c \notin recent /\ recent' = recent \cup {c}
        /\ UNCHANGED <<req, slot>>
    BY DEF Finish, UsageInv
  <1>2. IsFiniteSet(OkCalls(s)) /\ Cardinality(OkCalls(s)) \in Nat
    BY OkCallsFinite
  <1>3. usage[s] = Cardinality(OkCalls(s))
    BY DEF UsageInv
  <1>4. CASE s \in Supported /\ req[c].retry /\ slot[c][s].res.kind = "ok"
    <2>1. usage'[s] = usage[s] + 1
      BY <1>4 DEF Finish, RecordOkResults
    <2>2. OkCalls(s)' = OkCalls(s) \cup {c} /\ c \notin OkCalls(s)
      BY <1>1, <1>4 DEF OkCalls
    <2> QED
      BY <1>2, <1>3, <2>1, <2>2, FS_AddElement
  <1>5. CASE ~(s \in Supported /\ req[c].retry /\ slot[c][s].res.kind = "ok")
    <2>1. usage'[s] = usage[s]
      BY <1>5 DEF Finish, RecordOkResults
    <2>2. OkCalls(s)' = OkCalls(s)
      BY <1>1, <1>5 DEF OkCalls
    <2> QED
      BY <1>3, <2>1, <2>2
  <1> QED
    BY <1>4, <1>5

(* Every step keeps the invariant of the usage counts. *)
LEMMA NextUsage == TypeOK /\ UsageInv /\ [Next]_vars => UsageInv'
  <1> SUFFICES ASSUME TypeOK, UsageInv, [Next]_vars PROVE UsageInv'
    OBVIOUS
  <1>1. \A c \in recent : phase'[c] = "replied" /\ req'[c] = req[c]
                          /\ slot'[c] = slot[c]
    BY DoneKept DEF UsageInv, TypeOK
  <1>2. CASE usage' = usage /\ recent' = recent
    <2>1. ASSUME NEW s \in Service PROVE OkCalls(s)' = OkCalls(s)
      BY <1>1, <1>2 DEF OkCalls
    <2> QED
      BY <1>1, <1>2, <2>1 DEF UsageInv
  <1>3. ASSUME NEW d \in BOOLEAN, Upgrade(d) PROVE UsageInv'
    <2>1. recent' = {} /\ \A s \in Service : usage'[s] = 0
      BY <1>3 DEF Upgrade
    <2>2. \A s \in Service : OkCalls(s)' = {}
      BY <2>1 DEF OkCalls
    <2> QED
      BY <2>1, <2>2, FS_EmptySet DEF UsageInv
  <1>4. ASSUME NEW c \in Call, Finish(c) PROVE UsageInv'
    <2>1. phase'[c] = "replied" /\ recent' = recent \cup {c}
      BY <1>4 DEF Finish, TypeOK
    <2>2. \A s \in Service : usage'[s] = Cardinality(OkCalls(s)')
      BY <1>4, FinishUsage
    <2> QED
      BY <1>1, <2>1, <2>2 DEF UsageInv
  <1>5. \/ usage' = usage /\ recent' = recent
        \/ \E c \in Call : Finish(c)
        \/ \E d \in BOOLEAN : Upgrade(d)
    BY StepCases DEF Starts, Begin, EarlyReturn, Trap, SlotStep, vars
  <1> QED
    BY <1>2, <1>3, <1>4, <1>5

(* The ranking of the providers rests on one count per answered call and
   service that gave a value, however calls, retries and upgrades interleave. *)
THEOREM UsageCountsAlways == Spec => []UsageCountsOkResults
  <1>1. Init => UsageInv
    <2> SUFFICES ASSUME Init PROVE UsageInv
      OBVIOUS
    <2>1. recent = {} /\ \A s \in Service : usage[s] = 0
      BY DEF Init
    <2>2. \A s \in Service : OkCalls(s) = {}
      BY <2>1 DEF OkCalls
    <2> QED
      BY <2>1, <2>2, FS_EmptySet DEF UsageInv
  <1>2. UsageInv => UsageCountsOkResults
    BY DEF UsageInv, UsageCountsOkResults, OkCalls
  <1> QED
    BY <1>1, <1>2, NextUsage, TypeCorrect, PTL DEF Spec

-----------------------------------------------------------------------------
(* The calls as MultiCall sees them: the expressions of Promise. *)

MStatus == [c \in Call |-> IF phase[c] = "new" THEN "new"
                           ELSE IF Open(c) THEN "open" ELSE "done"]
MArgs == [c \in Call |-> [services |-> req[c].services, min |-> req[c].min,
                          attached |-> req[c].attached]]
MAnswer == [c \in Call |-> [s \in Service |-> slot[c][s].res]]
MPaid == [c \in Call |-> req[c].attached - avail[c]]

(* The invariants the refinement rests on. *)
RefInv == TypeOK /\ CyclesInv /\ PhaseMatchesSlots /\ ReplyInv

(* A call that is left alone looks the same to its caller. *)
LEMMA SeenAlike ==
  ASSUME NEW d \in Call, phase'[d] = phase[d], req'[d] = req[d],
         avail'[d] = avail[d], slot'[d] = slot[d]
  PROVE  /\ MStatus'[d] = MStatus[d] /\ MArgs'[d] = MArgs[d]
         /\ MAnswer'[d] = MAnswer[d] /\ MPaid'[d] = MPaid[d]
  BY DEF MStatus, MArgs, MAnswer, MPaid, Open

(* The status of a call that changes. *)
LEMMA StatusChange ==
  ASSUME NEW c \in Call, NEW v, MStatus'[c] = v,
         \A d \in Call : d # c => MStatus'[d] = MStatus[d]
  PROVE  MStatus' = [MStatus EXCEPT ![c] = v]
  <1>1. /\ MStatus = [d \in Call |-> MStatus[d]]
        /\ MStatus' = [d \in Call |-> MStatus'[d]]
    BY DEF MStatus
  <1> HIDE DEF MStatus
  <1> QED
    BY <1>1

(* What is the same for every call is the same. *)
LEMMA Unchanged ==
  /\ (\A d \in Call : MStatus'[d] = MStatus[d]) => MStatus' = MStatus
  /\ (\A d \in Call : MArgs'[d] = MArgs[d]) => MArgs' = MArgs
  /\ (\A d \in Call : MAnswer'[d] = MAnswer[d]) => MAnswer' = MAnswer
  /\ (\A d \in Call : MPaid'[d] = MPaid[d]) => MPaid' = MPaid
  BY DEF MStatus, MArgs, MAnswer, MPaid

(* A call that begins is accepted: it has answers from no one and has paid
   nothing. *)
LEMMA BeginAccepts ==
  ASSUME RefInv, NEW c \in Call, NEW S, NEW m, NEW z, NEW a, NEW retry,
         Starts(c, S, m, z, a, retry)
  PROVE  Promise!Accept(c)
  <1> USE DEF RefInv
  <1>1. \A d \in Call : d # c =>
          /\ MStatus'[d] = MStatus[d] /\ MArgs'[d] = MArgs[d]
          /\ MAnswer'[d] = MAnswer[d] /\ MPaid'[d] = MPaid[d]
    BY OthersKept, SeenAlike
  <1>2. /\ phase[c] = "new" /\ phase'[c] = "sending" /\ reply' = reply
        /\ a \in Nat /\ req'[c].services = S /\ req'[c].attached = a /\ S # {}
        /\ avail'[c] = a
        /\ slot'[c] = [s \in Service |-> IF s \in S
             THEN [st |-> "unsent", id |-> 0, size |-> z, res |-> NoResult]
             ELSE Unused]
    BY DEF Starts, Begin, TypeOK
  <1>3. /\ req[c].attached = 0 /\ avail[c] = 0
        /\ slot[c] = [s \in Service |-> Unused]
    BY <1>2 DEF CyclesInv, NewUntouched, NoArgs
  <1>4. MStatus[c] = "new" /\ MStatus'[c] = "open"
    BY <1>2 DEF MStatus, Open
  <1>5. MArgs'[c].services # {}
    BY <1>2 DEF MArgs
  <1>6. MPaid'[c] = MPaid[c]
    BY <1>2, <1>3 DEF MPaid
  <1>7. MAnswer'[c] = MAnswer[c]
    BY <1>2, <1>3 DEF MAnswer, Unused
  <1>8. MStatus' = [MStatus EXCEPT ![c] = "open"]
    BY <1>1, <1>4, StatusChange
  <1>9. MAnswer' = MAnswer /\ MPaid' = MPaid
    BY <1>1, <1>6, <1>7, Unchanged
  <1> QED
    BY <1>1, <1>2, <1>4, <1>5, <1>8, <1>9
    DEF Promise!Accept, MStatus, MArgs, MAnswer, MPaid

(* A call refused with an error, or by a trap, costs nothing and returns no
   value. *)
LEMMA RefusalRefuses ==
  ASSUME RefInv, NEW c \in Call, EarlyReturn(c) \/ \E S : Trap(c, S)
  PROVE  Promise!Refuse(c)
  <1> USE DEF RefInv
  <1>1. \A d \in Call : d # c => MStatus'[d] = MStatus[d] /\ reply'[d] = reply[d]
    BY OthersKept, SeenAlike
  <1>2. /\ phase[c] = "new" /\ phase'[c] \in {"replied", "trapped"}
        /\ UNCHANGED <<req, avail, slot>>
    BY DEF EarlyReturn, Trap, TypeOK
  <1>3. reply'[c].res.kind # "ok"
    <2>1. CASE EarlyReturn(c)
      BY <2>1 DEF EarlyReturn, TypeOK, Consistent, Res
    <2>2. CASE \E S : Trap(c, S)
      BY <1>2, <2>2 DEF Trap, ReplyInv, NoReply, NoResult, Res
    <2> QED
      BY <2>1, <2>2
  <1>4. MStatus[c] = "new" /\ MStatus'[c] = "done"
    BY <1>2 DEF MStatus, Open
  <1>5. MStatus' = [MStatus EXCEPT ![c] = "done"]
    BY <1>1, <1>4, StatusChange
  <1>6. MArgs' = MArgs /\ MAnswer' = MAnswer /\ MPaid' = MPaid
    BY <1>2 DEF MArgs, MAnswer, MPaid
  <1> QED
    BY <1>1, <1>3, <1>4, <1>5, <1>6
    DEF Promise!Refuse, MStatus, MArgs, MAnswer, MPaid

(* Sending, retrying and settling an outcall let the call go on: the payment
   grows within what was attached, and only a queried service that had not
   answered gets an answer. *)
LEMMA SlotStepProceeds ==
  ASSUME RefInv, TypeOK', NEW c \in Call, NEW s \in Service, NEW r,
         SlotStep(c, s, r)
  PROVE  Promise!Proceed(c)
  <1> USE DEF RefInv
  <1>1. \A d \in Call : d # c =>
          /\ MStatus'[d] = MStatus[d]
          /\ MAnswer'[d] = MAnswer[d] /\ MPaid'[d] = MPaid[d]
    BY OthersKept, SeenAlike
  <1>2. /\ phase[c] \in {"sending", "waiting"}
        /\ slot[c][s].st \in {"unsent", "inflight"}
        /\ avail'[c] \in Nat /\ avail[c] \in Nat /\ avail'[c] <= avail[c]
        /\ req' = req /\ reply' = reply
        /\ phase'[c] \in {"sending", "waiting", "finishing"}
        /\ \A t \in Service : t # s => slot'[c][t] = slot[c][t]
    BY PhaseOfType DEF SlotStep, TypeOK
  <1>3. MStatus[c] = "open" /\ MStatus'[c] = "open"
    BY <1>2 DEF MStatus, Open
  <1>4. MStatus' = MStatus /\ MArgs' = MArgs
    BY <1>1, <1>2, <1>3, Unchanged DEF MArgs
  <1>5. req[c].attached \in Nat
    BY DEF TypeOK, Args
  <1>6. MPaid[c] <= MPaid'[c] /\ MPaid'[c] <= MArgs[c].attached
    BY <1>2, <1>5 DEF MPaid, MArgs
  <1>7. s \in req[c].services /\ slot[c][s].res = NoResult
    BY <1>2, SlotFields DEF PhaseMatchesSlots
  <1>8. \A t \in Service : MAnswer'[c][t] # MAnswer[c][t] =>
          t \in MArgs[c].services /\ MAnswer[c][t] = NoResult
    BY <1>2, <1>7 DEF MAnswer, MArgs
  <1> QED
    BY <1>1, <1>2, <1>3, <1>4, <1>6, <1>8
    DEF Promise!Proceed, MStatus, MArgs, MAnswer, MPaid

(* MultiCall counts as this module does. *)
LEMMA SameCardinality == \A S : Promise!Cardinality(S) = Cardinality(S)
  BY DEF Promise!Cardinality, Cardinality

(* Whom MultiCall counts as backing a result. *)
LEMMA BackersWith ==
  ASSUME TypeOK, NEW c \in Call, NEW r
  PROVE  Promise!Backers(c, r) = With(req[c].services, ResultsOf(c), r)
  <1>1. req[c].services \subseteq Service
    BY ArgsFields
  <1> QED
    BY <1>1 DEF Promise!Backers, With, ResultsOf

(* A call that finishes is answered: every queried service has its result, and
   the reply is a faithful summary of them. *)
LEMMA FinishAnswers ==
  ASSUME RefInv, NEW c \in Call, Finish(c)
  PROVE  Promise!Answer(c)
  <1> USE DEF RefInv
  <1>1. \A d \in Call : d # c => MStatus'[d] = MStatus[d] /\ reply'[d] = reply[d]
    BY OthersKept, SeenAlike
  <1>2. /\ phase[c] = "finishing" /\ phase'[c] = "replied"
        /\ UNCHANGED <<req, avail, slot>>
    BY DEF Finish, TypeOK
  <1>3. MStatus[c] = "open" /\ MStatus'[c] = "done"
    BY <1>2 DEF MStatus, Open
  <1>4. MStatus' = [MStatus EXCEPT ![c] = "done"]
    BY <1>1, <1>3, StatusChange
  <1>5. MArgs' = MArgs /\ MAnswer' = MAnswer /\ MPaid' = MPaid
    BY <1>2 DEF MArgs, MAnswer, MPaid
  <1>6. req[c].services \subseteq Service /\ req[c].services # {}
    BY <1>2, ArgsFields DEF ReplyInv, Open
  <1>7. \A s \in req[c].services : slot[c][s].res # NoResult
    <2> SUFFICES ASSUME NEW s \in req[c].services
                 PROVE  slot[c][s].res # NoResult
      OBVIOUS
    <2>1. s \in Service /\ slot[c][s] \in Slot
      BY <1>6, SlotFields
    <2>2. slot[c][s].st \notin {"unused", "unsent", "inflight"}
      BY <1>2, <1>6, <2>1 DEF PhaseMatchesSlots, PhaseOf, Open
    <2> QED
      BY <2>1, <2>2 DEF Slot, Unused
  <1>8. \A s \in MArgs[c].services : MAnswer[c][s] # NoResult
    BY <1>6, <1>7 DEF MArgs, MAnswer
  <1>9. Promise!Faithful(c, reply'[c])
    <2>1. FaithfulReply(c)'
      BY <1>6, FinishFaithful
    <2>2. ResultsOf(c)' = ResultsOf(c)
          /\ \A s \in req[c].services : ResultsOf(c)[s] = slot[c][s].res
      BY <1>2, <1>6 DEF ResultsOf
    <2> DEFINE S == req[c].services
               res == ResultsOf(c)
               quorum == IF req[c].min = Equality THEN Cardinality(S)
                         ELSE req[c].min
    <2>3. \/ /\ reply'[c].kind = "consistent" /\ reply'[c].res.kind = "ok"
             /\ Cardinality(With(S, res, reply'[c].res)) >= quorum
          \/ /\ reply'[c].kind = "consistent"
             /\ With(S, res, reply'[c].res) = S
          \/ /\ reply'[c].kind = "inconsistent"
             /\ \A s \in S :
                  /\ With(S, res, res[s]) # S
                  /\ res[s].kind = "ok" =>
                       Cardinality(With(S, res, res[s])) < quorum
      BY <1>2, <2>1, <2>2 DEF FaithfulReply
    <2>4. \A r : Promise!Backers(c, r) = With(S, res, r)
      BY BackersWith
    <2>5. /\ MArgs[c].services = S /\ MArgs[c].min = req[c].min
          /\ \A s \in S : MAnswer[c][s] = res[s]
      BY <1>6, <2>2 DEF MArgs, MAnswer
    <2>6. \/ /\ reply'[c].kind = "consistent" /\ reply'[c].res.kind = "ok"
             /\ Cardinality(Promise!Backers(c, reply'[c].res)) >= quorum
          \/ /\ reply'[c].kind = "consistent"
             /\ Promise!Backers(c, reply'[c].res) = S
          \/ /\ reply'[c].kind = "inconsistent"
             /\ \A s \in S :
                  /\ Promise!Backers(c, MAnswer[c][s]) # S
                  /\ MAnswer[c][s].kind = "ok" =>
                       Cardinality(Promise!Backers(c, MAnswer[c][s])) < quorum
      <3> HIDE DEF S, res, quorum
      <3> QED
        BY <2>3, <2>4, <2>5
    <2> QED
      BY <2>5, <2>6, SameCardinality DEF Promise!Faithful, MArgs, MAnswer
  <1> QED
    BY <1>1, <1>3, <1>4, <1>5, <1>8, <1>9
    DEF Promise!Answer, MStatus, MArgs, MAnswer, MPaid

(* The calls implement MultiCall: every step of the canister is a step of one
   call as its caller sees it, or changes nothing for any caller.  An upgrade
   is of the second kind. *)
THEOREM CallsImplementMultiCall == Spec => ImplementsMultiCall
  <1>1. Init => Promise!Init
    <2> SUFFICES ASSUME Init PROVE Promise!Init
      OBVIOUS
    <2>1. MStatus = [c \in Call |-> "new"]
      BY DEF Init, MStatus
    <2>2. MArgs \in [Call -> {[services |-> {}, min |-> Equality,
                               attached |-> 0]}]
      BY DEF Init, MArgs, NoArgs
    <2>3. MAnswer = [c \in Call |-> [s \in Service |-> NoResult]]
      BY DEF Init, MAnswer, Unused
    <2>4. MPaid = [c \in Call |-> 0]
      BY DEF Init, MPaid, NoArgs
    <2> QED
      BY <2>1, <2>2, <2>3, <2>4
      DEF Promise!Init, Init, MStatus, MArgs, MAnswer, MPaid
  <1>2. RefInv /\ TypeOK' /\ [Next]_vars => [Promise!Next]_(Promise!vars)
    <2> SUFFICES ASSUME RefInv, TypeOK', [Next]_vars
                 PROVE  [Promise!Next]_(Promise!vars)
      OBVIOUS
    <2>1. CASE UNCHANGED callVars
      <3>1. UNCHANGED <<MStatus, MArgs, MAnswer, MPaid, reply>>
        BY <2>1 DEF callVars, MStatus, MArgs, MAnswer, MPaid, Open
      <3> QED
        BY <3>1 DEF Promise!vars, MStatus, MArgs, MAnswer, MPaid
    <2>2. \/ \E c \in Call : \E S, m, z, a, retry : Starts(c, S, m, z, a, retry)
          \/ \E c \in Call : EarlyReturn(c)
          \/ \E c \in Call : \E S : Trap(c, S)
          \/ \E c \in Call, s \in Service : \E r : SlotStep(c, s, r)
          \/ \E c \in Call : Finish(c)
          \/ UNCHANGED callVars
      BY StepCases DEF RefInv, Upgrade, vars
    <2> QED
      BY <2>1, <2>2, BeginAccepts, RefusalRefuses, SlotStepProceeds,
         FinishAnswers DEF Promise!Next
  <1> QED
    BY <1>1, <1>2, TypeCorrect, CyclesInductive, PhasesMatch, ReplyInductive, PTL
    DEF Spec, ImplementsMultiCall, Promise!Spec, RefInv
-----------------------------------------------------------------------------
(* Request ids. *)

(* The 64-bit counter of request ids is not about to wrap around. *)
CounterBelowLimit == counter < IdModulus - 1

(* The outcall of service s in call c is on its way under a generated id. *)
Numbered(c, s) == slot[c][s].st = "inflight" /\ req[c].retry

(* The ids on their way were all drawn from the counter, and each once. *)
IdInv ==
  /\ \A c \in Call, s \in Service : Numbered(c, s) => slot[c][s].id < counter
  /\ \A c, d \in Call, s, t \in Service :
       Numbered(c, s) /\ Numbered(d, t) /\ slot[c][s].id = slot[d][t].id
       => c = d /\ s = t

(* Before it wraps, the counter is one larger after a request. *)
LEMMA NextIdLarger ==
  ASSUME TypeOK, CounterBelowLimit
  PROVE  NextId(counter) = counter + 1 /\ counter \in Nat
  <1>1. \A n, m \in Nat : n < m => n % m = n
    OBVIOUS
  <1>2. counter \in Nat /\ IdModulus \in Nat /\ counter + 1 < IdModulus
    BY IdAssumption DEF TypeOK, CounterBelowLimit
  <1> QED
    BY <1>1, <1>2 DEF NextId

(* A request is issued for an unsent slot, or as a retry of an outcall with a
   larger limit. *)
Issues(c, s, z) ==
  /\ Issue(c, s, z)
  /\ req' = req
  /\ \/ slot[c][s].st = "unsent"
     \/ /\ slot[c][s].st = "inflight" /\ req[c].retry
        /\ z > slot[c][s].size

(* What every step does to the ids. *)
LEMMA IdCases ==
  ASSUME TypeOK, [Next]_vars
  PROVE  \/ \E c \in Call : \E S, m, z, a, retry : Starts(c, S, m, z, a, retry)
         \/ \E c \in Call, s \in Service, z \in Size : Issues(c, s, z)
         \/ \E c \in Call, s \in Service : \E res : Settle(c, s, res) /\ req' = req
         \/ \E d \in BOOLEAN : Upgrade(d)
         \/ UNCHANGED <<slot, req, counter>>
  <1>1. ASSUME NEW c \in Call, Send(c)
        PROVE  \E s \in Service, z \in Size : Issues(c, s, z)
    <2>1. PICK s \in Service : slot[c][s].st = "unsent"
                               /\ Issue(c, s, slot[c][s].size)
      BY <1>1 DEF Send
    <2>2. slot[c][s].size \in Size
      BY <2>1, SlotFields
    <2> QED
      BY <1>1, <2>1, <2>2 DEF Send, Issues
  <1>2. ASSUME NEW c \in Call, NEW s \in Service, OutcallReply(c, s)
        PROVE  \/ \E z \in Size : Issues(c, s, z)
               \/ \E res : Settle(c, s, res) /\ req' = req
    <2>1. slot[c][s].st = "inflight" /\ req' = req
      BY <1>2 DEF OutcallReply, Responded, OutcallFailed, TooLarge, AwaitsReply
    <2>2. \/ Retries(c, slot[c][s].size) /\ Issue(c, s, Double(slot[c][s].size))
          \/ \E res : Settle(c, s, res)
      BY <1>2 DEF OutcallReply, Responded, OutcallFailed, TooLarge
    <2>3. Double(slot[c][s].size) \in Size
      BY <2>1, SlotFields, DoubleSize
    <2> QED
      BY <2>1, <2>2, <2>3 DEF Issues, Retries
  <1>3. ASSUME NEW c \in Call, Finish(c) PROVE UNCHANGED <<slot, req, counter>>
    BY <1>3 DEF Finish
  <1>4. ASSUME NEW c \in Call, Start(c)
        PROVE  \/ \E S, m, z, a, retry : Starts(c, S, m, z, a, retry)
               \/ UNCHANGED <<slot, req, counter>>
    BY <1>4, StartCases DEF EarlyReturn, Trap
  <1>5. CASE UNCHANGED vars
    BY <1>5 DEF vars, callVars
  <1> QED
    BY <1>1, <1>2, <1>3, <1>4, <1>5 DEF Next

(* A request on its way got its id from the counter. *)
LEMMA IssueIds ==
  ASSUME TypeOK, IdInv, CounterBelowLimit, NEW c \in Call, NEW s \in Service,
         NEW z \in Size, Issues(c, s, z)
  PROVE  IdInv'
  <1> DEFINE id == IF req[c].retry THEN counter ELSE 0
             funded == [st |-> "inflight", id |-> id, size |-> z,
                        res |-> NoResult]
             broke == Settled(TooFewCycles(Charge(c, s, z), avail[c]))
  <1>1. /\ counter \in Nat /\ counter' \in Nat /\ counter <= counter'
        /\ req[c].retry => counter < counter'
    BY NextIdLarger DEF Issues, Issue
  <1>2. req' = req /\ \E r \in {funded, broke} : slot' = [slot EXCEPT ![c][s] = r]
    BY DEF Issues, Issue
  <1>3. PICK r \in {funded, broke} : slot' = [slot EXCEPT ![c][s] = r]
    BY <1>2
  <1>4. r.st = "inflight" /\ req[c].retry => r.id = counter
    BY <1>3 DEF Settled
  <1> HIDE DEF funded, broke
  <1>5. \A d \in Call, t \in Service :
          slot'[d][t] = IF d = c /\ t = s THEN r ELSE slot[d][t]
    BY <1>3 DEF TypeOK
  <1>6. \A d \in Call, t \in Service : Numbered(d, t) => slot[d][t].id \in Nat
    BY SlotFields DEF Numbered
  <1>7. ASSUME NEW d \in Call, NEW t \in Service, Numbered(d, t)'
        PROVE  \/ d = c /\ t = s /\ slot'[d][t].id = counter /\ counter < counter'
               \/ /\ Numbered(d, t) /\ slot'[d][t].id = slot[d][t].id
                  /\ slot[d][t].id < counter
    BY <1>1, <1>2, <1>4, <1>5, <1>7 DEF Numbered, IdInv
  <1>8. ASSUME NEW d \in Call, NEW t \in Service, Numbered(d, t)'
        PROVE  slot'[d][t].id < counter'
    BY <1>1, <1>6, <1>7, <1>8
  <1>9. ASSUME NEW d \in Call, NEW e \in Call, NEW t \in Service,
               NEW u \in Service, Numbered(d, t)', Numbered(e, u)',
               slot'[d][t].id = slot'[e][u].id
        PROVE  d = e /\ t = u
    BY <1>1, <1>6, <1>7, <1>9 DEF IdInv
  <1> QED
    BY <1>8, <1>9 DEF IdInv

(* Every step keeps the ids on their way apart, before the counter wraps. *)
LEMMA NextIds ==
  TypeOK /\ PhaseMatchesSlots /\ IdInv /\ CounterBelowLimit /\ [Next]_vars
    => IdInv'
  <1> SUFFICES ASSUME TypeOK, PhaseMatchesSlots, IdInv, CounterBelowLimit,
                      [Next]_vars
               PROVE  IdInv'
    OBVIOUS
  <1>1. CASE UNCHANGED <<slot, req, counter>>
    BY <1>1 DEF IdInv, Numbered
  <1>2. ASSUME counter' = counter,
               \A c \in Call, s \in Service :
                 Numbered(c, s)' =>
                   Numbered(c, s) /\ slot'[c][s].id = slot[c][s].id
        PROVE  IdInv'
    BY <1>2 DEF IdInv
  <1>3. ASSUME NEW c \in Call, NEW S, NEW m, NEW z, NEW a, NEW retry,
               Starts(c, S, m, z, a, retry)
        PROVE  IdInv'
    <2>1. \A s \in Service : slot'[c][s].st # "inflight"
      BY <1>3 DEF Starts, Begin, TypeOK, Unused
    <2>2. \A d \in Call : d # c => slot'[d] = slot[d] /\ req'[d] = req[d]
      BY <1>3, OthersKept
    <2>3. counter' = counter
      BY <1>3 DEF Starts, Begin
    <2> QED
      BY <1>2, <2>1, <2>2, <2>3 DEF Numbered
  <1>4. ASSUME NEW c \in Call, NEW s \in Service, NEW res,
               Settle(c, s, res), req' = req
        PROVE  IdInv'
    <2>1. Settled(res).st = "settled"
      BY DEF Settled
    <2>2. \A d \in Call, t \in Service :
            \/ slot'[d][t] = slot[d][t]
            \/ slot'[d][t] = Settled(res)
      BY <1>4 DEF Settle, TypeOK
    <2>3. counter' = counter
      BY <1>4 DEF Settle
    <2> QED
      BY <1>2, <1>4, <2>1, <2>2, <2>3 DEF Numbered
  <1>5. ASSUME NEW d \in BOOLEAN, Upgrade(d) PROVE IdInv'
    <2>1. \A c \in Call, s \in Service : slot'[c][s].st # "inflight"
      BY <1>5 DEF Upgrade, callVars, PhaseMatchesSlots, PhaseOf
    <2> QED
      BY <2>1 DEF IdInv, Numbered
  <1> QED
    BY <1>1, <1>3, <1>4, <1>5, IdCases, IssueIds

(* Initially nothing is on its way. *)
LEMMA InitIds == Init => IdInv
  BY DEF Init, IdInv, Numbered, Unused

(* As long as the counter has not wrapped around, no two outcalls on their way
   carry the same generated id, across calls, retries and upgrades: the only
   way ids can repeat is that 2^64 of them are drawn between two upgrades. *)
THEOREM IdsDistinctBeforeWrap ==
  Spec /\ []CounterBelowLimit => []IdsInFlightDistinct
  <1>1. IdInv => IdsInFlightDistinct
    BY DEF IdInv, Numbered, IdsInFlightDistinct
  <1> QED
    BY <1>1, InitIds, NextIds, TypeCorrect, PhasesMatch, PTL DEF Spec

(* An outcall that takes the place of another is a retry of an eth_* call with
   a larger limit, under a new id (before the counter wraps) and paid for. *)
THEOREM RetriesGrowAndPay ==
  Spec /\ []CounterBelowLimit => RetryIsLargerAndPaid
  <1>1. ASSUME TypeOK, PhaseMatchesSlots, IdInv, [Next]_vars,
               NEW c \in Call, NEW s \in Service,
               slot[c][s].st = "inflight", slot'[c][s].st = "inflight",
               slot'[c][s] # slot[c][s]
        PROVE  /\ req[c].retry
               /\ slot'[c][s].size > slot[c][s].size
               /\ slot'[c][s].id # slot[c][s].id
               /\ avail'[c] = avail[c] - Charge(c, s, slot'[c][s].size)
    <2>1. PhaseOf(slot[c]) # "finishing"
      BY <1>1 DEF PhaseOf
    <2>2. phase[c] # "new"
      BY <1>1, <2>1 DEF PhaseMatchesSlots, Open
    <2>3. ASSUME NEW d \in Call, NEW S, NEW m, NEW z, NEW a, NEW retry,
                 Starts(d, S, m, z, a, retry)
          PROVE  FALSE
      <3>1. d # c
        BY <2>2, <2>3 DEF Starts, Begin
      <3> QED
        BY <1>1, <2>3, <3>1, OthersKept
    <2>4. ASSUME NEW d \in Call, NEW t \in Service, NEW res, Settle(d, t, res)
          PROVE  FALSE
      <3>1. Settled(res).st = "settled"
        BY DEF Settled
      <3>2. slot'[c][s] = slot[c][s] \/ slot'[c][s] = Settled(res)
        BY <1>1, <2>4 DEF Settle, TypeOK
      <3> QED
        BY <1>1, <3>1, <3>2
    <2>5. ASSUME NEW d \in BOOLEAN, Upgrade(d) PROVE FALSE
      BY <1>1, <2>5 DEF Upgrade, callVars
    <2>6. PICK d \in Call, t \in Service, z \in Size : Issues(d, t, z)
      BY <1>1, <2>3, <2>4, <2>5, IdCases
    <2> DEFINE id == IF req[d].retry THEN counter ELSE 0
               funded == [st |-> "inflight", id |-> id, size |-> z,
                          res |-> NoResult]
               broke == Settled(TooFewCycles(Charge(d, t, z), avail[d]))
    <2>7. \/ /\ slot' = [slot EXCEPT ![d][t] = funded]
             /\ avail' = [avail EXCEPT ![d] = avail[d] - Charge(d, t, z)]
          \/ slot' = [slot EXCEPT ![d][t] = broke]
      BY <2>6 DEF Issues, Issue
    <2>8. /\ funded.st = "inflight" /\ funded.size = z /\ funded.id = id
          /\ broke.st = "settled"
      BY DEF Settled
    <2> HIDE DEF funded, broke
    <2>9. c = d /\ s = t
      BY <1>1, <2>7 DEF TypeOK
    <2>10. slot' = [slot EXCEPT ![d][t] = funded]
           /\ avail' = [avail EXCEPT ![d] = avail[d] - Charge(d, t, z)]
      BY <1>1, <2>7, <2>8, <2>9 DEF TypeOK
    <2>11. slot'[c][s] = funded /\ avail'[c] = avail[c] - Charge(c, s, z)
      BY <1>1, <2>9, <2>10 DEF TypeOK
    <2>12. req[c].retry /\ z > slot[c][s].size
      BY <1>1, <2>6, <2>9 DEF Issues
    <2>13. slot[c][s].id < counter /\ slot[c][s].id \in Nat /\ counter \in Nat
      BY <1>1, <2>12, SlotFields, IdAssumption DEF IdInv, Numbered, TypeOK
    <2>14. id = counter
      BY <2>9, <2>12
    <2> HIDE DEF id
    <2> QED
      BY <2>8, <2>11, <2>12, <2>13, <2>14
  <1>2. TypeOK /\ PhaseMatchesSlots /\ IdInv /\ [Next]_vars =>
          [\A c \in Call, s \in Service :
             /\ slot[c][s].st = "inflight" /\ slot'[c][s].st = "inflight"
             /\ slot'[c][s] # slot[c][s]
             => /\ req[c].retry
                /\ slot'[c][s].size > slot[c][s].size
                /\ slot'[c][s].id # slot[c][s].id
                /\ avail'[c] = avail[c] - Charge(c, s, slot'[c][s].size)]_vars
    BY <1>1
  <1> QED
    BY <1>2, InitIds, NextIds, TypeCorrect, PhasesMatch, PTL
    DEF Spec, RetryIsLargerAndPaid
=============================================================================
