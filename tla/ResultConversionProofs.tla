----------------------- MODULE ResultConversionProofs -----------------------
(***************************************************************************)
(* Proofs about the two maps between the reduction of the results and the  *)
(* caller's code: for any services, strategy and answers, they keep the    *)
(* meaning of the reduction, and those of the canister hide no difference. *)
(***************************************************************************)
EXTENDS ResultConversion, FiniteSetTheorems, WellFoundedInduction, TLAPS

-----------------------------------------------------------------------------
(* Support. *)

(* The services with result x in view. *)
With(view, x) == {s \in Service : view[s] = x}

(* Enough services, or all of them, have result x in view. *)
Enough(view, x) ==
  Cardinality(With(view, x)) >= Quorum \/ With(view, x) = Service

(* The number asked for is a natural number. *)
LEMMA QuorumNat ==
  ASSUME min \in Strategy
  PROVE  Quorum \in Nat /\ min \in Nat
  <1>1. Cardinality(Service) \in Nat
    BY ServicesAssumption, FS_CardinalityType
  <1> QED
    BY <1>1, StrategyAssumption DEF Quorum

(* Sets of services can be counted. *)
LEMMA WithFinite ==
  ASSUME NEW S \in SUBSET Service
  PROVE  /\ IsFiniteSet(S) /\ Cardinality(S) \in Nat
         /\ \A T \in SUBSET S : Cardinality(T) \in Nat
                                /\ Cardinality(T) <= Cardinality(S)
  <1>1. IsFiniteSet(S)
    BY ServicesAssumption, FS_Subset
  <1>2. \A T \in SUBSET S : IsFiniteSet(T) /\ Cardinality(T) <= Cardinality(S)
    BY <1>1, FS_Subset
  <1> QED
    BY <1>1, <1>2, FS_CardinalityType

(* Results that are equal before a map are equal after it, so support can only
   grow. *)
LEMMA SupportGrows ==
  ASSUME min \in Strategy, NEW f, NEW g, NEW x, NEW y, Enough(f, x),
         \A s \in Service : f[s] = x => g[s] = y
  PROVE  Enough(g, y)
  <1>1. With(f, x) \subseteq With(g, y) /\ With(g, y) \subseteq Service
    BY DEF With
  <1>2. /\ Cardinality(With(f, x)) <= Cardinality(With(g, y))
        /\ Cardinality(With(f, x)) \in Nat /\ Cardinality(With(g, y)) \in Nat
    BY <1>1, WithFinite
  <1>3. CASE Cardinality(With(f, x)) >= Quorum
    BY <1>2, <1>3, QuorumNat DEF Enough
  <1>4. CASE With(f, x) = Service
    BY <1>1, <1>4 DEF Enough
  <1> QED
    BY <1>3, <1>4 DEF Enough

(* All services agree on what any of them returned. *)
LEMMA AgreeEnough ==
  ASSUME NEW f, Agree(Service, f), NEW s \in Service
  PROVE  Enough(f, f[s])
  BY DEF Agree, Enough, With

(* What a reduction takes for consistent has enough support. *)
LEMMA ReductionBacked ==
  ASSUME min \in Strategy, NEW f, NEW r \in ByStrategy(Service, f, min)
  PROVE  \/ r = Inconsistent
         \/ \E x : r = Consistent(x) /\ Enough(f, x)
  <1>1. ASSUME Agree(Service, f), r \in {Consistent(f[s]) : s \in Service}
        PROVE  \E x : r = Consistent(x) /\ Enough(f, x)
    BY <1>1, AgreeEnough
  <1>2. CASE min = Equality
    BY <1>1, <1>2 DEF ByStrategy, ByEquality
  <1>3. CASE min # Equality
    <2> DEFINE oks == {s \in Service : f[s].kind = "ok"}
               support(s) == Cardinality({t \in oks : f[t] = f[s]})
               best == {s \in oks : \A t \in oks : support(t) <= support(s)}
    <2>1. \/ r = Inconsistent
          \/ Agree(Service, f) /\ r \in {Consistent(f[s]) : s \in Service}
          \/ /\ \E s \in best : support(s) >= min
             /\ r \in {Consistent(f[s]) : s \in best}
      BY <1>3 DEF ByStrategy, ByThreshold
    <2>2. ASSUME NEW s \in best, support(s) >= min, NEW t \in best,
                 r = Consistent(f[t])
          PROVE  Enough(f, f[t])
      <3>1. {u \in oks : f[u] = f[t]} \subseteq With(f, f[t])
            /\ With(f, f[t]) \subseteq Service
            /\ {u \in oks : f[u] = f[s]} \subseteq Service
        BY DEF With
      <3>2. /\ support(t) \in Nat /\ support(s) \in Nat
            /\ Cardinality(With(f, f[t])) \in Nat
            /\ support(t) <= Cardinality(With(f, f[t]))
        BY <3>1, WithFinite
      <3>3. support(s) <= support(t)
        OBVIOUS
      <3> HIDE DEF support
      <3>4. Cardinality(With(f, f[t])) >= min
        BY <2>2, <3>2, <3>3, QuorumNat
      <3> QED
        BY <1>3, <3>4 DEF Enough, Quorum
    <2> HIDE DEF best, support
    <2> QED
      BY <1>1, <2>1, <2>2
  <1> QED
    BY <1>2, <1>3

(* What collapse makes of an inconsistent result. *)
LEMMA CollapseBacked ==
  ASSUME NEW f, NEW r \in Collapse(Service, f, Inconsistent)
  PROVE  \/ r = Inconsistent /\ ~Agree(Service, f)
         \/ Agree(Service, f) /\ \E x : r = Consistent(x) /\ Enough(f, x)
  BY AgreeEnough DEF Collapse

(* A consistent result is not an inconsistent one. *)
LEMMA KindsDiffer ==
  \A x : /\ Consistent(x).kind = "consistent" /\ Consistent(x).res = x
         /\ Inconsistent.kind = "inconsistent" /\ Consistent(x) # Inconsistent
  BY DEF Consistent, Inconsistent

-----------------------------------------------------------------------------
(* The maps. *)

(* The reply sums up the results in view. *)
Summary(view) ==
  reply = Inconsistent \/ \E x : reply = Consistent(x) /\ Enough(view, x)

(* At each stage the reply sums up what the stage made of the answers, and
   after a collapse what is inconsistent differs. *)
ConversionInv ==
  /\ min \in Strategy
  /\ stage \in {"calling", "reduced", "candid", "done"}
  /\ stage # "calling" => Summary(each)
  /\ stage = "reduced" => \A s \in Service : each[s] = answer[s]
  /\ stage = "candid" => \A s \in Service : each[s] = MapToCandid(answer[s])
  /\ stage = "done" => \A s \in Service : each[s] = Alone(s)
  /\ stage \in {"candid", "done"} /\ reply = Inconsistent =>
       ~Agree(Service, each)

(* A map with its collapse keeps a summary a summary. *)
LEMMA MapSummary ==
  ASSUME min \in Strategy, min' = min, Summary(each), NEW g, each' = g,
         NEW y,
         \A s \in Service : reply.kind = "consistent" /\ each[s] = reply.res
                              => g[s] = y,
         \/ reply.kind = "consistent" /\ reply' = Consistent(y)
         \/ reply = Inconsistent /\ reply' \in Collapse(Service, g, reply)
  PROVE  Summary(each)' /\ (reply' = Inconsistent => ~Agree(Service, g))
  <1>2. CASE reply.kind = "consistent" /\ reply' = Consistent(y)
    <2>1. PICK x : reply = Consistent(x) /\ Enough(each, x)
      BY <1>2, KindsDiffer DEF Summary
    <2>2. reply.res = x
      BY <2>1, KindsDiffer
    <2>3. Enough(g, y)
      BY <1>2, <2>1, <2>2, SupportGrows
    <2>4. Enough(each, y)'
      BY <2>3 DEF Enough, Quorum, With
    <2> QED
      BY <1>2, <2>4, KindsDiffer DEF Summary
  <1>3. CASE reply = Inconsistent /\ reply' \in Collapse(Service, g, reply)
    <2>1. \/ reply' = Inconsistent /\ ~Agree(Service, g)
          \/ \E x : reply' = Consistent(x) /\ Enough(g, x)
      BY <1>3, CollapseBacked
    <2>2. \A x : Enough(g, x) => Enough(each, x)'
      BY DEF Enough, Quorum, With
    <2> QED
      BY <2>1, <2>2, KindsDiffer DEF Summary
  <1> QED
    BY <1>2, <1>3

(* Every step keeps the invariant. *)
LEMMA NextConversion == ConversionInv /\ [Next]_vars => ConversionInv'
  <1> SUFFICES ASSUME ConversionInv, [Next]_vars PROVE ConversionInv'
    OBVIOUS
  <1> USE DEF ConversionInv
  <1>1. CASE UNCHANGED vars
    BY <1>1 DEF vars, Summary, Enough, Quorum, With, Alone, MapToCandid,
                AndThenAlloy, ToCandid, ToAlloy
  <1>2. CASE Answer
    BY <1>2 DEF Answer
  <1>3. CASE ProcessResult
    <2>1. /\ stage' = "reduced" /\ min' = min /\ each' = answer
          /\ answer' = answer /\ reply' \in ByStrategy(Service, answer, min)
      BY <1>3 DEF ProcessResult
    <2>2. \/ reply' = Inconsistent
          \/ \E x : reply' = Consistent(x) /\ Enough(answer, x)
      BY <2>1, ReductionBacked
    <2>3. \A x : Enough(answer, x) => Enough(each, x)'
      BY <2>1 DEF Enough, Quorum, With
    <2>4. Summary(each)'
      BY <2>2, <2>3 DEF Summary
    <2> QED
      BY <2>1, <2>4
  <1>4. CASE ReplyInCandid
    <2> DEFINE g == [s \in Service |-> MapToCandid(each[s])]
               y == MapToCandid(reply.res)
    <2>1. /\ stage = "reduced" /\ stage' = "candid" /\ each' = g
          /\ UNCHANGED <<method, min, hash, answer>>
          /\ \/ reply.kind = "consistent" /\ reply' = Consistent(y)
             \/ reply = Inconsistent /\ reply' \in Collapse(Service, g, reply)
      BY <1>4 DEF ReplyInCandid
    <2>2. \A s \in Service : each[s] = reply.res => g[s] = y
      OBVIOUS
    <2>3. \A s \in Service : g[s] = MapToCandid(answer[s])'
      BY <2>1 DEF MapToCandid, ToCandid
    <2> HIDE DEF g, y
    <2>4. Summary(each)' /\ (reply' = Inconsistent => ~Agree(Service, g))
      BY <2>1, <2>2, MapSummary
    <2> QED
      BY <2>1, <2>3, <2>4
  <1>5. CASE ConvertInClient
    <2> DEFINE g == [s \in Service |-> AndThenAlloy(each[s])]
               y == AndThenAlloy(reply.res)
    <2>1. /\ stage = "candid" /\ stage' = "done" /\ each' = g
          /\ UNCHANGED <<method, min, hash, answer>>
          /\ \/ reply.kind = "consistent" /\ reply' = Consistent(y)
             \/ reply = Inconsistent /\ reply' \in Collapse(Service, g, reply)
      BY <1>5 DEF ConvertInClient
    <2>2. \A s \in Service : each[s] = reply.res => g[s] = y
      OBVIOUS
    <2>3. \A s \in Service : g[s] = Alone(s)
      BY <2>1 DEF Alone
    <2>4. \A s \in Service : Alone(s)' = Alone(s)
      BY <2>1 DEF Alone, AndThenAlloy, MapToCandid, ToCandid, ToAlloy
    <2> HIDE DEF g, y
    <2>5. Summary(each)' /\ (reply' = Inconsistent => ~Agree(Service, g))
      BY <2>1, <2>2, MapSummary
    <2> QED
      BY <2>1, <2>3, <2>4, <2>5
  <1> QED
    BY <1>1, <1>2, <1>3, <1>4, <1>5 DEF Next

(* At every stage of every behaviour the reply sums up the results. *)
LEMMA ConversionInductive == Spec => []ConversionInv
  <1>1. Init => ConversionInv
    BY DEF Init, ConversionInv
  <1> QED
    BY <1>1, NextConversion, PTL DEF Spec

(* The two maps with their collapse keep the meaning of the reduction: a
   consistent result is what the answers of enough services, or of all of
   them, become on their own, and an inconsistent one shows results that
   differ. *)
THEOREM ResultBackedAlways == Spec => []ResultBacked
  <1>1. ConversionInv => ResultBacked
    <2> SUFFICES ASSUME ConversionInv, stage = "done"
                 PROVE  \/ /\ reply.kind = "consistent"
                           /\ Cardinality(Backers) >= Quorum \/ Backers = Service
                        \/ /\ reply = Inconsistent
                           /\ \A s \in Service : each[s] = Alone(s)
                           /\ ~Agree(Service, each)
      BY DEF ResultBacked
    <2>1. \A s \in Service : each[s] = Alone(s)
      BY DEF ConversionInv
    <2>2. CASE reply = Inconsistent
      BY <2>1, <2>2 DEF ConversionInv
    <2>3. ASSUME NEW x, reply = Consistent(x), Enough(each, x)
          PROVE  /\ reply.kind = "consistent"
                 /\ Cardinality(Backers) >= Quorum \/ Backers = Service
      <3>1. reply.kind = "consistent" /\ reply.res = x
        BY <2>3, KindsDiffer
      <3>2. Backers = With(each, x)
        BY <2>1, <3>1 DEF Backers, With
      <3> QED
        BY <2>3, <3>1, <3>2 DEF Enough
    <2> QED
      BY <2>2, <2>3 DEF ConversionInv, Summary
  <1> QED
    BY <1>1, ConversionInductive, PTL

-----------------------------------------------------------------------------
(* Differences. *)

(* A result a service can end with. *)
Given == {Ok(v) : v \in Answers(method)} \cup {Err(e) : e \in Failure}

(* Logs are copied entry by entry. *)
LEMMA LogsCopied ==
  ASSUME NEW logs \in LogsAnswer
  PROVE  FromLogEntries(logs) = logs
  <1>1. \A n, q : LogEntry(n, q) = [topics |-> n, qty |-> q]
                  /\ LogEntry(n, q).topics = n /\ LogEntry(n, q).qty = q
    BY DEF LogEntry
  <1>2. ASSUME NEW e, NEW n, NEW q, e = LogEntry(n, q)
        PROVE  [topics |-> e.topics, qty |-> e.qty] = e
    BY <1>1, <1>2
  <1>3. CASE logs = <<>>
    BY <1>3 DEF FromLogEntries
  <1>4. ASSUME NEW m1, NEW q1, NEW m2, NEW q2,
               logs = <<LogEntry(m1, q1), LogEntry(m2, q2)>>
        PROVE  FromLogEntries(logs) = logs
    BY <1>1, <1>4 DEF FromLogEntries
  <1>5. ASSUME NEW q, logs = <<LogEntry(0, q)>>
        PROVE  FromLogEntries(logs) = logs
    BY <1>1, <1>5 DEF FromLogEntries
  <1>6. \/ logs = <<>>
        \/ \E m1, q1, m2, q2 : logs = <<LogEntry(m1, q1), LogEntry(m2, q2)>>
        \/ \E q : logs = <<LogEntry(0, q)>>
    BY DEF LogsAnswer, GoodLog, BadLog, PendingLog
  <1> QED
    BY <1>3, <1>4, <1>5, <1>6

(* Two blocks that differ still differ. *)
LEMMA BlocksDiffer ==
  ASSUME NEW v \in BlockAnswer, NEW w \in BlockAnswer, FromBlock(v) = FromBlock(w)
  PROVE  v = w
  <1>1. \A b \in BlockAnswer :
          b = [number |-> b.number, difficulty |-> b.difficulty,
               transactions_root |-> b.transactions_root, qty |-> b.qty]
    BY DEF BlockAnswer
  <1>2. /\ FromBlock(v).number = FromBlock(w).number
        /\ FromBlock(v).difficulty = FromBlock(w).difficulty
        /\ FromBlock(v).transactions_root = FromBlock(w).transactions_root
        /\ FromBlock(v).qty = FromBlock(w).qty
    OBVIOUS
  <1>3. /\ v.number = w.number /\ v.difficulty = w.difficulty
        /\ v.transactions_root = w.transactions_root /\ v.qty = w.qty
    BY <1>2 DEF FromBlock
  <1> QED
    BY <1>1, <1>3

(* The fields of a receipt. *)
ReceiptFields(r) ==
  /\ \E n, root, type, logs, qty :
       \E status \in {"Absent", "Success", "Failure"} :
         r = [number |-> n, status |-> status, root |-> root,
              tx_type |-> type, logs |-> logs, qty |-> qty]

(* The number a status becomes. *)
StatusCode(status) ==
  CASE status = "Absent" -> None
    [] status = "Success" -> 1
    [] status = "Failure" -> 0

(* Each status becomes a number of its own. *)
LEMMA CodesDiffer ==
  ASSUME NEW x \in {"Absent", "Success", "Failure"},
         NEW y \in {"Absent", "Success", "Failure"}, StatusCode(x) = StatusCode(y)
  PROVE  x = y
  <1>1. /\ StatusCode("Absent") = -1
        /\ StatusCode("Success") = 1
        /\ StatusCode("Failure") = 0
    BY DEF StatusCode, None
  <1>2. /\ StatusCode("Absent") # StatusCode("Success")
        /\ StatusCode("Absent") # StatusCode("Failure")
        /\ StatusCode("Success") # StatusCode("Failure")
    BY <1>1
  <1> QED
    BY <1>2

(* The conversion changes the status only. *)
LEMMA ReceiptConverted ==
  ASSUME NEW n, NEW root, NEW type, NEW logs, NEW qty, NEW status, NEW r,
         r = [number |-> n, status |-> status, root |-> root,
              tx_type |-> type, logs |-> logs, qty |-> qty]
  PROVE  FromTransactionReceipt(r) =
           [number |-> n, status |-> StatusCode(status), root |-> root,
            tx_type |-> type, logs |-> logs, qty |-> qty]
  <1>1. FromTransactionReceipt(r) = [r EXCEPT !.status = StatusCode(r.status)]
    BY DEF FromTransactionReceipt, StatusCode
  <1>2. r.status = status
    OBVIOUS
  <1> QED
    BY <1>1, <1>2

(* Two receipts that differ still differ, their status included. *)
LEMMA ReceiptsDiffer ==
  ASSUME NEW r, NEW q, ReceiptFields(r), ReceiptFields(q),
         FromTransactionReceipt(r) = FromTransactionReceipt(q)
  PROVE  r = q
  <1>1. PICK n, root, type, logs, qty :
          \E status \in {"Absent", "Success", "Failure"} :
            r = [number |-> n, status |-> status, root |-> root,
                 tx_type |-> type, logs |-> logs, qty |-> qty]
    BY DEF ReceiptFields
  <1>2. PICK status \in {"Absent", "Success", "Failure"} :
          r = [number |-> n, status |-> status, root |-> root,
               tx_type |-> type, logs |-> logs, qty |-> qty]
    BY <1>1
  <1>3. PICK n2, root2, type2, logs2, qty2 :
          \E status2 \in {"Absent", "Success", "Failure"} :
            q = [number |-> n2, status |-> status2, root |-> root2,
                 tx_type |-> type2, logs |-> logs2, qty |-> qty2]
    BY DEF ReceiptFields
  <1>4. PICK status2 \in {"Absent", "Success", "Failure"} :
          q = [number |-> n2, status |-> status2, root |-> root2,
               tx_type |-> type2, logs |-> logs2, qty |-> qty2]
    BY <1>3
  <1>5. [number |-> n, status |-> StatusCode(status), root |-> root,
         tx_type |-> type, logs |-> logs, qty |-> qty] =
        [number |-> n2, status |-> StatusCode(status2), root |-> root2,
         tx_type |-> type2, logs |-> logs2, qty |-> qty2]
    <2>1. FromTransactionReceipt(r) =
            [number |-> n, status |-> StatusCode(status), root |-> root,
             tx_type |-> type, logs |-> logs, qty |-> qty]
      BY <1>2, ReceiptConverted
    <2>2. FromTransactionReceipt(q) =
            [number |-> n2, status |-> StatusCode(status2), root |-> root2,
             tx_type |-> type2, logs |-> logs2, qty |-> qty2]
      BY <1>4, ReceiptConverted
    <2> QED
      BY <2>1, <2>2
  <1>6. /\ n = n2 /\ StatusCode(status) = StatusCode(status2) /\ root = root2
        /\ type = type2 /\ logs = logs2 /\ qty = qty2
    BY <1>5
  <1>7. status = status2
    BY <1>6, CodesDiffer
  <1> QED
    BY <1>2, <1>4, <1>6, <1>7

(* An answer for a receipt holds one with all fields, or none. *)
LEMMA ReceiptShape ==
  ASSUME NEW x \in ReceiptAnswer
  PROVE  /\ x = <<>> \/ \E r : x = <<r>> /\ ReceiptFields(r)
         /\ \A i \in DOMAIN x : /\ ReceiptFields(x[i]) /\ x[i].number \in Int
                                /\ x[i].logs = <<>> \/ \E l : x[i].logs = <<l>>
  <1>1. CASE x = <<>>
    BY <1>1
  <1>2. CASE x # <<>>
    <2> DEFINE A == [number : {Byzantium - 1, Byzantium},
                     status : {"Absent", "Success", "Failure"}, root : {None, 1},
                     tx_type : {2}, logs : {<<>>},
                     qty : {Plain(ReceiptWidth)}]
               B == [number : {U64}, status : {"Success"}, root : {None},
                     tx_type : {2, 99}, logs : {<<GoodLog>>, <<BadLog>>},
                     qty : {Plain(ReceiptWidth)}]
               C == [number : {Byzantium}, status : {"Success"},
                     root : {None}, tx_type : {2}, logs : {<<>>},
                     qty : Quantities(ReceiptWidth)]
               D == [number : {Byzantium}, status : {"Success"}, root : {None},
                     tx_type : {2},
                     logs : {<<LogEntry(0, q)>> : q \in Quantities(LogWidth)},
                     qty : {Plain(ReceiptWidth)}]
    <2>1. PICK r \in A \cup B \cup C \cup D : x = <<r>>
      BY <1>2, Zenon DEF ReceiptAnswer
    <2>2. /\ r = [number |-> r.number, status |-> r.status, root |-> r.root,
                  tx_type |-> r.tx_type, logs |-> r.logs, qty |-> r.qty]
          /\ r.status \in {"Absent", "Success", "Failure"}
          /\ r.number \in Int
          /\ r.logs = <<>> \/ \E l : r.logs = <<l>>
      <3>1. CASE r \in A
        BY <3>1, NumberAssumption
      <3>2. CASE r \in B
        BY <3>2, NumberAssumption
      <3>3. CASE r \in C
        BY <3>3, NumberAssumption
      <3>4. CASE r \in D
        BY <3>4, NumberAssumption
      <3> QED
        BY <2>1, <3>1, <3>2, <3>3, <3>4, Zenon
    <2>3. ReceiptFields(r)
      BY <2>2, Zenon DEF ReceiptFields
    <2> HIDE DEF A, B, C, D
    <2> QED
      BY <2>1, <2>2, <2>3
  <1> QED
    BY <1>1, <1>2

(* So do two answers for a receipt, of which one may be that there is none. *)
LEMMA OptionsDiffer ==
  ASSUME NEW v \in ReceiptAnswer, NEW w \in ReceiptAnswer,
         [i \in DOMAIN v |-> FromTransactionReceipt(v[i])] =
           [i \in DOMAIN w |-> FromTransactionReceipt(w[i])]
  PROVE  v = w
  <1>1. \A x \in ReceiptAnswer : x = <<>> \/ \E r : x = <<r>> /\ ReceiptFields(r)
    BY ReceiptShape
  <1>2. DOMAIN v = DOMAIN w
    OBVIOUS
  <1>3. CASE v = <<>>
    BY <1>1, <1>2, <1>3
  <1>4. ASSUME NEW r, v = <<r>>, ReceiptFields(r) PROVE v = w
    <2>1. PICK q : w = <<q>> /\ ReceiptFields(q)
      BY <1>1, <1>2, <1>4
    <2>2. FromTransactionReceipt(r) = FromTransactionReceipt(q)
      BY <1>4, <2>1
    <2> QED
      BY <1>4, <2>1, <2>2, ReceiptsDiffer
  <1> QED
    BY <1>1, <1>3, <1>4

(* The canister's conversion of an answer loses nothing. *)
LEMMA AnswersDiffer ==
  ASSUME NEW v \in Answers(method), NEW w \in Answers(method),
         ToCandid(v) = ToCandid(w)
  PROVE  v = w
  <1>1. CASE method = "eth_getLogs"
    BY <1>1, LogsCopied DEF Answers, ToCandid
  <1>2. CASE method = "eth_getBlockByNumber"
    BY <1>2, BlocksDiffer DEF Answers, ToCandid
  <1>3. CASE method = "eth_feeHistory"
    <2>1. v \in FeeAnswer /\ w \in FeeAnswer
          /\ FromFeeHistory(v) = FromFeeHistory(w)
      BY <1>3 DEF Answers, ToCandid
    <2>2. \A h \in FeeAnswer : h = [qty |-> h.qty]
      BY DEF FeeAnswer
    <2> QED
      BY <2>1, <2>2 DEF FromFeeHistory
  <1>4. CASE method = "eth_getTransactionReceipt"
    BY <1>4, OptionsDiffer DEF Answers, ToCandid
  <1>5. CASE method = "eth_sendRawTransaction"
    <2>1. /\ v \in SendRawTransactionResult /\ w \in SendRawTransactionResult
          /\ FromSendRawTransactionResult(hash, v) =
               FromSendRawTransactionResult(hash, w)
      BY <1>5 DEF Answers, ToCandid
    <2>2. \A x : FromSendRawTransactionResult(hash, x)[1] = x
      BY DEF FromSendRawTransactionResult
    <2> QED
      BY <2>1, <2>2
  <1>6. CASE method \notin {"eth_getLogs", "eth_getBlockByNumber",
                            "eth_feeHistory", "eth_getTransactionReceipt",
                            "eth_sendRawTransaction"}
    BY <1>6 DEF ToCandid
  <1> QED
    BY <1>1, <1>2, <1>3, <1>4, <1>5, <1>6

(* Nor does it lose anything of a result, error or value. *)
LEMMA ResultsDiffer ==
  ASSUME NEW x \in Given, NEW y \in Given, MapToCandid(x) = MapToCandid(y)
  PROVE  x = y
  <1>1. \A v, w : /\ Ok(v).kind = "ok" /\ Ok(v).value = v
                  /\ Err(v).kind = "err" /\ Ok(v) # Err(w)
                  /\ (Ok(v) = Ok(w) => v = w)
    BY DEF Ok, Err
  <1>2. ASSUME NEW v, NEW w, x = Ok(v), y = Err(w) PROVE FALSE
    BY <1>1, <1>2 DEF MapToCandid
  <1>3. ASSUME NEW v, NEW w, x = Err(v), y = Ok(w) PROVE FALSE
    BY <1>1, <1>3 DEF MapToCandid
  <1>4. ASSUME NEW v, NEW w, x = Err(v), y = Err(w) PROVE x = y
    BY <1>1, <1>4 DEF MapToCandid
  <1>5. ASSUME NEW v \in Answers(method), NEW w \in Answers(method),
               x = Ok(v), y = Ok(w)
        PROVE  x = y
    <2>1. Ok(ToCandid(v)) = Ok(ToCandid(w))
      BY <1>1, <1>5 DEF MapToCandid
    <2>2. ToCandid(v) = ToCandid(w)
      BY <1>1, <2>1
    <2> QED
      BY <1>5, <2>2, AnswersDiffer
  <1> QED
    BY <1>2, <1>3, <1>4, <1>5 DEF Given

(* What was counted is what the reduction found inconsistent. *)
CountedInv ==
  /\ stage \in {"calling", "reduced", "candid", "done"}
  /\ \/ stage = "calling" /\ \A s \in Service : answer[s] = NoResult
     \/ \A s \in Service : answer[s] \in Given
  /\ stage = "reduced" =>
       /\ \A s \in Service : each[s] = answer[s]
       /\ counted = (reply = Inconsistent)
  /\ CountedIsShown

(* Every step keeps it. *)
LEMMA NextCounted == CountedInv /\ [Next]_vars => CountedInv'
  <1> SUFFICES ASSUME CountedInv, [Next]_vars PROVE CountedInv'
    OBVIOUS
  <1> USE DEF CountedInv
  <1>0. method' = method => Given' = Given
    BY DEF Given, Answers
  <1>1. CASE UNCHANGED vars
    BY <1>0, <1>1 DEF vars, CountedIsShown
  <1>2. CASE Answer
    <2>1. \A s \in Service : answer'[s] \in Given
      BY <1>2 DEF Answer, Given
    <2>2. stage = "calling" /\ stage' = stage /\ method' = method
      BY <1>2 DEF Answer
    <2> QED
      BY <1>0, <2>1, <2>2 DEF CountedIsShown
  <1>3. CASE ProcessResult
    <2>1. /\ stage' = "reduced" /\ each' = answer /\ answer' = answer
          /\ method' = method /\ counted' = (reply' = Inconsistent)
          /\ \A s \in Service : answer[s] # NoResult
      BY <1>3 DEF ProcessResult
    <2>2. \A s \in Service : answer[s] \in Given
      BY <2>1
    <2> QED
      BY <1>0, <2>1, <2>2 DEF CountedIsShown
  <1>4. CASE ReplyInCandid
    <2> DEFINE g == [s \in Service |-> MapToCandid(each[s])]
    <2>1. /\ stage = "reduced" /\ stage' = "candid"
          /\ UNCHANGED <<method, answer, counted>>
          /\ reply = Inconsistent /\ reply.kind # "consistent" =>
               reply' \in Collapse(Service, g, Inconsistent)
      BY <1>4 DEF ReplyInCandid
    <2>2. ASSUME counted, reply' # Inconsistent
          PROVE  Agree(Service, answer)
      <3>1. reply = Inconsistent /\ reply.kind # "consistent"
        BY <2>1, <2>2, KindsDiffer
      <3>2. Agree(Service, g)
        BY <2>1, <2>2, <3>1, CollapseBacked
      <3>3. \A s, t \in Service : MapToCandid(answer[s]) = MapToCandid(answer[t])
        BY <2>1, <3>2 DEF Agree
      <3> QED
        BY <2>1, <3>3, ResultsDiffer DEF Agree
    <2> QED
      BY <1>0, <2>1, <2>2 DEF CountedIsShown
  <1>5. CASE ConvertInClient
    BY <1>0, <1>5 DEF ConvertInClient, CountedIsShown
  <1> QED
    BY <1>1, <1>2, <1>3, <1>4, <1>5 DEF Next

(* What was counted is what is shown, at every stage of every behaviour. *)
LEMMA CountedInductive == Spec => []CountedInv
  <1>1. Init => CountedInv
    BY DEF Init, CountedInv, CountedIsShown
  <1> QED
    BY <1>1, NextCounted, PTL DEF Spec

(* The canister's own conversions hide no difference: an inconsistency that
   was counted for the providers reaches the caller, unless all answers were
   the same and the threshold asked for more. *)
THEOREM CountedIsShownAlways == Spec => []CountedIsShown
  <1>1. CountedInv => CountedIsShown
    BY DEF CountedInv
  <1> QED
    BY <1>1, CountedInductive, PTL

-----------------------------------------------------------------------------
(* The client's checks. *)

(* No check of a sequence fails. *)
Pass(checks) == \A i \in DOMAIN checks : checks[i].kind # "err"

(* A set of numbers has a least one. *)
LEMMA MinIsMember ==
  ASSUME NEW I \in SUBSET Nat, I # {}
  PROVE  Min(I) \in I
  <1> DEFINE R == OpToRel(<, Nat)
  <1>1. IsWellFoundedOn(R, Nat)
    BY NatLessThanWellFounded
  <1>2. PICK u \in I : \A w \in I : ~(<<w, u>> \in R)
    <2> HIDE DEF R
    <2> QED
      BY <1>1, WFMin
  <1>3. \A w \in I : ~(w < u)
    BY <1>2 DEF OpToRel
  <1>4. \A w \in I : u <= w
    BY <1>3
  <1> QED
    BY <1>4 DEF Min

(* What is no error passed every check and is the value that was checked. *)
LEMMA InOrderPass ==
  ASSUME NEW checks, DOMAIN checks \subseteq Nat, NEW v,
         InOrder(checks, v).kind # "err"
  PROVE  Pass(checks) /\ InOrder(checks, v) = Ok(v)
  <1> DEFINE failed == {i \in DOMAIN checks : checks[i].kind = "err"}
  <1>1. InOrder(checks, v) = IF failed = {} THEN Ok(v) ELSE checks[Min(failed)]
    BY DEF InOrder
  <1>2. failed \subseteq Nat /\ \A i \in failed : checks[i].kind = "err"
    OBVIOUS
  <1>3. CASE failed # {}
    <2> HIDE DEF failed
    <2>1. Min(failed) \in failed
      BY <1>2, <1>3, MinIsMember
    <2> QED
      BY <1>1, <1>2, <1>3, <2>1
  <1>4. CASE failed = {}
    BY <1>1, <1>4 DEF Pass
  <1> QED
    BY <1>3, <1>4

(* A sequence, of whatever it holds. *)
IsList(s) == \E T : s \in Seq(T)

(* Lists can be joined, and checks one after the other pass if both do. *)
LEMMA Joined ==
  ASSUME NEW s, NEW t, IsList(s), IsList(t)
  PROVE  /\ IsList(s \o t) /\ DOMAIN (s \o t) \subseteq Nat
         /\ Pass(s \o t) => Pass(s) /\ Pass(t)
  <1>1. PICK T : s \in Seq(T)
    BY DEF IsList
  <1>2. PICK U : t \in Seq(U)
    BY DEF IsList
  <1>3. s \in Seq(T \cup U) /\ t \in Seq(T \cup U)
    BY <1>1, <1>2
  <1>4. s \o t \in Seq(T \cup U)
    BY <1>3
  <1>5. \A i \in DOMAIN s : i \in DOMAIN (s \o t) /\ (s \o t)[i] = s[i]
    BY <1>3
  <1>6. \A i \in DOMAIN t : /\ Len(s) + i \in DOMAIN (s \o t)
                            /\ (s \o t)[Len(s) + i] = t[i]
    BY <1>3
  <1>7. DOMAIN (s \o t) \subseteq Nat
    BY <1>4
  <1> QED
    BY <1>4, <1>5, <1>6, <1>7 DEF Pass, IsList

(* A single check is a list of checks. *)
LEMMA SingleCheck ==
  ASSUME NEW x
  PROVE  IsList(<<x>>) /\ (Pass(<<x>>) => x.kind # "err")
  <1>1. <<x>> \in Seq({x}) /\ 1 \in DOMAIN <<x>> /\ <<x>>[1] = x
    OBVIOUS
  <1> QED
    BY <1>1, Zenon DEF IsList, Pass

(* A number that passes is below its width. *)
LEMMA NumberFits ==
  ASSUME NEW value, NEW field, NEW width,
         TryFromNat256(value, field, width).kind # "err"
  PROVE  value < width
  BY DEF TryFromNat256, Err

(* So is each field that passes. *)
LEMMA FieldsFit ==
  ASSUME NEW qty, NEW width, NEW fields, IsList(fields)
  PROVE  /\ IsList(Fits(qty, width, fields))
         /\ Pass(Fits(qty, width, fields)) =>
              \A i \in DOMAIN fields : qty[fields[i]] < width[fields[i]]
  <1> DEFINE check(i) == TryFromNat256(qty[fields[i]], fields[i], width[fields[i]])
             T == {check(i) : i \in DOMAIN fields}
  <1>1. Fits(qty, width, fields) = [i \in DOMAIN fields |-> check(i)]
    BY DEF Fits
  <1>2. \E n \in Nat : DOMAIN fields = 1..n
    BY DEF IsList
  <1>3. [i \in DOMAIN fields |-> check(i)] \in Seq(T)
    <2> HIDE DEF check
    <2>1. PICK n \in Nat : DOMAIN fields = 1..n
      BY <1>2
    <2>2. [i \in 1..n |-> check(i)] \in [1..n -> T]
      BY <2>1
    <2>3. [i \in 1..n |-> check(i)] \in Seq(T)
      <3> HIDE DEF T
      <3> QED
        BY <2>2
    <2> QED
      BY <2>1, <2>3
  <1>4. \A i \in DOMAIN fields :
          check(i).kind # "err" => qty[fields[i]] < width[fields[i]]
    BY NumberFits
  <1> HIDE DEF check
  <1> QED
    BY <1>1, <1>3, <1>4 DEF IsList, Pass

(* A log that passes has its numbers in range and is unchanged. *)
LEMMA LogPasses ==
  ASSUME NEW entry, AlloyLog(entry).kind # "err"
  PROVE  /\ AlloyLog(entry) = Ok(entry)
         /\ \A f \in DOMAIN LogWidth : entry.qty[f] < LogWidth[f]
  <1> DEFINE fields == <<"block_number", "transaction_index", "log_index">>
             topics == <<IF entry.topics <= 4 THEN Ok(0)
                         ELSE Err(<<"Invalid_log_data", 0>>)>>
             numbers == Fits(entry.qty, LogWidth, fields)
  <1>1. AlloyLog(entry) = InOrder(topics \o numbers, entry)
    BY DEF AlloyLog
  <1>2. IsList(topics)
    BY SingleCheck
  <1>3. /\ fields[1] = "block_number" /\ fields[2] = "transaction_index"
        /\ fields[3] = "log_index" /\ DOMAIN fields = 1..3
        /\ IsList(fields)
    <2>1. /\ fields[1] = "block_number" /\ fields[2] = "transaction_index"
          /\ fields[3] = "log_index" /\ DOMAIN fields = 1..3
      OBVIOUS
    <2>2. fields \in Seq({"block_number", "transaction_index", "log_index"})
      OBVIOUS
    <2> HIDE DEF fields
    <2> QED
      BY <2>1, <2>2, Zenon DEF IsList
  <1> HIDE DEF fields, topics
  <1>4. /\ IsList(numbers)
        /\ Pass(numbers) => \A i \in DOMAIN fields :
                              entry.qty[fields[i]] < LogWidth[fields[i]]
    BY <1>3, FieldsFit
  <1> HIDE DEF numbers
  <1>5. Pass(topics \o numbers) /\ AlloyLog(entry) = Ok(entry)
    BY <1>1, <1>2, <1>4, Joined, InOrderPass
  <1>6. \A i \in 1..3 : entry.qty[fields[i]] < LogWidth[fields[i]]
    BY <1>2, <1>3, <1>4, <1>5, Joined
  <1>7. \A f \in DOMAIN LogWidth : \E i \in 1..3 : f = fields[i]
    BY <1>3 DEF LogWidth
  <1> QED
    BY <1>5, <1>6, <1>7

(* So have logs that pass. *)
LEMMA LogsPass ==
  ASSUME NEW logs, IsList(logs), AlloyLogs(logs).kind # "err"
  PROVE  /\ AlloyLogs(logs) = Ok(logs)
         /\ \A i \in DOMAIN logs :
              \A f \in DOMAIN LogWidth : logs[i].qty[f] < LogWidth[f]
  <1> DEFINE checks == [i \in DOMAIN logs |-> AlloyLog(logs[i])]
  <1>1. DOMAIN checks \subseteq Nat
    BY DEF IsList
  <1>2. AlloyLogs(logs) = InOrder(checks, logs)
    BY DEF AlloyLogs
  <1>3. Pass(checks) /\ AlloyLogs(logs) = Ok(logs)
    <2> HIDE DEF checks
    <2> QED
      BY <1>1, <1>2, InOrderPass
  <1>4. \A i \in DOMAIN logs : AlloyLog(logs[i]).kind # "err"
    BY <1>3 DEF Pass
  <1> QED
    BY <1>3, <1>4, LogPasses

(* The difficulty that passes: before Paris the block's own. *)
LEMMA DifficultyPasses ==
  ASSUME NEW number, NEW difficulty,
         ValidateDifficulty(number, difficulty).kind # "err"
  PROVE  number < Paris => ValidateDifficulty(number, difficulty).value = difficulty
  BY DEF ValidateDifficulty, Ok, Err

(* A block with difficulty d. *)
WithDifficulty(b, d) == [b EXCEPT !.difficulty = d]

(* The client makes of block b one with difficulty d. *)
BlockConverted(b, d) ==
  /\ AlloyBlock(b) = Ok(WithDifficulty(b, d))
  /\ b.number < Paris => d = b.difficulty
  /\ b.number < U64
  /\ \A f \in DOMAIN BlockWidth : b.qty[f] < BlockWidth[f]

(* A block that passes has its numbers in range and, before Paris, its own
   difficulty. *)
LEMMA BlockPasses ==
  ASSUME NEW b, AlloyBlock(b).kind # "err"
  PROVE  \E d : BlockConverted(b, d)
  <1> DEFINE fields == <<"gas_limit", "gas_used", "timestamp", "nonce",
                         "base_fee_per_gas">>
             root == ValidateTransactionsRoot(b.transactions_root)
             difficulty == ValidateDifficulty(b.number, b.difficulty)
             number == TryFromNat256(b.number, "number", U64)
             first == <<root, difficulty, number>>
             numbers == Fits(b.qty, BlockWidth, fields)
             res == WithDifficulty(b, difficulty.value)
  <1>1. AlloyBlock(b) = InOrder(first \o numbers, res)
    BY DEF AlloyBlock, WithDifficulty
  <1>2. IsList(first) /\ (Pass(first) => /\ difficulty.kind # "err"
                                        /\ number.kind # "err")
    <2> HIDE DEF root, difficulty, number
    <2>1. /\ first \in Seq({root, difficulty, number})
          /\ {2, 3} \subseteq DOMAIN first
          /\ first[2] = difficulty /\ first[3] = number
      OBVIOUS
    <2> HIDE DEF first
    <2> QED
      BY <2>1 DEF IsList, Pass
  <1>3. /\ fields[1] = "gas_limit" /\ fields[2] = "gas_used"
        /\ fields[3] = "timestamp" /\ fields[4] = "nonce"
        /\ fields[5] = "base_fee_per_gas" /\ DOMAIN fields = 1..5
        /\ IsList(fields)
    <2>1. /\ fields[1] = "gas_limit" /\ fields[2] = "gas_used"
          /\ fields[3] = "timestamp" /\ fields[4] = "nonce"
          /\ fields[5] = "base_fee_per_gas" /\ DOMAIN fields = 1..5
      OBVIOUS
    <2>2. fields \in Seq({"gas_limit", "gas_used", "timestamp", "nonce",
                         "base_fee_per_gas"})
      OBVIOUS
    <2> HIDE DEF fields
    <2> QED
      BY <2>1, <2>2, Zenon DEF IsList
  <1> HIDE DEF fields, first
  <1>4. /\ IsList(numbers)
        /\ Pass(numbers) => \A i \in DOMAIN fields :
                              b.qty[fields[i]] < BlockWidth[fields[i]]
    BY <1>3, FieldsFit
  <1> HIDE DEF numbers, res
  <1>5. Pass(first \o numbers) /\ AlloyBlock(b) = Ok(res)
    BY <1>1, <1>2, <1>4, Joined, InOrderPass
  <1>6. Pass(first) /\ Pass(numbers)
    BY <1>2, <1>4, <1>5, Joined
  <1>7. \A f \in DOMAIN BlockWidth : \E i \in 1..5 : f = fields[i]
    BY <1>3 DEF BlockWidth
  <1>8. \A f \in DOMAIN BlockWidth : b.qty[f] < BlockWidth[f]
    BY <1>3, <1>4, <1>6, <1>7
  <1>9. b.number < U64
    BY <1>2, <1>6, NumberFits
  <1>10. b.number < Paris => difficulty.value = b.difficulty
    BY <1>2, <1>6, DifficultyPasses
  <1> QED
    BY <1>5, <1>8, <1>9, <1>10 DEF res, BlockConverted

(* A fee history that passes has its numbers in range and is unchanged. *)
LEMMA FeeHistoryPasses ==
  ASSUME NEW h, AlloyFeeHistory(h).kind # "err"
  PROVE  /\ AlloyFeeHistory(h) = Ok(h)
         /\ \A f \in DOMAIN FeeWidth : h.qty[f] < FeeWidth[f]
  <1> DEFINE fields == <<"base_fee_per_gas", "oldest_block", "reward">>
             numbers == Fits(h.qty, FeeWidth, fields)
  <1>1. AlloyFeeHistory(h) = InOrder(numbers, h)
    BY DEF AlloyFeeHistory
  <1>2. /\ fields[1] = "base_fee_per_gas" /\ fields[2] = "oldest_block"
        /\ fields[3] = "reward" /\ DOMAIN fields = 1..3
        /\ IsList(fields)
    <2>1. /\ fields[1] = "base_fee_per_gas" /\ fields[2] = "oldest_block"
          /\ fields[3] = "reward" /\ DOMAIN fields = 1..3
      OBVIOUS
    <2>2. fields \in Seq({"base_fee_per_gas", "oldest_block", "reward"})
      OBVIOUS
    <2> HIDE DEF fields
    <2> QED
      BY <2>1, <2>2, Zenon DEF IsList
  <1> HIDE DEF fields
  <1>3. /\ IsList(numbers)
        /\ Pass(numbers) => \A i \in DOMAIN fields :
                              h.qty[fields[i]] < FeeWidth[fields[i]]
    BY <1>2, FieldsFit
  <1> HIDE DEF numbers
  <1>4. DOMAIN numbers \subseteq Nat
    BY <1>3 DEF IsList
  <1>5. Pass(numbers) /\ AlloyFeeHistory(h) = Ok(h)
    BY <1>1, <1>4, InOrderPass
  <1>6. \A f \in DOMAIN FeeWidth : \E i \in 1..3 : f = fields[i]
    BY <1>2 DEF FeeWidth
  <1> QED
    BY <1>2, <1>3, <1>5, <1>6

(* The status that passes is the root before Byzantium and the status after,
   on its own. *)
LEMMA StatusPasses ==
  ASSUME NEW number, NEW root, NEW status,
         ValidateReceiptStatus(number, root, status).kind # "err"
  PROVE  /\ number < Byzantium =>
              ValidateReceiptStatus(number, root, status).value =
                <<"PostState", root>>
         /\ ~(number < Byzantium) =>
              ValidateReceiptStatus(number, root, status).value =
                <<"Eip658", status>>
  <1>1. \A v : Ok(v).value = v /\ Err(v).kind = "err"
    BY DEF Ok, Err
  <1>2. CASE number < Byzantium
    BY <1>1, <1>2 DEF ValidateReceiptStatus
  <1>3. CASE ~(number < Byzantium)
    <2>1. CASE status \in {0, 1}
      BY <1>1, <1>3, <2>1 DEF ValidateReceiptStatus, None
    <2>2. CASE status \notin {0, 1}
      BY <1>1, <1>3, <2>2 DEF ValidateReceiptStatus
    <2> QED
      BY <2>1, <2>2
  <1> QED
    BY <1>2, <1>3

(* Of a receipt that passes, the numbers are in range, and all is kept but the
   root after Byzantium and the status before. *)
LEMMA ReceiptPasses ==
  ASSUME NEW r, AlloyReceipt(r).kind # "err"
  PROVE  LET status == ValidateReceiptStatus(r.number, r.root, r.status)
         IN  /\ AlloyReceipt(r) =
                  Ok([number |-> r.number, status |-> status.value,
                      logs |-> r.logs, tx_type |-> r.tx_type, qty |-> r.qty])
             /\ status.kind # "err"
             /\ r.number < U64
             /\ \A f \in DOMAIN ReceiptWidth : r.qty[f] < ReceiptWidth[f]
             /\ AlloyLogs(r.logs).kind # "err"
  <1> DEFINE status == ValidateReceiptStatus(r.number, r.root, r.status)
             type == TxType(r.tx_type)
             logs == AlloyLogs(r.logs)
             number == TryFromNat256(r.number, "block_number", U64)
             one(f) == Fits(r.qty, ReceiptWidth, <<f>>)
             last == <<"gas_used", "effective_gas_price">>
             two == Fits(r.qty, ReceiptWidth, last)
             c1 == <<type, status>>
             c2 == c1 \o one("cumulative_gas_used")
             c3 == c2 \o <<logs>>
             c4 == c3 \o one("transaction_index")
             c5 == c4 \o <<number>>
             c6 == c5 \o two
             res == [number |-> r.number, status |-> status.value,
                     logs |-> r.logs, tx_type |-> r.tx_type, qty |-> r.qty]
  <1>1. AlloyReceipt(r) = InOrder(c6, res)
    BY DEF AlloyReceipt
  <1> HIDE DEF status, type, logs, number
  <1>2. IsList(c1) /\ (Pass(c1) => status.kind # "err")
    <2>1. c1 \in Seq({type, status}) /\ 2 \in DOMAIN c1 /\ c1[2] = status
      OBVIOUS
    <2> HIDE DEF c1
    <2> QED
      BY <2>1, Zenon DEF IsList, Pass
  <1>3. ASSUME NEW f
        PROVE  /\ IsList(one(f))
               /\ Pass(one(f)) => r.qty[f] < ReceiptWidth[f]
    <2> DEFINE fields == <<f>>
    <2>1. fields[1] = f /\ 1 \in DOMAIN fields /\ IsList(fields)
      BY SingleCheck
    <2> HIDE DEF fields
    <2>2. /\ IsList(Fits(r.qty, ReceiptWidth, fields))
          /\ Pass(Fits(r.qty, ReceiptWidth, fields)) =>
               \A i \in DOMAIN fields :
                 r.qty[fields[i]] < ReceiptWidth[fields[i]]
      BY <2>1, FieldsFit
    <2> QED
      BY <2>1, <2>2 DEF fields
  <1>4. /\ IsList(two)
        /\ Pass(two) => /\ r.qty["gas_used"] < ReceiptWidth["gas_used"]
                        /\ r.qty["effective_gas_price"] <
                             ReceiptWidth["effective_gas_price"]
    <2>1. /\ last[1] = "gas_used" /\ last[2] = "effective_gas_price"
          /\ {1, 2} \subseteq DOMAIN last
      OBVIOUS
    <2>2. last \in Seq({"gas_used", "effective_gas_price"})
      OBVIOUS
    <2> HIDE DEF last
    <2>3. IsList(last)
      BY <2>2, Zenon DEF IsList
    <2>4. /\ IsList(two)
          /\ Pass(two) => \A i \in DOMAIN last :
                            r.qty[last[i]] < ReceiptWidth[last[i]]
      BY <2>3, FieldsFit
    <2> HIDE DEF two
    <2> QED
      BY <2>1, <2>4
  <1>5. IsList(<<number>>) /\ (Pass(<<number>>) => number.kind # "err")
    BY SingleCheck
  <1>6. IsList(<<logs>>) /\ (Pass(<<logs>>) => logs.kind # "err")
    BY SingleCheck
  <1> HIDE DEF one, two, c1, res
  <1>7. IsList(c2) /\ (Pass(c2) => Pass(c1) /\ Pass(one("cumulative_gas_used")))
    BY <1>2, <1>3, Joined
  <1> HIDE DEF c2
  <1>8. IsList(c3) /\ (Pass(c3) => Pass(c2) /\ Pass(<<logs>>))
    BY <1>6, <1>7, Joined
  <1> HIDE DEF c3
  <1>9. IsList(c4) /\ (Pass(c4) => Pass(c3) /\ Pass(one("transaction_index")))
    BY <1>3, <1>8, Joined
  <1> HIDE DEF c4
  <1>10. IsList(c5) /\ (Pass(c5) => Pass(c4) /\ Pass(<<number>>))
    BY <1>5, <1>9, Joined
  <1> HIDE DEF c5
  <1>11. /\ DOMAIN c6 \subseteq Nat
         /\ Pass(c6) => Pass(c5) /\ Pass(two)
    BY <1>4, <1>10, Joined
  <1> HIDE DEF c6
  <1>12. Pass(c6) /\ AlloyReceipt(r) = Ok(res)
    BY <1>1, <1>11, InOrderPass
  <1>13. /\ Pass(c1) /\ Pass(one("cumulative_gas_used"))
         /\ Pass(one("transaction_index")) /\ Pass(<<number>>) /\ Pass(two)
         /\ Pass(<<logs>>)
    BY <1>7, <1>8, <1>9, <1>10, <1>11, <1>12
  <1>14. r.number < U64
    BY <1>5, <1>13, NumberFits DEF number
  <1>15. \A f \in DOMAIN ReceiptWidth : r.qty[f] < ReceiptWidth[f]
    <2>1. DOMAIN ReceiptWidth = {"cumulative_gas_used", "transaction_index",
                                 "gas_used", "effective_gas_price"}
      BY DEF ReceiptWidth
    <2> QED
      BY <1>3, <1>4, <1>13, <2>1
  <1> QED
    BY <1>2, <1>6, <1>12, <1>13, <1>14, <1>15 DEF status, res, logs

(* So it is for a receipt or none. *)
LEMMA OptionPasses ==
  ASSUME NEW option, IsList(option), AlloyOption(option).kind # "err"
  PROVE  /\ AlloyOption(option) =
              Ok([i \in DOMAIN option |-> AlloyReceipt(option[i]).value])
         /\ \A i \in DOMAIN option : AlloyReceipt(option[i]).kind # "err"
  <1> DEFINE receipts == [i \in DOMAIN option |-> AlloyReceipt(option[i])]
             values == [i \in DOMAIN option |-> receipts[i].value]
  <1>1. AlloyOption(option) = InOrder(receipts, values)
    BY DEF AlloyOption
  <1>2. DOMAIN receipts \subseteq Nat
    BY DEF IsList
  <1>3. values = [i \in DOMAIN option |-> AlloyReceipt(option[i]).value]
    OBVIOUS
  <1>4. Pass(receipts) => \A i \in DOMAIN option :
                            AlloyReceipt(option[i]).kind # "err"
    BY DEF Pass
  <1> HIDE DEF receipts, values
  <1>5. Pass(receipts) /\ AlloyOption(option) = Ok(values)
    BY <1>1, <1>2, InOrderPass
  <1> QED
    BY <1>3, <1>4, <1>5

-----------------------------------------------------------------------------
(* What reaches the caller's code. *)

(* An answer that is a list stays one in Candid. *)
LEMMA AnswerLists ==
  /\ \A v \in LogsAnswer : IsList(v)
  /\ \A v \in ReceiptAnswer :
       IsList([i \in DOMAIN v |-> FromTransactionReceipt(v[i])])
  <1>1. IsList(<<>>)
    BY DEF IsList
  <1>2. \A x, y : IsList(<<x, y>>)
    <2> TAKE x, y
    <2>1. <<x, y>> \in Seq({x, y})
      OBVIOUS
    <2> QED
      BY <2>1, Zenon DEF IsList
  <1>3. ASSUME NEW v \in LogsAnswer PROVE IsList(v)
    <2>1. \/ v = <<>> \/ (\E x, y : v = <<x, y>>) \/ (\E x : v = <<x>>)
      BY DEF LogsAnswer
    <2> QED
      BY <1>1, <1>2, <2>1, SingleCheck
  <1>4. ASSUME NEW v \in ReceiptAnswer
        PROVE  IsList([i \in DOMAIN v |-> FromTransactionReceipt(v[i])])
    <2> DEFINE w == [i \in DOMAIN v |-> FromTransactionReceipt(v[i])]
    <2>1. v = <<>> \/ \E r : v = <<r>>
      BY Zenon DEF ReceiptAnswer
    <2>2. CASE v = <<>>
      BY <1>1, <2>2
    <2>3. ASSUME NEW r, v = <<r>> PROVE IsList(w)
      <3>1. w = <<FromTransactionReceipt(r)>>
        BY <2>3
      <3> QED
        BY <3>1, SingleCheck
    <2> QED
      BY <2>1, <2>2, <2>3
  <1> QED
    BY <1>3, <1>4

(* The quantities of logs are in range. *)
LogsInRange(logs) ==
  \A j \in DOMAIN logs : \A f \in DOMAIN LogWidth : logs[j].qty[f] < LogWidth[f]

(* The quantities of a value of the method called are in range. *)
ValueInRange(v) ==
  /\ method = "eth_getLogs" =>
       \A i \in DOMAIN v : \A f \in DOMAIN LogWidth : v[i].qty[f] < LogWidth[f]
  /\ method = "eth_getBlockByNumber" =>
       /\ v.number < U64
       /\ \A f \in DOMAIN BlockWidth : v.qty[f] < BlockWidth[f]
  /\ method = "eth_feeHistory" =>
       \A f \in DOMAIN FeeWidth : v.qty[f] < FeeWidth[f]
  /\ method = "eth_getTransactionReceipt" =>
       \A i \in DOMAIN v :
         /\ v[i].number < U64
         /\ \A f \in DOMAIN ReceiptWidth : v[i].qty[f] < ReceiptWidth[f]
         /\ LogsInRange(v[i].logs)

(* An answer that both conversions let through is in range. *)
LEMMA ConvertedInRange ==
  ASSUME NEW v \in Answers(method), ToAlloy(ToCandid(v)).kind # "err"
  PROVE  ValueInRange(ToAlloy(ToCandid(v)).value)
  <1>0. \A x : Ok(x).value = x
    BY DEF Ok
  <1>1. CASE method = "eth_getLogs"
    <2>1. v \in LogsAnswer /\ ToAlloy(ToCandid(v)) = AlloyLogs(v)
      BY <1>1, LogsCopied DEF Answers, ToCandid, ToAlloy
    <2>2. /\ AlloyLogs(v) = Ok(v)
          /\ \A i \in DOMAIN v :
               \A f \in DOMAIN LogWidth : v[i].qty[f] < LogWidth[f]
      BY <2>1, AnswerLists, LogsPass
    <2> QED
      BY <1>0, <1>1, <2>1, <2>2 DEF ValueInRange
  <1>2. CASE method = "eth_getBlockByNumber"
    <2> DEFINE b == FromBlock(v)
    <2>1. ToAlloy(ToCandid(v)) = AlloyBlock(b)
      BY <1>2 DEF ToCandid, ToAlloy
    <2>2. PICK d : BlockConverted(b, d)
      <3> HIDE DEF b
      <3> QED
        BY <2>1, BlockPasses
    <2>3. /\ WithDifficulty(b, d).number = b.number
          /\ WithDifficulty(b, d).qty = b.qty
      BY DEF FromBlock, WithDifficulty
    <2> HIDE DEF b
    <2> QED
      BY <1>0, <1>2, <2>1, <2>2, <2>3 DEF ValueInRange, BlockConverted
  <1>3. CASE method = "eth_feeHistory"
    <2> DEFINE h == FromFeeHistory(v)
    <2>1. ToAlloy(ToCandid(v)) = AlloyFeeHistory(h)
      BY <1>3 DEF ToCandid, ToAlloy
    <2> HIDE DEF h
    <2>2. /\ AlloyFeeHistory(h) = Ok(h)
          /\ \A f \in DOMAIN FeeWidth : h.qty[f] < FeeWidth[f]
      BY <2>1, FeeHistoryPasses
    <2> QED
      BY <1>0, <1>3, <2>1, <2>2 DEF ValueInRange
  <1>4. CASE method = "eth_getTransactionReceipt"
    <2> DEFINE o == [i \in DOMAIN v |-> FromTransactionReceipt(v[i])]
               x == [i \in DOMAIN o |-> AlloyReceipt(o[i]).value]
    <2>1. v \in ReceiptAnswer /\ ToAlloy(ToCandid(v)) = AlloyOption(o)
      BY <1>4 DEF Answers, ToCandid, ToAlloy
    <2>2. IsList(o) /\ \A i \in DOMAIN o : IsList(o[i].logs)
      <3>1. ASSUME NEW i \in DOMAIN o PROVE IsList(o[i].logs)
        <4>1. /\ ReceiptFields(v[i]) /\ o[i] = FromTransactionReceipt(v[i])
              /\ v[i].logs = <<>> \/ \E l : v[i].logs = <<l>>
          BY <2>1, <3>1, ReceiptShape
        <4>2. o[i].logs = v[i].logs
          <5> HIDE DEF o
          <5> QED
            BY <4>1, ReceiptConverted DEF ReceiptFields
        <4>3. IsList(<<>>)
          BY DEF IsList
        <4> QED
          BY <4>1, <4>2, <4>3, SingleCheck
      <3> QED
        BY <2>1, <3>1, AnswerLists
    <2> HIDE DEF o
    <2>3. /\ AlloyOption(o) = Ok(x)
          /\ \A i \in DOMAIN o : AlloyReceipt(o[i]).kind # "err"
      BY <2>1, <2>2, OptionPasses
    <2>4. ASSUME NEW i \in DOMAIN x
          PROVE  /\ x[i].number < U64
                 /\ \A f \in DOMAIN ReceiptWidth : x[i].qty[f] < ReceiptWidth[f]
                 /\ LogsInRange(x[i].logs)
      <3> DEFINE r == o[i]
                 status == ValidateReceiptStatus(r.number, r.root, r.status)
                 res == [number |-> r.number, status |-> status.value,
                         logs |-> r.logs, tx_type |-> r.tx_type, qty |-> r.qty]
      <3>1. /\ x[i] = AlloyReceipt(r).value /\ AlloyReceipt(r).kind # "err"
            /\ IsList(r.logs)
        BY <2>2, <2>3
      <3>2. res.number = r.number /\ res.qty = r.qty /\ res.logs = r.logs
        OBVIOUS
      <3> HIDE DEF r
      <3>3. /\ AlloyReceipt(r) = Ok(res) /\ r.number < U64
            /\ \A f \in DOMAIN ReceiptWidth : r.qty[f] < ReceiptWidth[f]
            /\ AlloyLogs(r.logs).kind # "err"
        BY <3>1, ReceiptPasses
      <3>4. LogsInRange(r.logs)
        BY <3>1, <3>3, LogsPass DEF LogsInRange
      <3> HIDE DEF res
      <3> QED
        BY <1>0, <3>1, <3>2, <3>3, <3>4
    <2> HIDE DEF x
    <2>5. ToAlloy(ToCandid(v)).value = x
      BY <1>0, <2>1, <2>3
    <2> QED
      BY <1>4, <2>4, <2>5 DEF ValueInRange
  <1> QED
    BY <1>1, <1>2, <1>3, <1>4 DEF ValueInRange

(* A service whose answer becomes a value gave one. *)
LEMMA ValueGiven ==
  ASSUME NEW s \in Service, answer[s] \in Given, Alone(s).kind # "err"
  PROVE  \E v \in Answers(method) :
           /\ answer[s] = Ok(v) /\ answer[s].value = v
           /\ Alone(s) = ToAlloy(ToCandid(v))
  <1>1. \A v : /\ Ok(v).kind = "ok" /\ Ok(v).value = v /\ Err(v).kind = "err"
    BY DEF Ok, Err
  <1>2. ASSUME NEW e, answer[s] = Err(e) PROVE FALSE
    BY <1>1, <1>2 DEF Alone, MapToCandid, AndThenAlloy
  <1>3. ASSUME NEW v, answer[s] = Ok(v)
        PROVE  answer[s].value = v /\ Alone(s) = ToAlloy(ToCandid(v))
    BY <1>1, <1>3 DEF Alone, MapToCandid, AndThenAlloy
  <1> QED
    BY <1>2, <1>3 DEF Given

(* Some service is behind a consistent result: the number asked for is never
   zero. *)
LEMMA SomeBacker ==
  ASSUME min \in Strategy, NEW view, NEW x, Enough(view, x)
  PROVE  With(view, x) # {}
  <1>1. Quorum > 0
    <2>1. Cardinality(Service) \in Nat /\ Cardinality(Service) # 0
      BY ServicesAssumption, FS_CardinalityType, FS_EmptySet
    <2> QED
      BY <2>1, QuorumNat DEF Quorum, Equality
  <1>2. Cardinality({}) = 0
    BY FS_EmptySet
  <1> QED
    BY <1>1, <1>2, QuorumNat, ServicesAssumption DEF Enough

(* A quantity of a value handed to the caller fits the type alloy gives it:
   the reply is what the checked conversions made of some service's answer. *)
THEOREM InRangeAlways == Spec => []InRange
  <1>1. ConversionInv /\ CountedInv => InRange
    <2> SUFFICES ASSUME ConversionInv, CountedInv, stage = "done",
                        reply.kind = "consistent", reply.res.kind = "ok"
                 PROVE  ValueInRange(reply.res.value)
      BY DEF InRange, ValueInRange, LogsInRange
    <2>1. PICK x : reply = Consistent(x) /\ Enough(each, x)
      BY KindsDiffer DEF ConversionInv, Summary
    <2>2. reply.res = x
      BY <2>1, KindsDiffer
    <2>3. PICK s \in Service : each[s] = x
      BY <2>1, SomeBacker DEF ConversionInv, With
    <2>4. Alone(s) = x
      BY <2>3 DEF ConversionInv
    <2>5. answer[s] \in Given
      BY DEF CountedInv
    <2>6. PICK v \in Answers(method) : Alone(s) = ToAlloy(ToCandid(v))
      BY <2>2, <2>4, <2>5, ValueGiven
    <2> QED
      BY <2>2, <2>4, <2>6, ConvertedInRange
  <1> QED
    BY <1>1, ConversionInductive, CountedInductive, PTL

(* Two receipts that become the same value differ only in the field that their
   block number makes irrelevant. *)
LEMMA ReceiptsVisible ==
  ASSUME NEW v, NEW w, ReceiptFields(v), ReceiptFields(w),
         AlloyReceipt(FromTransactionReceipt(v)).kind # "err",
         AlloyReceipt(FromTransactionReceipt(v)) =
           AlloyReceipt(FromTransactionReceipt(w))
  PROVE  /\ v.number = w.number
         /\ ~(v.number < Byzantium) =>
              [v EXCEPT !.root = None] = [w EXCEPT !.root = None]
         /\ v.number < Byzantium =>
              [v EXCEPT !.status = "Absent"] = [w EXCEPT !.status = "Absent"]
  <1>1. PICK n, root, type, logs, qty :
          \E status \in {"Absent", "Success", "Failure"} :
            v = [number |-> n, status |-> status, root |-> root,
                 tx_type |-> type, logs |-> logs, qty |-> qty]
    BY DEF ReceiptFields
  <1>2. PICK status \in {"Absent", "Success", "Failure"} :
          v = [number |-> n, status |-> status, root |-> root,
               tx_type |-> type, logs |-> logs, qty |-> qty]
    BY <1>1
  <1>3. PICK n2, root2, type2, logs2, qty2 :
          \E status2 \in {"Absent", "Success", "Failure"} :
            w = [number |-> n2, status |-> status2, root |-> root2,
                 tx_type |-> type2, logs |-> logs2, qty |-> qty2]
    BY DEF ReceiptFields
  <1>4. PICK status2 \in {"Absent", "Success", "Failure"} :
          w = [number |-> n2, status |-> status2, root |-> root2,
               tx_type |-> type2, logs |-> logs2, qty |-> qty2]
    BY <1>3
  <1> DEFINE r == FromTransactionReceipt(v)
             q == FromTransactionReceipt(w)
             vs == ValidateReceiptStatus(n, root, StatusCode(status))
             ws == ValidateReceiptStatus(n2, root2, StatusCode(status2))
  <1>5. /\ r.number = n /\ r.status = StatusCode(status) /\ r.root = root
        /\ r.tx_type = type /\ r.logs = logs /\ r.qty = qty
    BY <1>2, ReceiptConverted
  <1>6. /\ q.number = n2 /\ q.status = StatusCode(status2) /\ q.root = root2
        /\ q.tx_type = type2 /\ q.logs = logs2 /\ q.qty = qty2
    BY <1>4, ReceiptConverted
  <1> HIDE DEF r, q
  <1>7. /\ AlloyReceipt(r) = Ok([number |-> n, status |-> vs.value,
                                 logs |-> logs, tx_type |-> type, qty |-> qty])
        /\ vs.kind # "err"
    BY <1>5, ReceiptPasses DEF r
  <1>8. /\ AlloyReceipt(q) = Ok([number |-> n2, status |-> ws.value,
                                 logs |-> logs2, tx_type |-> type2, qty |-> qty2])
        /\ ws.kind # "err"
    BY <1>6, ReceiptPasses DEF r, q
  <1>9. /\ n = n2 /\ vs.value = ws.value /\ logs = logs2 /\ type = type2
        /\ qty = qty2
    <2> HIDE DEF vs, ws
    <2>1. \A x, y : Ok(x) = Ok(y) => x = y
      BY DEF Ok
    <2>2. [number |-> n, status |-> vs.value, logs |-> logs, tx_type |-> type,
           qty |-> qty] =
          [number |-> n2, status |-> ws.value, logs |-> logs2,
           tx_type |-> type2, qty |-> qty2]
      BY <1>7, <1>8, <2>1 DEF r, q
    <2> QED
      BY <2>2
  <1>10. CASE n < Byzantium
    <2>1. vs.value = <<"PostState", root>> /\ ws.value = <<"PostState", root2>>
      BY <1>7, <1>8, <1>9, <1>10, StatusPasses
    <2>2. <<"PostState", root>>[2] = <<"PostState", root2>>[2]
      BY <1>9, <2>1, Zenon
    <2> QED
      BY <1>2, <1>4, <1>9, <1>10, <2>2
  <1>11. CASE ~(n < Byzantium)
    <2>1. /\ vs.value = <<"Eip658", StatusCode(status)>>
          /\ ws.value = <<"Eip658", StatusCode(status2)>>
      BY <1>7, <1>8, <1>9, <1>11, StatusPasses
    <2>2. <<"Eip658", StatusCode(status)>>[2] = <<"Eip658", StatusCode(status2)>>[2]
      BY <1>9, <2>1, Zenon
    <2>3. status = status2
      BY <2>2, CodesDiffer
    <2> QED
      BY <1>2, <1>4, <1>9, <1>11, <2>3
  <1> QED
    BY <1>10, <1>11

(* Two blocks that become the same value differ, after Paris, in the difficulty
   only. *)
LEMMA BlocksVisible ==
  ASSUME NEW v \in BlockAnswer, NEW w \in BlockAnswer,
         AlloyBlock(FromBlock(v)).kind # "err",
         AlloyBlock(FromBlock(v)) = AlloyBlock(FromBlock(w))
  PROVE  /\ v.number = w.number
         /\ v.number < Paris => v = w
         /\ [v EXCEPT !.difficulty = None] = [w EXCEPT !.difficulty = None]
  <1> DEFINE b == FromBlock(v)
             c == FromBlock(w)
  <1>1. \A x \in BlockAnswer :
          x = [number |-> x.number, difficulty |-> x.difficulty,
               transactions_root |-> x.transactions_root, qty |-> x.qty]
    BY DEF BlockAnswer
  <1>2. \A x, d : /\ WithDifficulty(FromBlock(x), d).number = x.number
                  /\ WithDifficulty(FromBlock(x), d).qty = x.qty
                  /\ WithDifficulty(FromBlock(x), d).difficulty = d
                  /\ WithDifficulty(FromBlock(x), d).transactions_root =
                       x.transactions_root
                  /\ FromBlock(x).number = x.number
                  /\ FromBlock(x).difficulty = x.difficulty
    BY DEF FromBlock, WithDifficulty
  <1> HIDE DEF b, c
  <1>3. PICK d : BlockConverted(b, d)
    BY BlockPasses DEF b
  <1>4. PICK e : BlockConverted(c, e)
    BY BlockPasses DEF b, c
  <1>5. WithDifficulty(b, d) = WithDifficulty(c, e)
    <2>1. \A x, y : Ok(x) = Ok(y) => x = y
      BY DEF Ok
    <2> QED
      BY <1>3, <1>4, <2>1 DEF BlockConverted, b, c
  <1>6. /\ v.number = w.number /\ v.qty = w.qty /\ d = e
        /\ v.transactions_root = w.transactions_root
    BY <1>2, <1>5 DEF b, c
  <1>7. v.number < Paris => v.difficulty = w.difficulty
    BY <1>2, <1>3, <1>4, <1>6 DEF BlockConverted, b, c
  <1> QED
    BY <1>1, <1>6, <1>7

(* Two options are both empty or both full. *)
LEMMA OptionsVisible ==
  ASSUME NEW v \in ReceiptAnswer, NEW w \in ReceiptAnswer,
         method = "eth_getTransactionReceipt",
         ToAlloy(ToCandid(v)).kind # "err",
         ToAlloy(ToCandid(v)) = ToAlloy(ToCandid(w))
  PROVE  Visible(v) = Visible(w)
  <1> DEFINE o == [i \in DOMAIN v |-> FromTransactionReceipt(v[i])]
             p == [i \in DOMAIN w |-> FromTransactionReceipt(w[i])]
             x == [i \in DOMAIN o |-> AlloyReceipt(o[i]).value]
             y == [i \in DOMAIN p |-> AlloyReceipt(p[i]).value]
  <1>1. ToAlloy(ToCandid(v)) = AlloyOption(o) /\ ToAlloy(ToCandid(w)) = AlloyOption(p)
    BY DEF ToAlloy, ToCandid
  <1>2. IsList(o) /\ IsList(p)
    BY AnswerLists
  <1>3. AlloyOption(o) = Ok(x) /\ \A i \in DOMAIN o : AlloyReceipt(o[i]).kind # "err"
    <2> HIDE DEF o
    <2> QED
      BY <1>1, <1>2, OptionPasses
  <1>4. AlloyOption(p) = Ok(y) /\ \A i \in DOMAIN p : AlloyReceipt(p[i]).kind # "err"
    <2> HIDE DEF p
    <2> QED
      BY <1>1, <1>2, OptionPasses
  <1>5. x = y
    <2>1. \A a, b : Ok(a) = Ok(b) => a = b
      BY DEF Ok
    <2> HIDE DEF x, y
    <2> QED
      BY <1>1, <1>3, <1>4, <2>1
  <1>6. DOMAIN v = DOMAIN w
    <2>1. DOMAIN x = DOMAIN v /\ DOMAIN y = DOMAIN w
      OBVIOUS
    <2> HIDE DEF x, y
    <2> QED
      BY <1>5, <2>1
  <1>7. ASSUME NEW i \in DOMAIN v
        PROVE  AlloyReceipt(FromTransactionReceipt(v[i])) =
                 AlloyReceipt(FromTransactionReceipt(w[i]))
               /\ AlloyReceipt(FromTransactionReceipt(v[i])).kind # "err"
               /\ ReceiptFields(v[i]) /\ ReceiptFields(w[i])
    <2> DEFINE r == FromTransactionReceipt(v[i])
               q == FromTransactionReceipt(w[i])
    <2>1. o[i] = r /\ p[i] = q /\ i \in DOMAIN o /\ i \in DOMAIN p
      BY <1>6
    <2>2. x[i] = AlloyReceipt(o[i]).value /\ y[i] = AlloyReceipt(p[i]).value
      BY <1>6
    <2> HIDE DEF o, p, x, y, r, q
    <2>3. AlloyReceipt(r).kind # "err" /\ AlloyReceipt(q).kind # "err"
      BY <1>3, <1>4, <2>1
    <2>4. \E a : AlloyReceipt(r) = Ok(a)
      BY <2>3, ReceiptPasses
    <2>5. \E a : AlloyReceipt(q) = Ok(a)
      BY <2>3, ReceiptPasses
    <2>6. AlloyReceipt(r) = AlloyReceipt(q)
      <3>1. \A a : Ok(a).value = a
        BY DEF Ok
      <3>2. AlloyReceipt(r).value = AlloyReceipt(q).value
        BY <1>5, <2>1, <2>2
      <3> QED
        BY <2>4, <2>5, <3>1, <3>2
    <2>7. ReceiptFields(v[i]) /\ ReceiptFields(w[i])
      BY <1>6, ReceiptShape
    <2> QED
      BY <2>3, <2>6, <2>7 DEF r, q
  <1>8. \A i \in DOMAIN v : v[i].number \in Int
    BY ReceiptShape
  <1> DEFINE visible(r) == IF r.number >= Byzantium
                           THEN [r EXCEPT !.root = None]
                           ELSE [r EXCEPT !.status = "Absent"]
  <1>9. ASSUME NEW i \in DOMAIN v PROVE visible(v[i]) = visible(w[i])
    <2> DEFINE r == v[i]
               q == w[i]
    <2> HIDE DEF r, q
    <2>1. /\ r.number = q.number
          /\ ~(r.number < Byzantium) =>
               [r EXCEPT !.root = None] = [q EXCEPT !.root = None]
          /\ r.number < Byzantium =>
               [r EXCEPT !.status = "Absent"] = [q EXCEPT !.status = "Absent"]
      BY <1>7, ReceiptsVisible DEF r, q
    <2>2. r.number \in Int /\ Byzantium \in Int
      BY <1>8, NumberAssumption DEF r
    <2>3. visible(r) = visible(q)
      BY <2>1, <2>2
    <2> QED
      BY <2>3 DEF r, q
  <1>10. /\ Visible(v) = [i \in DOMAIN v |-> visible(v[i])]
         /\ Visible(w) = [i \in DOMAIN w |-> visible(w[i])]
    BY DEF Visible
  <1> HIDE DEF visible
  <1> QED
    BY <1>6, <1>9, <1>10

(* Two answers that become the same value look the same but for the fields of
   the other side of a fork. *)
LEMMA AnswersVisible ==
  ASSUME NEW v \in Answers(method), NEW w \in Answers(method),
         ToAlloy(ToCandid(v)).kind # "err",
         ToAlloy(ToCandid(v)) = ToAlloy(ToCandid(w))
  PROVE  Visible(v) = Visible(w)
  <1>0. \A x, y : Ok(x) = Ok(y) => x = y
    BY DEF Ok
  <1>1. CASE method = "eth_getLogs"
    <2>1. /\ v \in LogsAnswer /\ ToAlloy(ToCandid(v)) = AlloyLogs(v)
          /\ w \in LogsAnswer /\ ToAlloy(ToCandid(w)) = AlloyLogs(w)
      BY <1>1, LogsCopied DEF Answers, ToCandid, ToAlloy
    <2>2. AlloyLogs(v) = Ok(v) /\ AlloyLogs(w) = Ok(w)
      BY <2>1, AnswerLists, LogsPass
    <2> QED
      BY <1>0, <2>1, <2>2
  <1>2. CASE method = "eth_getBlockByNumber"
    <2>1. /\ v \in BlockAnswer /\ ToAlloy(ToCandid(v)) = AlloyBlock(FromBlock(v))
          /\ w \in BlockAnswer /\ ToAlloy(ToCandid(w)) = AlloyBlock(FromBlock(w))
      BY <1>2 DEF Answers, ToCandid, ToAlloy
    <2>2. /\ v.number = w.number
          /\ v.number < Paris => v = w
          /\ [v EXCEPT !.difficulty = None] = [w EXCEPT !.difficulty = None]
      BY <2>1, BlocksVisible
    <2>3. v.number \in Int /\ Paris \in Int
      BY <2>1, NumberAssumption DEF BlockAnswer
    <2> QED
      BY <1>2, <2>2, <2>3 DEF Visible
  <1>3. CASE method = "eth_feeHistory"
    <2>1. /\ ToAlloy(ToCandid(v)) = AlloyFeeHistory(FromFeeHistory(v))
          /\ ToAlloy(ToCandid(w)) = AlloyFeeHistory(FromFeeHistory(w))
          /\ ToCandid(v) = FromFeeHistory(v) /\ ToCandid(w) = FromFeeHistory(w)
      BY <1>3 DEF ToCandid, ToAlloy
    <2>2. /\ AlloyFeeHistory(FromFeeHistory(v)) = Ok(FromFeeHistory(v))
          /\ AlloyFeeHistory(FromFeeHistory(w)) = Ok(FromFeeHistory(w))
      BY <2>1, FeeHistoryPasses
    <2>3. v = w
      BY <1>0, <2>1, <2>2, AnswersDiffer
    <2> QED
      BY <2>3
  <1>4. CASE method = "eth_getTransactionReceipt"
    BY <1>4, OptionsVisible DEF Answers
  <1>5. CASE method = "eth_sendRawTransaction"
    <2>1. ASSUME NEW x, ToAlloy(ToCandid(x)).kind # "err" PROVE x = "Ok"
      <3>1. ToAlloy(ToCandid(x)) = AlloyHash(FromSendRawTransactionResult(hash, x))
        BY <1>5 DEF ToAlloy, ToCandid
      <3>2. FromSendRawTransactionResult(hash, x)[1] = x
        BY DEF FromSendRawTransactionResult
      <3>3. ASSUME NEW status, status[1] # "Ok"
            PROVE  AlloyHash(status).kind = "err"
        <4> DEFINE e == <<status[1], -32000>>
        <4>1. status # <<"Ok", None>>
          BY <3>3
        <4>2. AlloyHash(status) = Err(e)
          BY <3>3, <4>1 DEF AlloyHash
        <4> HIDE DEF e
        <4> QED
          BY <4>2 DEF Err
      <3> QED
        BY <2>1, <3>1, <3>2, <3>3
    <2>2. v = "Ok" /\ w = "Ok"
      BY <2>1
    <2> QED
      BY <2>2
  <1>6. CASE method \notin {"eth_getLogs", "eth_getBlockByNumber",
                            "eth_feeHistory", "eth_getTransactionReceipt",
                            "eth_sendRawTransaction"}
    <2>1. \A x : ToAlloy(ToCandid(x)) = Ok(x)
      BY <1>6 DEF ToAlloy, ToCandid
    <2> QED
      BY <1>0, <2>1
  <1> QED
    BY <1>1, <1>2, <1>3, <1>4, <1>5, <1>6

(* What two services disagree on behind one consistent value is at most the
   difficulty of a block after Paris, or the root or status of a receipt whose
   block number calls for the other one. *)
THEOREM OnlyForkFieldsHiddenAlways == Spec => []OnlyForkFieldsHidden
  <1>1. CountedInv => OnlyForkFieldsHidden
    <2> SUFFICES ASSUME CountedInv, stage = "done", reply.res.kind = "ok",
                        NEW s \in Backers, NEW t \in Backers
                 PROVE  Visible(answer[s].value) = Visible(answer[t].value)
      BY DEF OnlyForkFieldsHidden
    <2>1. /\ s \in Service /\ t \in Service
          /\ Alone(s) = reply.res /\ Alone(t) = reply.res
      BY DEF Backers
    <2>2. answer[s] \in Given /\ answer[t] \in Given
      BY <2>1 DEF CountedInv
    <2>3. PICK v \in Answers(method) :
            answer[s].value = v /\ Alone(s) = ToAlloy(ToCandid(v))
      BY <2>1, <2>2, ValueGiven
    <2>4. PICK w \in Answers(method) :
            answer[t].value = w /\ Alone(t) = ToAlloy(ToCandid(w))
      BY <2>1, <2>2, ValueGiven
    <2> QED
      BY <2>1, <2>3, <2>4, AnswersVisible
  <1> QED
    BY <1>1, CountedInductive, PTL
=============================================================================
