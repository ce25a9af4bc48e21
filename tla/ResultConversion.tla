-------------------------- MODULE ResultConversion --------------------------
(***************************************************************************)
(* What happens to the results of the services between the outcalls and    *)
(* the caller's code: they are reduced (process_result), mapped to Candid  *)
(* by the canister (candid_rpc, cketh_conversion), and mapped by the Rust  *)
(* client to the types of alloy (evm_rpc_types, feature alloy), which may  *)
(* fail.  Both maps go over a consistent result or over each service's     *)
(* own, and end with collapse.                                             *)
(*                                                                         *)
(* A value keeps the fields that a conversion inspects, renames or drops;  *)
(* the others are copied (hashes, addresses and bytes, which differ        *)
(* between two answers no more than the numbers kept do).  Block numbers   *)
(* and widths are scaled down, in the order they have.                     *)
(***************************************************************************)
EXTENDS Integers, FiniteSets, FiniteSetsExt, Sequences

CONSTANTS
  Service,          \* the services queried
  Strategy,         \* 0 for Equality, or the min of a Threshold
  Method,           \* endpoints called
  Failure,          \* errors a service can end with, as <<message, code>>
  Byzantium,        \* BYZANTIUM_BLOCK, of the Ethereum mainnet
  Paris,            \* PARIS_BLOCK
  U64, U128,        \* numbers of 64 and of 128 bits are below
  ChainByzantium,   \* the first block after Byzantium of the chain queried
  TxTypes           \* transaction types alloy knows

ASSUME ServicesAssumption == IsFiniteSet(Service) /\ Service # {}
ASSUME StrategyAssumption == Strategy \subseteq Nat
ASSUME NumberAssumption ==
  /\ {Byzantium, Paris, U64, U128, ChainByzantium} \subseteq Nat
  /\ 0 < Byzantium /\ Byzantium < Paris /\ Paris < U64 /\ U64 < U128

VARIABLES
  stage,    \* "calling", "reduced", "candid" or "done"
  method, min,
  hash,     \* get_transaction_hash of the transaction sent, or None
  answer,   \* result of each service, as the canister decoded it
  reply,    \* consistent or inconsistent
  each,     \* the results of an inconsistent reply, per service
  counted   \* inconsistent_responses was incremented

vars == <<stage, method, min, hash, answer, reply, each, counted>>

None == -1
Ok(v) == [kind |-> "ok", value |-> v]
Err(e) == [kind |-> "err", error |-> e]
NoResult == [kind |-> "none"]

INSTANCE Reduction

-----------------------------------------------------------------------------
(* The answers.  A quantity is in range, or one of them is not. *)

Quantities(width) ==
  {[f \in DOMAIN width |-> IF f = g THEN width[g] ELSE 0] :
     g \in DOMAIN width \cup {"none_of_them"}}

LogWidth == [block_number |-> U64, transaction_index |-> U64,
             log_index |-> U64]
BlockWidth == [gas_limit |-> U64, gas_used |-> U64, timestamp |-> U64,
               nonce |-> U64, base_fee_per_gas |-> U64]
FeeWidth == [base_fee_per_gas |-> U128, oldest_block |-> U64, reward |-> U128]
ReceiptWidth == [cumulative_gas_used |-> U64, transaction_index |-> U64,
                 gas_used |-> U64, effective_gas_price |-> U128]

Plain(width) == [f \in DOMAIN width |-> 0]
LogEntry(n, qty) == [topics |-> n, qty |-> qty]
GoodLog == LogEntry(4, Plain(LogWidth))
BadLog == LogEntry(5, Plain(LogWidth))
PendingLog == LogEntry(0, [f \in DOMAIN LogWidth |-> None])

LogsAnswer == {<<>>, <<GoodLog, PendingLog>>, <<GoodLog, BadLog>>}
  \cup {<<LogEntry(0, q)>> : q \in Quantities(LogWidth)}

BlockAnswer ==
  [number : {Paris - 1, Paris, U64}, difficulty : {None, 0, 1},
   transactions_root : {None, 1}, qty : {Plain(BlockWidth)}]
  \cup
  [number : {Paris}, difficulty : {None, 0}, transactions_root : {1},
   qty : Quantities(BlockWidth)]

FeeAnswer == [qty : Quantities(FeeWidth)]

(* A receipt, or none: the transaction may be unknown. *)
ReceiptAnswer ==
  {<<>>} \cup
  {<<r>> : r \in
     [number : {Byzantium - 1, Byzantium},
      status : {"Absent", "Success", "Failure"}, root : {None, 1},
      tx_type : {2}, logs : {<<>>}, qty : {Plain(ReceiptWidth)}]
     \cup
     [number : {U64}, status : {"Success"}, root : {None}, tx_type : {2, 99},
      logs : {<<GoodLog>>, <<BadLog>>}, qty : {Plain(ReceiptWidth)}]
     \cup
     [number : {Byzantium}, status : {"Success"}, root : {None}, tx_type : {2},
      logs : {<<>>}, qty : Quantities(ReceiptWidth)]
     \cup
     [number : {Byzantium}, status : {"Success"}, root : {None}, tx_type : {2},
      logs : {<<LogEntry(0, q)>> : q \in Quantities(LogWidth)},
      qty : {Plain(ReceiptWidth)}]}

SendRawTransactionResult ==
  {"Ok", "InsufficientFunds", "NonceTooLow", "NonceTooHigh"}

Answers(m) ==
  CASE m = "eth_getLogs" -> LogsAnswer
    [] m = "eth_getBlockByNumber" -> BlockAnswer
    [] m = "eth_feeHistory" -> FeeAnswer
    [] m = "eth_getTransactionReceipt" -> ReceiptAnswer
    [] m = "eth_sendRawTransaction" -> SendRawTransactionResult
    [] OTHER -> {0, 1}     \* eth_getTransactionCount, eth_call

-----------------------------------------------------------------------------
(* JSON to Candid, in the canister.  It never fails. *)

(* Mutant of FromBlock: a difficulty of zero is dropped. *)
FromBlockDropZero(b) ==
  [number |-> b.number, transactions_root |-> b.transactions_root,
   qty |-> b.qty, total_difficulty |-> None,
   difficulty |-> IF b.difficulty = 0 THEN None ELSE b.difficulty]

FromBlock(b) ==
  [number |-> b.number, difficulty |-> b.difficulty,
   transactions_root |-> b.transactions_root, qty |-> b.qty,
   total_difficulty |-> None]

FromTransactionReceipt(r) ==
  [r EXCEPT !.status = CASE @ = "Absent" -> None
                         [] @ = "Success" -> 1
                         [] @ = "Failure" -> 0]

FromLogEntries(logs) ==
  [i \in DOMAIN logs |-> [topics |-> logs[i].topics, qty |-> logs[i].qty]]

FromFeeHistory(h) == [qty |-> h.qty]

(* The hash is computed from the transaction, not from the answer. *)
FromSendRawTransactionResult(h, v) ==
  IF v = "Ok" THEN <<"Ok", h>> ELSE <<v, None>>

ToCandid(v) ==
  CASE method = "eth_getLogs" -> FromLogEntries(v)
    [] method = "eth_getBlockByNumber" -> FromBlock(v)
    [] method = "eth_feeHistory" -> FromFeeHistory(v)
    [] method = "eth_getTransactionReceipt" ->
         [i \in DOMAIN v |-> FromTransactionReceipt(v[i])]
    [] method = "eth_sendRawTransaction" ->
         FromSendRawTransactionResult(hash, v)
    [] OTHER -> v          \* Nat256::from, from_data

-----------------------------------------------------------------------------
(* Candid to alloy, in the client: the first conversion that fails gives the
   error, otherwise v is the value. *)

InOrder(checks, v) ==
  LET failed == {i \in DOMAIN checks : checks[i].kind = "err"}
  IN  IF failed = {} THEN Ok(v) ELSE checks[Min(failed)]

(* Mutant of TryFromNat256: the width itself still fits. *)
FitsInclusive(value, field, width) ==
  IF value <= width THEN Ok(value) ELSE Err(<<field, value>>)

(* try_from_nat256; the error quotes the value.  An absent value passes. *)
TryFromNat256(value, field, width) ==
  IF value < width THEN Ok(value) ELSE Err(<<field, value>>)

Fits(qty, width, fields) ==
  [i \in DOMAIN fields |->
     TryFromNat256(qty[fields[i]], fields[i], width[fields[i]])]

ValidateTransactionsRoot(root) ==
  IF root = None THEN Err(<<"Block_does_not_have_a_transactions_root", 0>>)
  ELSE Ok(root)

ValidateDifficulty(number, difficulty) ==
  IF number < Paris
  THEN IF difficulty = None THEN Err(<<"Missing_difficulty_field", 0>>)
       ELSE Ok(difficulty)
  ELSE IF difficulty \in {None, 0} THEN Ok(0)
       ELSE Err(<<"Post_Paris_block_has_non_zero_difficulty", 0>>)

(* Mutant of ValidateReceiptStatus: any status is taken for success. *)
StatusPresent(number, root, status) ==
  IF number < Byzantium
  THEN IF root = None THEN Err(<<"Missing_root_field", 0>>)
       ELSE Ok(<<"PostState", root>>)
  ELSE IF status = None THEN Err(<<"Missing_status_field", 0>>)
       ELSE Ok(<<"Eip658", 1>>)

(* The block numbers are those of the mainnet, on every chain. *)
ValidateReceiptStatus(number, root, status) ==
  IF number < Byzantium
  THEN IF root = None THEN Err(<<"Missing_root_field", 0>>)
       ELSE Ok(<<"PostState", root>>)
  ELSE CASE status = None -> Err(<<"Missing_status_field", 0>>)
         [] status \in {0, 1} -> Ok(<<"Eip658", status>>)
         [] OTHER -> Err(<<"Post_Byzantium_receipt_has_invalid_status", 0>>)

TxType(byte) ==
  IF byte \in TxTypes THEN Ok(byte)
  ELSE Err(<<"Unable_to_parse_transaction_type", byte>>)

AlloyLog(entry) ==
  InOrder(<<IF entry.topics <= 4 THEN Ok(0) ELSE Err(<<"Invalid_log_data", 0>>)>>
            \o Fits(entry.qty, LogWidth,
                    <<"block_number", "transaction_index", "log_index">>),
          entry)

AlloyLogs(logs) == InOrder([i \in DOMAIN logs |-> AlloyLog(logs[i])], logs)

AlloyBlock(b) ==
  LET difficulty == ValidateDifficulty(b.number, b.difficulty)
      checks == <<ValidateTransactionsRoot(b.transactions_root), difficulty,
                  TryFromNat256(b.number, "number", U64)>>
                \o Fits(b.qty, BlockWidth,
                        <<"gas_limit", "gas_used", "timestamp", "nonce",
                          "base_fee_per_gas">>)
  IN  InOrder(checks, [b EXCEPT !.difficulty = difficulty.value])

AlloyFeeHistory(h) ==
  InOrder(Fits(h.qty, FeeWidth,
               <<"base_fee_per_gas", "oldest_block", "reward">>), h)

(* Of status and root only what the block number calls for is kept. *)
AlloyReceipt(r) ==
  LET status == ValidateReceiptStatus(r.number, r.root, r.status)
      checks == <<TxType(r.tx_type), status>>
                \o Fits(r.qty, ReceiptWidth, <<"cumulative_gas_used">>)
                \o <<AlloyLogs(r.logs)>>
                \o Fits(r.qty, ReceiptWidth, <<"transaction_index">>)
                \o <<TryFromNat256(r.number, "block_number", U64)>>
                \o Fits(r.qty, ReceiptWidth,
                        <<"gas_used", "effective_gas_price">>)
  IN  InOrder(checks,
        [number |-> r.number, status |-> status.value, logs |-> r.logs,
         tx_type |-> r.tx_type, qty |-> r.qty])

(* A status other than Ok is an error in the words of a JSON-RPC server. *)
AlloyHash(status) ==
  CASE status[1] # "Ok" -> Err(<<status[1], -32000>>)
    [] status = <<"Ok", None>> -> Err(<<"Unable_to_compute_hash", 0>>)
    [] OTHER -> Ok(status[2])

(* Option::transpose *)
AlloyOption(option) ==
  LET receipts == [i \in DOMAIN option |-> AlloyReceipt(option[i])]
  IN  InOrder(receipts, [i \in DOMAIN option |-> receipts[i].value])

ToAlloy(v) ==
  CASE method = "eth_getLogs" -> AlloyLogs(v)
    [] method = "eth_getBlockByNumber" -> AlloyBlock(v)
    [] method = "eth_feeHistory" -> AlloyFeeHistory(v)
    [] method = "eth_getTransactionReceipt" -> AlloyOption(v)
    [] method = "eth_sendRawTransaction" -> AlloyHash(v)
    [] OTHER -> Ok(v)

-----------------------------------------------------------------------------
Init ==
  /\ stage = "calling"
  /\ method \in Method
  /\ min \in Strategy
  /\ hash \in IF method = "eth_sendRawTransaction" THEN {None, 1} ELSE {None}
  /\ answer = [s \in Service |-> NoResult]
  /\ reply = [kind |-> "none"]
  /\ each = answer
  /\ counted = FALSE

(* The services answer, with a value or an error (external). *)
Answer ==
  /\ stage = "calling" /\ \A s \in Service : answer[s] = NoResult
  /\ answer' \in [Service -> {Ok(v) : v \in Answers(method)}
                             \cup {Err(e) : e \in Failure}]
  /\ UNCHANGED <<stage, method, min, hash, reply, each, counted>>

(* process_result: the reduction, and the metric. *)
ProcessResult ==
  /\ stage = "calling" /\ \A s \in Service : answer[s] # NoResult
  /\ reply' \in ByStrategy(Service, answer, min)
  /\ each' = answer
  /\ counted' = (reply' = Inconsistent)
  /\ stage' = "reduced"
  /\ UNCHANGED <<method, min, hash, answer>>

(* What MultiRpcResult::map does to each result. *)
MapToCandid(res) == IF res.kind = "ok" THEN Ok(ToCandid(res.value)) ELSE res

(* What MultiRpcResult::and_then does to each result. *)
AndThenAlloy(res) == IF res.kind = "ok" THEN ToAlloy(res.value) ELSE res

(* The map of an endpoint of CandidRpcClient, before the canister replies. *)
ReplyInCandid ==
  /\ stage = "reduced"
  /\ each' = [s \in Service |-> MapToCandid(each[s])]
  /\ \/ /\ reply.kind = "consistent"
        /\ reply' = Consistent(MapToCandid(reply.res))
     \/ reply = Inconsistent /\ reply' \in Collapse(Service, each', reply)
  /\ stage' = "candid"
  /\ UNCHANGED <<method, min, hash, answer, counted>>

(* The From<MultiRpcResult<_>> that the client applies to the reply. *)
ConvertInClient ==
  /\ stage = "candid"
  /\ each' = [s \in Service |-> AndThenAlloy(each[s])]
  /\ \/ /\ reply.kind = "consistent"
        /\ reply' = Consistent(AndThenAlloy(reply.res))
     \/ reply = Inconsistent /\ reply' \in Collapse(Service, each', reply)
  /\ stage' = "done"
  /\ UNCHANGED <<method, min, hash, answer, counted>>

Next == Answer \/ ProcessResult \/ ReplyInCandid \/ ConvertInClient

Spec == Init /\ [][Next]_vars

-----------------------------------------------------------------------------
(* What the client makes of a service's answer on its own. *)
Alone(s) == AndThenAlloy(MapToCandid(answer[s]))

Quorum == IF min = Equality THEN Cardinality(Service) ELSE min

(* The services whose own answer is the result the caller got. *)
Backers == {s \in Service : Alone(s) = reply.res}

(* A quantity of a value handed to the caller, nested in the logs of a receipt
   too, fits the type alloy gives it. *)
InRange ==
  stage = "done" /\ reply.kind = "consistent" /\ reply.res.kind = "ok" =>
    LET v == reply.res.value
        fits(qty, width) == \A f \in DOMAIN width : qty[f] < width[f]
    IN  CASE method = "eth_getLogs" ->
               \A i \in DOMAIN v : fits(v[i].qty, LogWidth)
          [] method = "eth_getBlockByNumber" ->
               v.number < U64 /\ fits(v.qty, BlockWidth)
          [] method = "eth_feeHistory" -> fits(v.qty, FeeWidth)
          [] method = "eth_getTransactionReceipt" ->
               \A i \in DOMAIN v :
                 /\ v[i].number < U64
                 /\ fits(v[i].qty, ReceiptWidth)
                 /\ \A j \in DOMAIN v[i].logs : fits(v[i].logs[j].qty, LogWidth)
          [] OTHER -> TRUE

(* The two maps with their collapse keep the meaning of the reduction: what
   the caller sees as the consistent result is what the answers of enough
   services, or of all of them, become on their own; and what it sees as
   inconsistent are each service's own results, not all the same. *)
ResultBacked ==
  stage = "done" =>
    \/ /\ reply.kind = "consistent"
       /\ Cardinality(Backers) >= Quorum \/ Backers = Service
    \/ /\ reply = Inconsistent
       /\ \A s \in Service : each[s] = Alone(s)
       /\ ~Agree(Service, each)

(* The canister's own conversions hide no difference: an inconsistency that
   was counted for the providers reaches the caller, unless all answers were
   the same and the threshold asked for more. *)
CountedIsShown ==
  stage = "candid" /\ counted /\ reply # Inconsistent => Agree(Service, answer)

(* What two services may disagree on behind one consistent value: whether a
   block after Paris has a difficulty of zero or none, and the root or the
   status of a receipt whose block number calls for the other one.  On
   everything else, success or failure above all, those that back the value
   agree. *)
Visible(v) ==
  CASE method = "eth_getBlockByNumber" ->
         IF v.number >= Paris THEN [v EXCEPT !.difficulty = None] ELSE v
    [] method = "eth_getTransactionReceipt" ->
         [i \in DOMAIN v |-> IF v[i].number >= Byzantium
                             THEN [v[i] EXCEPT !.root = None]
                             ELSE [v[i] EXCEPT !.status = "Absent"]]
    [] OTHER -> v

OnlyForkFieldsHidden ==
  stage = "done" /\ reply.kind = "consistent" /\ reply.res.kind = "ok" =>
    \A s, t \in Backers : Visible(answer[s].value) = Visible(answer[t].value)

(* "Only specified for transactions included after the Byzantium upgrade": a
   receipt with a status after the Byzantium of its chain, or a root before,
   that is in order otherwise, can be read through the client. *)
ReceiptsReadable ==
  stage = "done" /\ method = "eth_getTransactionReceipt" =>
    \A s \in Service : answer[s].kind = "ok" =>
      \A i \in DOMAIN answer[s].value :
        LET r == answer[s].value[i] IN
        /\ IF r.number < ChainByzantium THEN r.root # None
                                        ELSE r.status # "Absent"
        /\ r.number < U64 /\ r.qty = Plain(ReceiptWidth)
        /\ r.tx_type \in TxTypes
        /\ \A j \in DOMAIN r.logs : /\ r.logs[j].topics <= 4
                                    /\ r.logs[j].qty = Plain(LogWidth)
        => Alone(s).kind = "ok"
=============================================================================
