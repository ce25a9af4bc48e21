------------------------- MODULE ResponseTransform -------------------------
(***************************************************************************)
(* One HTTPS outcall of the EVM RPC canister, seen from the replicas.      *)
(*                                                                         *)
(* Every replica of the subnet sends the request by itself and runs the    *)
(* transform query of the canister on what it received (cleanup_response   *)
(* for the eth_* endpoints, __transform_json_rpc for request); the replica *)
(* software then looks for a quorum of equal transformed responses.  The   *)
(* provider may answer each replica in another encoding (key order,        *)
(* unknown fields, null or absent fields, upper or lower case, order of    *)
(* the logs), and eth_sendRawTransaction is not idempotent: only the first *)
(* replica to arrive can be told that the transaction is new.              *)
(*                                                                         *)
(* A JSON object is a function from its keys to values, a body also has    *)
(* the order its keys come in.  "v" and "V" are two spellings of the same  *)
(* value, "null" is JSON null and "empty" what serde(default) fills in.    *)
(***************************************************************************)
EXTENDS Integers, FiniteSets, SequencesExt

CONSTANTS
  Replica,      \* the nodes of the subnet
  Method,       \* JSON-RPC methods called, and "request" for that endpoint
  Status,       \* HTTP statuses providers answer with
  Header,       \* values of a header that differs per response, as Date
  Order,        \* orders in which a provider may write the keys
  Client,       \* Ethereum client software run by the provider
  MaxAttempts,  \* outcalls until max_response_bytes is the largest
  Digest(_)     \* SHA-256 of a serialised log entry, as a number

ASSUME ReplicaAssumption == IsFiniteSet(Replica) /\ Replica # {}
ASSUME StatusAssumption == Status \subseteq Nat
ASSUME OrderAssumption == Order \subseteq STRING \ {"struct", "sorted"}
ASSUME AttemptAssumption == MaxAttempts \in Nat \ {0}

VARIABLES
  method,   \* what was called
  content,  \* what the provider knows, for a method that reads
  client,   \* the provider's software
  pool,     \* the state of the raw transaction at the provider
  raw,      \* the response each replica received
  cooked,   \* the same after the transform
  attempt,  \* number of the outcall
  verdict,  \* outcome of the outcall
  result    \* what the call makes of it

vars == <<method, content, client, pool, raw, cooked, attempt, verdict, result>>

-----------------------------------------------------------------------------
(***************************************************************************)
(* The types the answers are decoded into (responses.rs).  A missing or    *)
(* null optional field is None, a missing defaulted one its default, and a *)
(* missing or null required one fails the decoding, as does a null for a   *)
(* defaulted one.                                                          *)
(***************************************************************************)
Schema(required, optional, defaulted) ==
  [required |-> required, optional |-> optional, defaulted |-> defaulted,
   all |-> required \cup optional \cup defaulted]

TransactionReceipt == Schema(
  {"blockHash", "blockNumber", "effectiveGasPrice", "cumulativeGasUsed",
   "gasUsed", "transactionHash", "from", "logs", "logsBloom",
   "transactionIndex", "type"},
  {"status", "root", "contractAddress", "to"}, {})

LogEntry == Schema(
  {"address", "topics", "data"},
  {"blockNumber", "transactionHash", "transactionIndex", "blockHash",
   "logIndex"},
  {"removed"})

Block == Schema(
  {"number", "extraData", "gasLimit", "gasUsed", "hash", "logsBloom", "miner",
   "mixHash", "nonce", "parentHash", "receiptsRoot", "sha3Uncles", "size",
   "stateRoot", "timestamp"},
  {"baseFeePerGas", "difficulty", "transactionsRoot"},
  {"transactions", "uncles"})

FeeHistory == Schema({"oldestBlock", "baseFeePerGas"}, {},
                     {"gasUsedRatio", "reward"})

SchemaOf(m) == CASE m = "eth_getLogs" -> LogEntry
                 [] m = "eth_getBlockByNumber" -> Block
                 [] m = "eth_feeHistory" -> FeeHistory
                 [] OTHER -> TransactionReceipt

(* serde_json::from_slice accepts the object as a value of the type. *)
Parses(S, o) ==
  /\ S.required \subseteq DOMAIN o
  /\ \A f \in (S.required \cup S.defaulted) \cap DOMAIN o : o[f] # "null"

Canonical(v) == IF v = "V" THEN "v" ELSE v

(* Mutant of Redact: a missing optional field stays missing. *)
RedactPresent(S, o) == [f \in S.all \cap DOMAIN o |-> Canonical(o[f])]

(* Decoding and encoding again keeps the fields of the type only. *)
Redact(S, o) ==
  [f \in S.all |-> IF f \in DOMAIN o THEN Canonical(o[f])
                   ELSE IF f \in S.optional THEN "null" ELSE "empty"]

Reorderings(s) == {q \in [DOMAIN s -> DOMAIN s] : IsInjective(q)}

(* Mutant of SortByHash: equal entries are merged. *)
SortDistinct(s) == SetToSortSeq(ToSet(s), LAMBDA a, b : Digest(a) < Digest(b))

SortByHash(s) ==
  LET order == CHOOSE q \in Reorderings(s) :
                 \A i, j \in DOMAIN s : i < j => Digest(s[q[i]]) <= Digest(s[q[j]])
  IN  [i \in DOMAIN s |-> s[order[i]]]

(* The decoded result of a body of the form "result": eth_getLogs answers
   with an array, the other methods with an object. *)
ResultParses(m, v) ==
  IF m = "eth_getLogs" THEN \A i \in DOMAIN v : Parses(LogEntry, v[i])
  ELSE Parses(SchemaOf(m), v)
Decode(m, v) ==
  IF m = "eth_getLogs" THEN [i \in DOMAIN v |-> Redact(LogEntry, v[i])]
  ELSE Redact(SchemaOf(m), v)

-----------------------------------------------------------------------------
(***************************************************************************)
(* Errors of eth_sendRawTransaction.  A message is named by the phrase in  *)
(* it that matters, its spaces as underscores; every parser lower-cases    *)
(* the message before it looks for its phrases.                            *)
(***************************************************************************)
ToLowercase(message) ==
  CASE message = "AlreadyKnown" -> "alreadyknown"
    [] message = "InsufficientFunds" -> "insufficientfunds"
    [] message = "OldNonce" -> "oldnonce"
    [] message = "NonceGap" -> "noncegap"
    [] message = "Known_transaction" -> "known_transaction"
    [] message = "Out_of_gas" -> "out_of_gas"
    [] message = "Nonce_too_low" -> "nonce_too_low"
    [] message = "Nonce_too_high" -> "nonce_too_high"
    [] OTHER -> message

Rule(code, phrase, error) == [code |-> code, phrase |-> phrase, error |-> error]

GoEthereumParser == <<
  Rule(-32000, "already_known", "AlreadyKnown"),
  Rule(-32000, "insufficient_funds", "InsufficientFunds"),
  Rule(-32000, "nonce_too_low", "NonceTooLow"),
  Rule(-32000, "nonce_too_high", "NonceTooHigh")>>
NethermindParser == <<
  Rule(-32010, "AlreadyKnown", "AlreadyKnown"),
  Rule(-32010, "InsufficientFunds", "InsufficientFunds"),
  Rule(-32010, "OldNonce", "NonceTooLow"),
  Rule(-32010, "NonceGap", "NonceTooHigh")>>
ErigonParser == <<
  Rule(-32000, "already_known", "AlreadyKnown"),
  Rule(-32000, "insufficient_funds", "InsufficientFunds"),
  Rule(-32000, "nonce_too_low", "NonceTooLow")>>

(* Mutant of BesuParser: a known transaction is taken for a replayed one. *)
BesuReplay == <<Rule(-32000, "known_transaction", "NonceTooLow"),
                Rule(-32001, "nonce_too_low", "NonceTooLow")>>

BesuParser == <<
  Rule(-32000, "known_transaction", "AlreadyKnown"),
  Rule(-32000, "out_of_gas", "InsufficientFunds"),
  Rule(-32001, "nonce_too_low", "NonceTooLow"),
  Rule(-32006, "nonce_too_high", "NonceTooHigh")>>

Parser == GoEthereumParser \o NethermindParser \o ErigonParser \o BesuParser

(* The first rule that matches decides (find_map over the parsers). *)
TryParse(code, message) ==
  LET i == SelectInSeq(Parser, LAMBDA r : /\ r.code = code
                                          /\ r.phrase = ToLowercase(message))
  IN  IF i = 0 THEN "None" ELSE Parser[i].error

-----------------------------------------------------------------------------
(***************************************************************************)
(* Bodies and the transform.                                               *)
(***************************************************************************)
ResultBody(order, v) == [form |-> "result", order |-> order, value |-> v]
ErrorBody(order, code, message) ==
  [form |-> "error", order |-> order, code |-> code, message |-> message]
StatusBody(s) == [form |-> "status", value |-> s]  \* SendRawTransactionResult
TextBody == [form |-> "text"]                      \* no JSON-RPC response

(* Mutant of Sanitize: a transaction known already stays an error. *)
SanitizeKnownAsError(body) ==
  CASE body.form = "result" -> StatusBody("Ok")
    [] body.form = "error" ->
         LET e == TryParse(body.code, body.message)
         IN  IF e \in {"None", "AlreadyKnown"}
             THEN ErrorBody("struct", body.code, body.message)
             ELSE StatusBody(e)
    [] OTHER -> body

(* sanitize_send_raw_transaction_result: a success and a transaction known
   already are the same answer, the errors understood become answers, and
   other errors are kept. *)
Sanitize(body) ==
  CASE body.form = "result" -> StatusBody("Ok")
    [] body.form = "error" ->
         LET e == TryParse(body.code, body.message)
         IN  IF e = "None" THEN ErrorBody("struct", body.code, body.message)
             ELSE StatusBody(IF e = "AlreadyKnown" THEN "Ok" ELSE e)
    [] OTHER -> body

(* redact_response and redact_collection_response: a body that is no
   response of the type is left as it is. *)
RedactBody(m, body) ==
  CASE body.form = "error" -> ErrorBody("struct", body.code, body.message)
    [] body.form = "result" /\ ResultParses(m, body.value) ->
         LET v == Decode(m, body.value)
         IN  ResultBody("struct", IF m = "eth_getLogs" THEN SortByHash(v) ELSE v)
    [] OTHER -> body

(* HttpResponsePayload::response_transform of the type each method decodes
   into.  A receipt is decoded into an Option, which has no transform. *)
HasTransform(m) == m \in {"eth_getLogs", "eth_getBlockByNumber",
                          "eth_feeHistory", "eth_sendRawTransaction"}

Apply(m, body) ==
  IF m = "eth_sendRawTransaction" THEN Sanitize(body) ELSE RedactBody(m, body)

Cooked(status, body) == [status |-> status, headers |-> "none", body |-> body]

(* cleanup_response: the headers go, the body of a 2xx response of a method
   with a transform is transformed. *)
CleanupResponse(m, r) ==
  Cooked(r.status, IF r.status \in 200..299 /\ HasTransform(m)
                   THEN Apply(m, r.body) ELSE r.body)

(* Mutant of TransformHttpRequest: the body is passed on as it came. *)
DropHeaders(r) == Cooked(r.status, r.body)

(* transform_http_request of the request endpoint: canonicalize_json writes
   the keys in one order and keeps everything else. *)
TransformHttpRequest(r) ==
  Cooked(r.status, IF r.body.form = "text" THEN r.body
                   ELSE [r.body EXCEPT !.order = "sorted"])

-----------------------------------------------------------------------------
(***************************************************************************)
(* The provider.                                                           *)
(***************************************************************************)
Full(S) == [f \in S.all |-> "v"]
Bare(S) == [f \in S.all |-> IF f \in S.required THEN "v"
                            ELSE IF f \in S.optional THEN "null" ELSE "empty"]
(* The two log entries of the content have different hashes. *)
ASSUME DigestAssumption ==
  /\ {Digest(Full(LogEntry)), Digest(Bare(LogEntry))} \subseteq Nat
  /\ Digest(Full(LogEntry)) # Digest(Bare(LogEntry))

(* A required field is null, as the hash of a pending block. *)
Incomplete(S) == [Bare(S) EXCEPT ![CHOOSE f \in S.required : TRUE] = "null"]

Values(m) ==
  LET S == SchemaOf(m)
  IN  IF m = "eth_getLogs"
      THEN SeqOf({Full(S), Bare(S)}, 2) \cup {<<Incomplete(S)>>}
      ELSE {Full(S), Bare(S), Incomplete(S)}

Content(m) ==
  {ResultBody("struct", v) : v \in Values(m)} \cup
  {ErrorBody("struct", -32005, "limit_exceeded"), TextBody}

(* How a node of the provider writes an object: whether it leaves out what
   is null or empty, adds a field of its own, and spells in upper case. *)
Style == [omit : BOOLEAN, extra : BOOLEAN, upper : BOOLEAN]
Written(S, o, p) ==
  LET blank == {f \in S.optional \cup S.defaulted : o[f] \in {"null", "empty"}}
      keys == (S.all \ (IF p.omit THEN blank ELSE {})) \cup
              (IF p.extra THEN {"extension"} ELSE {})
  IN  [f \in keys |-> IF f = "extension" THEN "v"
                      ELSE IF o[f] = "v" /\ p.upper THEN "V" ELSE o[f]]

Spellings(m, v) ==
  LET S == SchemaOf(m)
  IN  IF m # "eth_getLogs" THEN {Written(S, v, p) : p \in Style}
      ELSE {[i \in DOMAIN v |-> Written(S, v[q[i]], p)] :
              q \in Reorderings(v), p \in Style}

(* The bodies in which a provider may send its content. *)
Encodings(m, c) ==
  CASE c.form = "text" -> {c}
    [] c.form = "error" -> {[c EXCEPT !.order = o] : o \in Order}
    [] OTHER -> {ResultBody(o, v) : o \in Order, v \in Spellings(m, c.value)}

(* Why a transaction in this state is not accepted as new: the error of
   each client.  Erigon keeps a transaction with a nonce gap. *)
Refusal(k, state) ==
  LET E(code, message) == ErrorBody("struct", code, message)
      By(nethermind, besu, others) == IF k = "Nethermind" THEN nethermind
                                      ELSE IF k = "Besu" THEN besu ELSE others
  IN  CASE state = "pending" -> By(E(-32010, "AlreadyKnown"),
                                   E(-32000, "Known_transaction"),
                                   E(-32000, "already_known"))
        [] state = "mined" -> By(E(-32010, "OldNonce"),
                                 E(-32001, "Nonce_too_low"),
                                 E(-32000, "nonce_too_low"))
        [] state = "unfunded" -> By(E(-32010, "InsufficientFunds"),
                                    E(-32000, "Out_of_gas"),
                                    E(-32000, "insufficient_funds"))
        [] state = "gap" -> By(E(-32010, "NonceGap"),
                               E(-32006, "Nonce_too_high"),
                               E(-32000, "nonce_too_high"))
        [] OTHER -> E(-32603, "internal_error")

Accepts(k, state) == \/ state = "fresh"
                     \/ state = "gap" /\ k = "Erigon"

-----------------------------------------------------------------------------
NoResponse == [status |-> 0, headers |-> "none", body |-> TextBody]
Waiting == [kind |-> "waiting"]

Init ==
  /\ method \in Method
  /\ \/ /\ method = "eth_sendRawTransaction"
        /\ content = TextBody
        /\ pool \in {"fresh", "unfunded", "gap", "down"}
        /\ client \in Client
     \/ /\ method # "eth_sendRawTransaction"
        /\ content \in Content(method)
        /\ pool = "none"
        /\ client = "any"
  /\ raw = [r \in Replica |-> NoResponse]
  /\ cooked = [r \in Replica |-> NoResponse]
  /\ attempt = 1
  /\ verdict = Waiting
  /\ result = Waiting

(* The provider answers the request of a replica. *)
Fetch(r) ==
  /\ verdict = Waiting
  /\ raw[r] = NoResponse
  /\ \E status \in Status, header \in Header :
       \E body \in IF method # "eth_sendRawTransaction"
                   THEN Encodings(method, content)
                   ELSE IF Accepts(client, pool)
                   THEN {ResultBody("struct", [hash |-> "v"])}
                   ELSE {Refusal(client, pool)} :
         raw' = [raw EXCEPT ![r] = [status |-> status, headers |-> header,
                                    body |-> body]]
  /\ pool' = IF method = "eth_sendRawTransaction" /\ Accepts(client, pool)
             THEN "pending" ELSE pool
  /\ UNCHANGED <<method, content, client, cooked, attempt, verdict, result>>

(* A block with the transaction is produced. *)
Mine ==
  /\ pool = "pending"
  /\ pool' = "mined"
  /\ UNCHANGED <<method, content, client, raw, cooked, attempt, verdict, result>>

(* The transform query runs on a replica. *)
Transform(r) ==
  /\ verdict = Waiting
  /\ raw[r] # NoResponse
  /\ cooked[r] = NoResponse
  /\ cooked' = [cooked EXCEPT ![r] = IF method = "request"
                                     THEN TransformHttpRequest(raw[r])
                                     ELSE CleanupResponse(method, raw[r])]
  /\ UNCHANGED <<method, content, client, pool, raw, attempt, verdict, result>>

Done == {r \in Replica : cooked[r] # NoResponse}
Quorum == Cardinality(Replica) - (Cardinality(Replica) - 1) \div 3
Supporters(x) == {r \in Done : cooked[r] = x}

(* A quorum of replicas has the same transformed response. *)
Agree ==
  /\ verdict = Waiting
  /\ \E r \in Done :
       /\ Cardinality(Supporters(cooked[r])) >= Quorum
       /\ verdict' = [kind |-> "response", response |-> cooked[r]]
  /\ UNCHANGED <<method, content, client, pool, raw, cooked, attempt, result>>

(* No response can gather a quorum any more. *)
Disagree ==
  /\ verdict = Waiting
  /\ Done = Replica
  /\ \A r \in Done : Cardinality(Supporters(cooked[r])) < Quorum
  /\ verdict' = [kind |-> "noConsensus"]
  /\ UNCHANGED <<method, content, client, pool, raw, cooked, attempt, result>>

(* The response was larger than max_response_bytes.  The retry layer of the
   eth_* endpoints doubles the size, until it is the largest allowed, and all
   replicas send the request once more. *)
TooLarge ==
  /\ verdict = Waiting
  /\ \E r \in Replica : raw[r] # NoResponse
  /\ IF method # "request" /\ attempt < MaxAttempts
     THEN /\ attempt' = attempt + 1
          /\ raw' = [r \in Replica |-> NoResponse]
          /\ cooked' = [r \in Replica |-> NoResponse]
          /\ UNCHANGED verdict
     ELSE /\ verdict' = [kind |-> "tooLarge"]
          /\ UNCHANGED <<attempt, raw, cooked>>
  /\ UNCHANGED <<method, content, client, pool, result>>

(* What the call makes of the agreed response: the status is filtered, the
   JSON is decoded, and the sanitised answer of eth_sendRawTransaction is
   converted for the caller. *)
Decoded(m, response) ==
  LET body == response.body
  IN  IF m = "request" THEN [kind |-> "text", value |-> body]
      ELSE IF response.status \notin 200..299 THEN [kind |-> "httpError"]
      ELSE CASE body.form = "error" -> [kind |-> "jsonRpcError", code |-> body.code]
             [] body.form = "status" -> [kind |-> body.value]
             [] body.form = "result" /\ ResultParses(m, body.value) ->
                  [kind |-> "ok", value |-> Decode(m, body.value)]
             [] OTHER -> [kind |-> "invalidJson"]

Reply ==
  /\ verdict # Waiting
  /\ result = Waiting
  /\ result' = IF verdict.kind # "response" THEN [kind |-> "icError"]
               ELSE Decoded(method, verdict.response)
  /\ UNCHANGED <<method, content, client, pool, raw, cooked, attempt, verdict>>

Next ==
  \/ \E r \in Replica : Fetch(r) \/ Transform(r)
  \/ Mine
  \/ Agree
  \/ Disagree
  \/ TooLarge
  \/ Reply

Spec == Init /\ [][Next]_vars

-----------------------------------------------------------------------------
(* The provider sent a 2xx response with a value of the type asked for. *)
Complete(r) ==
  /\ raw[r].status \in 200..299
  /\ content.form = "result"
  /\ ResultParses(method, content.value)

SameResponse(r1, r2) == cooked[r1].status = cooked[r2].status =>
                          cooked[r1] = cooked[r2]

SameButForKeyOrder(r1, r2) ==
  \/ raw[r1].body = raw[r2].body
  \/ /\ raw[r1].body.form \in {"result", "error"}
     /\ raw[r1].body = [raw[r2].body EXCEPT !.order = raw[r1].body.order]

(***************************************************************************)
(* Replicas that were sent the same blocks, logs, fees or errors in        *)
(* whatever encoding have the same response after cleanup_response, and so *)
(* do those that were sent the same body of any method and status under    *)
(* other headers.                                                          *)
(***************************************************************************)
EncodingsAgree ==
  method # "request" =>
    \A r1, r2 \in Done :
      \/ raw[r1].body = raw[r2].body
      \/ /\ method \in {"eth_getLogs", "eth_getBlockByNumber", "eth_feeHistory"}
         /\ \/ Complete(r1)
            \/ raw[r1].status \in 200..299 /\ content.form = "error"
      => SameResponse(r1, r2)

(***************************************************************************)
(* The request endpoint promises less: replicas whose bodies differ in the *)
(* order of the keys only have the same response, for every status and     *)
(* whatever the headers were (transform_http_request).                     *)
(***************************************************************************)
KeyOrderHidden ==
  method = "request" =>
    \A r1, r2 \in Done : SameButForKeyOrder(r1, r2) => SameResponse(r1, r2)

(***************************************************************************)
(* The transform loses nothing the call decodes: a complete answer still   *)
(* decodes after it, to what the provider sent, except that logs may come  *)
(* in another order (each as often as before).                             *)
(***************************************************************************)
ContentKept ==
  method \notin {"request", "eth_sendRawTransaction"} =>
    \A r \in Done : Complete(r) =>
      LET d == Decoded(method, cooked[r])
      IN  /\ d.kind = "ok"
          /\ IF method # "eth_getLogs" THEN d.value = content.value
             ELSE \A e \in ToSet(content.value) \cup ToSet(d.value) :
                    Cardinality({i \in DOMAIN d.value : d.value[i] = e}) =
                    Cardinality({i \in DOMAIN content.value : content.value[i] = e})

(***************************************************************************)
(* eth_sendRawTransaction looks idempotent: whichever replica comes first, *)
(* and however often the outcall is retried, all of them have the same     *)
(* response as long as the transaction is not in a block.                  *)
(***************************************************************************)
ReplayHidden ==
  method = "eth_sendRawTransaction" /\ pool # "mined" =>
    \A r1, r2 \in Done : raw[r1].status \in 200..299 => SameResponse(r1, r2)

(***************************************************************************)
(* What the caller is told of its transaction is true: Ok means that the   *)
(* provider has it, a nonce too low that the nonce is used, and any other  *)
(* refusal that no replica of no attempt got it accepted.                  *)
(***************************************************************************)
StatusTruthful ==
  method = "eth_sendRawTransaction" =>
    /\ result.kind = "Ok" => pool \in {"pending", "mined"}
    /\ result.kind = "NonceTooLow" => pool = "mined"
    /\ result.kind \in {"InsufficientFunds", "NonceTooHigh", "jsonRpcError"} =>
         pool \in {"unfunded", "gap", "down"}
=============================================================================
