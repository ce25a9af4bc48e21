----------------------- MODULE ResponseTransformProofs -----------------------
(***************************************************************************)
(* Proofs about ResponseTransform: what the transforms hide from the       *)
(* replicas, and what the caller of eth_sendRawTransaction is told, for    *)
(* any number of replicas and attempts, any statuses, headers and key      *)
(* orders, and every client whose errors the parsers recognise.            *)
(***************************************************************************)
EXTENDS ResponseTransform, SequenceTheorems, FiniteSetTheorems,
        WellFoundedInduction, TLAPS

-----------------------------------------------------------------------------
(* The inductive invariant, in named parts. *)

(* Both transforms, as a replica chooses between them. *)
Transformed(m, x) == IF m = "request" THEN TransformHttpRequest(x)
                     ELSE CleanupResponse(m, x)

(* A replica transforms what it received, and nothing else. *)
TransformsApplied ==
  /\ DOMAIN raw = Replica
  /\ DOMAIN cooked = Replica
  /\ \A r \in Replica : cooked[r] # NoResponse =>
       raw[r] # NoResponse /\ cooked[r] = Transformed(method, raw[r])

(* A method that reads is answered with an encoding of the content. *)
ContentSent ==
  method # "eth_sendRawTransaction" =>
    /\ content \in Content(method)
    /\ \A r \in Replica : raw[r] # NoResponse =>
         raw[r].body \in Encodings(method, content)

(* The bodies a client that keeps the raw transaction in this state may have
   sent, to a replica of this attempt or before. *)
Accepted == ResultBody("struct", [hash |-> "v"])
Refused == {"unfunded", "gap", "down"}
Sent(b, k, state) ==
  \/ state \in Refused /\ ~Accepts(k, state) /\ b = Refusal(k, state)
  \/ state \in {"pending", "mined"} /\ b \in {Accepted, Refusal(k, "pending")}
  \/ state = "mined" /\ b = Refusal(k, "mined")

(* The answers to a raw transaction fit the state it is in by now. *)
TransactionSent ==
  method = "eth_sendRawTransaction" =>
    /\ pool \in Refused \cup {"fresh", "pending", "mined"}
    /\ \A r \in Replica : raw[r] # NoResponse => Sent(raw[r].body, client, pool)

(* The outcome is a response some replica has, and the result decodes it. *)
OutcomeBacked ==
  /\ \/ verdict = Waiting
     \/ verdict.kind \in {"noConsensus", "tooLarge"}
     \/ verdict.kind = "response" /\ \E r \in Done : verdict.response = cooked[r]
  /\ \/ result = Waiting
     \/ result = [kind |-> "icError"]
     \/ /\ verdict.kind = "response"
        /\ result = Decoded(method, verdict.response)

ExchangeInv == TransformsApplied /\ ContentSent /\ TransactionSent /\ OutcomeBacked

-----------------------------------------------------------------------------
(* The invariant is preserved. *)

(* One call to one provider is followed. *)
LEMMA CallFixed == [Next]_vars => UNCHANGED <<method, content, client>>
  BY DEF Next, vars, Fetch, Transform, Mine, Agree, Disagree, TooLarge, Reply

(* Raw responses come from Fetch, transformed ones from Transform; a retry
   forgets both. *)
LEMMA NextTransforms ==
  TransformsApplied /\ [Next]_vars => TransformsApplied'
  <1> SUFFICES ASSUME TransformsApplied, [Next]_vars
               PROVE  TransformsApplied'
    OBVIOUS
  <1> USE DEF TransformsApplied
  <1>1. ASSUME NEW r \in Replica, Fetch(r)
        PROVE  TransformsApplied'
    <2>1. PICK x : raw' = [raw EXCEPT ![r] = x]
      BY <1>1 DEF Fetch
    <2>2. cooked[r] = NoResponse /\ UNCHANGED <<method, cooked>>
      BY <1>1 DEF Fetch
    <2> QED
      BY <2>1, <2>2
  <1>2. ASSUME NEW r \in Replica, Transform(r)
        PROVE  TransformsApplied'
    <2>1. cooked' = [cooked EXCEPT ![r] = Transformed(method, raw[r])]
      BY <1>2 DEF Transform, Transformed
    <2>2. raw[r] # NoResponse /\ UNCHANGED <<method, raw>>
      BY <1>2 DEF Transform
    <2> QED
      BY <2>1, <2>2
  <1>3. CASE TooLarge
    <2>1. \/ UNCHANGED <<raw, cooked, method>>
          \/ /\ raw' = [r \in Replica |-> NoResponse]
             /\ cooked' = [r \in Replica |-> NoResponse]
      BY <1>3 DEF TooLarge
    <2> QED
      BY <2>1
  <1>4. CASE UNCHANGED <<raw, cooked, method>>
    BY <1>4
  <1>5. Mine \/ Agree \/ Disagree \/ Reply \/ UNCHANGED vars
          => UNCHANGED <<raw, cooked, method>>
    BY DEF Mine, Agree, Disagree, Reply, vars
  <1> QED
    BY <1>1, <1>2, <1>3, <1>4, <1>5 DEF Next

(* A method that reads always gets an encoding of the same content. *)
LEMMA NextContent ==
  TransformsApplied /\ ContentSent /\ [Next]_vars => ContentSent'
  <1> SUFFICES ASSUME TransformsApplied, ContentSent, [Next]_vars,
                      method # "eth_sendRawTransaction"
               PROVE  ContentSent'
    BY CallFixed DEF ContentSent
  <1>1. UNCHANGED <<method, content>>
    BY CallFixed
  <1> USE DEF ContentSent
  <1>2. DOMAIN raw = Replica
    BY DEF TransformsApplied
  <1>3. ASSUME NEW r \in Replica, Fetch(r)
        PROVE  ContentSent'
    <2>1. PICK x : /\ raw' = [raw EXCEPT ![r] = x]
                   /\ x.body \in Encodings(method, content)
      <3>1. PICK status \in Status, header \in Header :
              \E body \in Encodings(method, content) :
                raw' = [raw EXCEPT ![r] = [status |-> status,
                                           headers |-> header, body |-> body]]
        BY <1>3 DEF Fetch
      <3>2. PICK body \in Encodings(method, content) :
              raw' = [raw EXCEPT ![r] = [status |-> status,
                                         headers |-> header, body |-> body]]
        BY <3>1
      <3> DEFINE y == [status |-> status, headers |-> header, body |-> body]
      <3>3. y.body = body
        OBVIOUS
      <3>4. raw' = [raw EXCEPT ![r] = y]
        BY <3>2
      <3> HIDE DEF y
      <3> QED
        BY <3>3, <3>4
    <2>2. \A q \in Replica : q # r => raw'[q] = raw[q]
      BY <1>2, <2>1
    <2>3. raw'[r] = x
      BY <1>2, <2>1
    <2> QED
      BY <1>1, <2>1, <2>2, <2>3
  <1>4. CASE TooLarge
    <2>1. \/ UNCHANGED raw
          \/ raw' = [r \in Replica |-> NoResponse]
      BY <1>4 DEF TooLarge
    <2> QED
      BY <1>1, <2>1
  <1>5. CASE UNCHANGED raw
    BY <1>1, <1>5
  <1>6. (\E r \in Replica : Transform(r)) \/ Mine \/ Agree \/ Disagree \/ Reply
          \/ UNCHANGED vars => UNCHANGED raw
    BY DEF Transform, Mine, Agree, Disagree, Reply, vars
  <1> QED
    BY <1>3, <1>4, <1>5, <1>6 DEF Next

(* What was sent stays possible when a block with the transaction is made. *)
LEMMA SentStays ==
  ASSUME NEW b, NEW k, Sent(b, k, "pending")
  PROVE  Sent(b, k, "mined")
  BY DEF Sent, Refused

(* The first request of a new transaction makes it pending, the later ones
   are refused for what it is by then. *)
LEMMA NextTransaction ==
  TransformsApplied /\ TransactionSent /\ [Next]_vars => TransactionSent'
  <1> SUFFICES ASSUME TransformsApplied, TransactionSent, [Next]_vars,
                      method = "eth_sendRawTransaction"
               PROVE  TransactionSent'
    BY CallFixed DEF TransactionSent
  <1>1. UNCHANGED <<method, client>>
    BY CallFixed
  <1> USE DEF TransactionSent
  <1>2. DOMAIN raw = Replica
    BY DEF TransformsApplied
  <1>3. ASSUME NEW r \in Replica, Fetch(r)
        PROVE  TransactionSent'
    <2>1. PICK status \in Status, header \in Header :
            raw' = [raw EXCEPT ![r] = [status |-> status, headers |-> header,
                      body |-> IF Accepts(client, pool) THEN Accepted
                               ELSE Refusal(client, pool)]]
      BY <1>3 DEF Fetch, Accepted
    <2>2. PICK x : /\ raw' = [raw EXCEPT ![r] = x]
                   /\ x.body = IF Accepts(client, pool) THEN Accepted
                               ELSE Refusal(client, pool)
      <3> DEFINE b == IF Accepts(client, pool) THEN Accepted
                      ELSE Refusal(client, pool)
                 y == [status |-> status, headers |-> header, body |-> b]
      <3>1. y.body = b
        OBVIOUS
      <3>2. raw' = [raw EXCEPT ![r] = y]
        BY <2>1
      <3> HIDE DEF y
      <3> QED
        BY <3>1, <3>2
    <2>3. raw'[r] = x /\ \A q \in Replica : q # r => raw'[q] = raw[q]
      BY <1>2, <2>2
    <2>4. CASE Accepts(client, pool)
      <3>1. pool' = "pending" /\ x.body = Accepted
        BY <1>3, <2>2, <2>4 DEF Fetch
      <3>2. \A q \in Replica : raw[q] = NoResponse
        BY <2>4 DEF Sent, Accepts, Refused
      <3> QED
        BY <1>1, <2>3, <3>1, <3>2 DEF Sent
    <2>5. CASE ~Accepts(client, pool)
      <3>1. pool' = pool /\ x.body = Refusal(client, pool) /\ pool # "fresh"
        BY <1>3, <2>2, <2>5 DEF Fetch, Accepts
      <3>2. Sent(x.body, client, pool)
        BY <2>5, <3>1 DEF Sent, Refused
      <3> QED
        BY <1>1, <2>3, <3>1, <3>2
    <2> QED
      BY <2>4, <2>5
  <1>4. CASE Mine
    <2>1. pool = "pending" /\ pool' = "mined" /\ UNCHANGED raw
      BY <1>4 DEF Mine
    <2> QED
      BY <1>1, <2>1, SentStays
  <1>5. CASE TooLarge
    <2>1. /\ UNCHANGED pool
          /\ UNCHANGED raw \/ raw' = [r \in Replica |-> NoResponse]
      BY <1>5 DEF TooLarge
    <2> QED
      BY <1>1, <2>1
  <1>6. CASE UNCHANGED <<raw, pool>>
    BY <1>1, <1>6
  <1>7. (\E r \in Replica : Transform(r)) \/ Agree \/ Disagree \/ Reply
          \/ UNCHANGED vars => UNCHANGED <<raw, pool>>
    BY DEF Transform, Agree, Disagree, Reply, vars
  <1> QED
    BY <1>3, <1>4, <1>5, <1>6, <1>7 DEF Next

(* Nothing is fetched or transformed once there is an outcome. *)
LEMMA NextOutcome ==
  OutcomeBacked /\ [Next]_vars => OutcomeBacked'
  <1> SUFFICES ASSUME OutcomeBacked, [Next]_vars
               PROVE  OutcomeBacked'
    OBVIOUS
  <1>1. UNCHANGED method
    BY CallFixed
  <1> USE DEF OutcomeBacked
  <1>2. CASE UNCHANGED <<cooked, verdict, result>>
    BY <1>1, <1>2 DEF Done
  <1>3. CASE verdict = Waiting /\ UNCHANGED <<verdict, result>>
    BY <1>1, <1>3 DEF Waiting
  <1>4. CASE Agree
    <2>1. PICK r \in Done : verdict' = [kind |-> "response", response |-> cooked[r]]
      BY <1>4 DEF Agree
    <2>2. verdict = Waiting /\ UNCHANGED <<cooked, result>>
      BY <1>4 DEF Agree
    <2>3. result = Waiting \/ result = [kind |-> "icError"]
      BY <2>2 DEF Waiting
    <2> QED
      BY <2>1, <2>2, <2>3 DEF Done
  <1>5. CASE Disagree
    BY <1>5 DEF Disagree, Waiting
  <1>6. CASE TooLarge
    BY <1>3, <1>6 DEF TooLarge, Waiting
  <1>7. CASE Reply
    BY <1>1, <1>7 DEF Reply, Waiting, Done
  <1>8. (\E r \in Replica : Fetch(r) \/ Transform(r)) =>
          verdict = Waiting /\ UNCHANGED <<verdict, result>>
    BY DEF Fetch, Transform
  <1>9. Mine \/ UNCHANGED vars => UNCHANGED <<cooked, verdict, result>>
    BY DEF Mine, vars
  <1> QED
    BY <1>2, <1>3, <1>4, <1>5, <1>6, <1>7, <1>8, <1>9 DEF Next

(***************************************************************************)
(* Every replica keeps the transform of what its own request was answered, *)
(* which is an encoding of the content or fits the state of the raw        *)
(* transaction, and the outcome and the result come from such a response.  *)
(***************************************************************************)
THEOREM ExchangeInductive == Spec => []ExchangeInv
  <1>1. Init => ExchangeInv
    <2> SUFFICES ASSUME Init
                 PROVE  ExchangeInv
      OBVIOUS
    <2>1. TransformsApplied
      BY DEF Init, TransformsApplied
    <2>2. ContentSent
      BY DEF Init, ContentSent
    <2>3. TransactionSent
      BY DEF Init, TransactionSent, Refused
    <2>4. OutcomeBacked
      BY DEF Init, OutcomeBacked
    <2> QED
      BY <2>1, <2>2, <2>3, <2>4 DEF ExchangeInv
  <1>2. ExchangeInv /\ [Next]_vars => ExchangeInv'
    BY NextTransforms, NextContent, NextTransaction, NextOutcome DEF ExchangeInv
  <1> QED
    BY <1>1, <1>2, PTL DEF Spec

-----------------------------------------------------------------------------
(* What the two transforms do with equal bodies. *)

(* The transformed response depends on the status and the body only. *)
LEMMA SameBodySameResponse ==
  ASSUME NEW m, NEW x, NEW y, x.body = y.body, x.status = y.status
  PROVE  Transformed(m, x) = Transformed(m, y)
  BY DEF Transformed, TransformHttpRequest, CleanupResponse, Cooked

(* The status is passed on. *)
LEMMA StatusKept ==
  ASSUME NEW m, NEW x
  PROVE  Transformed(m, x).status = x.status
  BY DEF Transformed, TransformHttpRequest, CleanupResponse, Cooked

(* What providers write is text or an object with its keys in some order. *)
Shape(b) == \/ b = TextBody
            \/ \E o, v : b = ResultBody(o, v)
            \/ \E o, code, message : b = ErrorBody(o, code, message)

(* A provider's encodings of its content have one of these shapes. *)
LEMMA EncodingShape ==
  ASSUME NEW m, NEW c \in Content(m), NEW b \in Encodings(m, c)
  PROVE  Shape(b)
  <1>1. CASE c = TextBody
    BY <1>1 DEF Encodings, TextBody, Shape
  <1>2. ASSUME NEW code, NEW message, c = ErrorBody("struct", code, message)
        PROVE  Shape(b)
    <2>1. PICK o \in Order : b = [c EXCEPT !.order = o]
      BY <1>2 DEF Encodings, ErrorBody
    <2>2. b = ErrorBody(o, code, message)
      BY <1>2, <2>1 DEF ErrorBody
    <2> QED
      BY <2>2 DEF Shape
  <1>3. CASE \E v : c = ResultBody("struct", v)
    <2>1. c.form = "result"
      BY <1>3 DEF ResultBody
    <2>2. Encodings(m, c) =
            {ResultBody(o, v) : o \in Order, v \in Spellings(m, c.value)}
      BY <2>1 DEF Encodings
    <2> QED
      BY <2>2 DEF Shape
  <1>4. \/ c = TextBody
        \/ c = ErrorBody("struct", -32005, "limit_exceeded")
        \/ \E v : c = ResultBody("struct", v)
    BY SMT DEF Content
  <1> QED
    BY <1>1, <1>2, <1>3, <1>4

(* canonicalize_json forgets the order of the keys. *)
LEMMA OrderForgotten ==
  ASSUME NEW b, NEW c, Shape(b), Shape(c),
         b.form \in {"result", "error"}, b = [c EXCEPT !.order = b.order]
  PROVE  /\ c.form = b.form
         /\ [b EXCEPT !.order = "sorted"] = [c EXCEPT !.order = "sorted"]
  <1>1. CASE c = TextBody
    BY <1>1 DEF TextBody
  <1>2. CASE \E o, v : c = ResultBody(o, v)
    <2>1. PICK o, v : c = ResultBody(o, v)
      BY <1>2
    <2>2. PICK p : p = b.order
      OBVIOUS
    <2>3. b = ResultBody(p, v)
      BY <2>1, <2>2 DEF ResultBody
    <2> QED
      BY <2>1, <2>3 DEF ResultBody
  <1>3. CASE \E o, code, message : c = ErrorBody(o, code, message)
    <2>1. PICK o, code, message : c = ErrorBody(o, code, message)
      BY <1>3
    <2>2. PICK p : p = b.order
      OBVIOUS
    <2>3. b = ErrorBody(p, code, message)
      BY <2>1, <2>2 DEF ErrorBody
    <2> QED
      BY <2>1, <2>3 DEF ErrorBody
  <1> QED
    BY <1>1, <1>2, <1>3 DEF Shape

(***************************************************************************)
(* Replicas of a request whose bodies differ in the order of the keys only *)
(* have the same response after transform_http_request.                    *)
(***************************************************************************)
THEOREM KeyOrderHiddenAlways == Spec => []KeyOrderHidden
  <1>1. ExchangeInv => KeyOrderHidden
    <2> SUFFICES ASSUME ExchangeInv, method = "request",
                        NEW r1 \in Done, NEW r2 \in Done,
                        SameButForKeyOrder(r1, r2),
                        cooked[r1].status = cooked[r2].status
                 PROVE  cooked[r1] = cooked[r2]
      BY DEF KeyOrderHidden, SameResponse
    <2>1. PICK x, y : x = raw[r1] /\ y = raw[r2]
      OBVIOUS
    <2>2. /\ cooked[r1] = Transformed(method, x)
          /\ cooked[r2] = Transformed(method, y)
          /\ x # NoResponse /\ y # NoResponse
      BY <2>1 DEF ExchangeInv, TransformsApplied, Done
    <2>3. x.status = y.status
      BY <2>2, StatusKept
    <2>4. Shape(x.body) /\ Shape(y.body)
      <3>1. /\ content \in Content(method)
            /\ x.body \in Encodings(method, content)
            /\ y.body \in Encodings(method, content)
        BY <2>1, <2>2 DEF ExchangeInv, ContentSent, Done
      <3> QED
        BY <3>1, EncodingShape
    <2>5. CASE x.body = y.body
      BY <2>2, <2>3, <2>5, SameBodySameResponse
    <2>6. CASE /\ x.body.form \in {"result", "error"}
               /\ x.body = [y.body EXCEPT !.order = x.body.order]
      <3>1. PICK b, c : b = x.body /\ c = y.body
        OBVIOUS
      <3>2. /\ c.form = b.form
            /\ [b EXCEPT !.order = "sorted"] = [c EXCEPT !.order = "sorted"]
        BY <2>4, <2>6, <3>1, OrderForgotten
      <3> QED
        BY <2>2, <2>3, <2>6, <3>1, <3>2
        DEF Transformed, TransformHttpRequest, Cooked
    <2> QED
      BY <2>1, <2>5, <2>6 DEF SameButForKeyOrder
  <1> QED
    BY <1>1, ExchangeInductive, PTL

-----------------------------------------------------------------------------
(* The parsers of errors, as a set of rules. *)

Has(s, x) == \E i \in 1..Len(s) : s[i] = x

(* A concatenation has the elements of both parts. *)
LEMMA HasConcat ==
  ASSUME NEW T, NEW s \in Seq(T), NEW t \in Seq(T)
  PROVE  /\ s \o t \in Seq(T)
         /\ \A x : Has(s \o t, x) <=> Has(s, x) \/ Has(t, x)
  <1>1. /\ s \o t \in Seq(T)
        /\ Len(s \o t) = Len(s) + Len(t)
        /\ \A i \in 1..Len(s) + Len(t) :
             (s \o t)[i] = IF i <= Len(s) THEN s[i] ELSE t[i - Len(s)]
        /\ Len(s) \in Nat /\ Len(t) \in Nat
    BY ConcatProperties
  <1>2. ASSUME NEW x, Has(s \o t, x)
        PROVE  Has(s, x) \/ Has(t, x)
    <2>1. PICK i \in 1..Len(s) + Len(t) : (s \o t)[i] = x
      BY <1>1, <1>2 DEF Has
    <2>2. CASE i <= Len(s)
      BY <1>1, <2>1, <2>2 DEF Has
    <2>3. CASE i > Len(s)
      <3>1. PICK j : j = i - Len(s)
        OBVIOUS
      <3>2. j \in 1..Len(t) /\ t[j] = x
        BY <1>1, <2>1, <2>3, <3>1
      <3> QED
        BY <3>2 DEF Has
    <2> QED
      BY <1>1, <2>1, <2>2, <2>3
  <1>3. ASSUME NEW x, Has(s, x)
        PROVE  Has(s \o t, x)
    <2>1. PICK i \in 1..Len(s) : s[i] = x
      BY <1>3 DEF Has
    <2>2. i \in 1..Len(s) + Len(t) /\ i <= Len(s)
      BY <1>1
    <2>3. i \in 1..Len(s \o t) /\ (s \o t)[i] = x
      BY <1>1, <2>1, <2>2
    <2> QED
      BY <2>3 DEF Has
  <1>4. ASSUME NEW x, Has(t, x)
        PROVE  Has(s \o t, x)
    <2>1. PICK i \in 1..Len(t) : t[i] = x
      BY <1>4 DEF Has
    <2>2. PICK j : j = i + Len(s)
      OBVIOUS
    <2>3. j \in 1..Len(s) + Len(t) /\ ~(j <= Len(s)) /\ j - Len(s) = i
      BY <1>1, <2>2
    <2>4. j \in 1..Len(s \o t) /\ (s \o t)[j] = x
      BY <1>1, <2>1, <2>3
    <2> QED
      BY <2>4 DEF Has
  <1> QED
    BY <1>1, <1>2, <1>3, <1>4

GoEthereumRules == {Rule(-32000, "already_known", "AlreadyKnown"),
                    Rule(-32000, "insufficient_funds", "InsufficientFunds"),
                    Rule(-32000, "nonce_too_low", "NonceTooLow"),
                    Rule(-32000, "nonce_too_high", "NonceTooHigh")}
NethermindRules == {Rule(-32010, "AlreadyKnown", "AlreadyKnown"),
                    Rule(-32010, "InsufficientFunds", "InsufficientFunds"),
                    Rule(-32010, "OldNonce", "NonceTooLow"),
                    Rule(-32010, "NonceGap", "NonceTooHigh")}
ErigonRules == {Rule(-32000, "already_known", "AlreadyKnown"),
                Rule(-32000, "insufficient_funds", "InsufficientFunds"),
                Rule(-32000, "nonce_too_low", "NonceTooLow")}
BesuRules == {Rule(-32000, "known_transaction", "AlreadyKnown"),
              Rule(-32000, "out_of_gas", "InsufficientFunds"),
              Rule(-32001, "nonce_too_low", "NonceTooLow"),
              Rule(-32006, "nonce_too_high", "NonceTooHigh")}
Rules == GoEthereumRules \cup NethermindRules \cup ErigonRules \cup BesuRules

(* A parser with four rules has these rules. *)
LEMMA FourRules ==
  ASSUME NEW T, NEW a \in T, NEW b \in T, NEW c \in T, NEW d \in T
  PROVE  /\ <<a, b, c, d>> \in Seq(T)
         /\ \A x : Has(<<a, b, c, d>>, x) <=> x \in {a, b, c, d}
  <1>1. <<a, b, c, d>> \in Seq(T)
    OBVIOUS
  <1>2. Len(<<a, b, c, d>>) = 4
    OBVIOUS
  <1>3. \A i \in 1..4 : i = 1 \/ i = 2 \/ i = 3 \/ i = 4
    OBVIOUS
  <1> QED
    BY <1>1, <1>2, <1>3 DEF Has

(* A parser with three rules has these rules. *)
LEMMA ThreeRules ==
  ASSUME NEW T, NEW a \in T, NEW b \in T, NEW c \in T
  PROVE  /\ <<a, b, c>> \in Seq(T)
         /\ \A x : Has(<<a, b, c>>, x) <=> x \in {a, b, c}
  <1>1. <<a, b, c>> \in Seq(T)
    OBVIOUS
  <1>2. Len(<<a, b, c>>) = 3
    OBVIOUS
  <1>3. \A i \in 1..3 : i = 1 \/ i = 2 \/ i = 3
    OBVIOUS
  <1> QED
    BY <1>1, <1>2, <1>3 DEF Has

(* The rules of all parsers, in their order, are these. *)
LEMMA ParserRules ==
  /\ Parser \in Seq(Rules)
  /\ \A x : Has(Parser, x) <=> x \in Rules
  <1>1. /\ GoEthereumParser \in Seq(Rules)
        /\ \A x : Has(GoEthereumParser, x) <=> x \in GoEthereumRules
    <2>1. PICK a, b, c, d :
            /\ a = Rule(-32000, "already_known", "AlreadyKnown")
            /\ b = Rule(-32000, "insufficient_funds", "InsufficientFunds")
            /\ c = Rule(-32000, "nonce_too_low", "NonceTooLow")
            /\ d = Rule(-32000, "nonce_too_high", "NonceTooHigh")
      OBVIOUS
    <2>2. GoEthereumParser = <<a, b, c, d>> /\ GoEthereumRules = {a, b, c, d}
      BY <2>1 DEF GoEthereumParser, GoEthereumRules
    <2>3. a \in Rules /\ b \in Rules /\ c \in Rules /\ d \in Rules
      BY <2>2 DEF Rules
    <2> QED
      BY <2>2, <2>3, FourRules
  <1>2. /\ NethermindParser \in Seq(Rules)
        /\ \A x : Has(NethermindParser, x) <=> x \in NethermindRules
    <2>1. PICK a, b, c, d :
            /\ a = Rule(-32010, "AlreadyKnown", "AlreadyKnown")
            /\ b = Rule(-32010, "InsufficientFunds", "InsufficientFunds")
            /\ c = Rule(-32010, "OldNonce", "NonceTooLow")
            /\ d = Rule(-32010, "NonceGap", "NonceTooHigh")
      OBVIOUS
    <2>2. NethermindParser = <<a, b, c, d>> /\ NethermindRules = {a, b, c, d}
      BY <2>1 DEF NethermindParser, NethermindRules
    <2>3. a \in Rules /\ b \in Rules /\ c \in Rules /\ d \in Rules
      BY <2>2 DEF Rules
    <2> QED
      BY <2>2, <2>3, FourRules
  <1>3. /\ ErigonParser \in Seq(Rules)
        /\ \A x : Has(ErigonParser, x) <=> x \in ErigonRules
    <2>1. PICK a, b, c :
            /\ a = Rule(-32000, "already_known", "AlreadyKnown")
            /\ b = Rule(-32000, "insufficient_funds", "InsufficientFunds")
            /\ c = Rule(-32000, "nonce_too_low", "NonceTooLow")
      OBVIOUS
    <2>2. ErigonParser = <<a, b, c>> /\ ErigonRules = {a, b, c}
      BY <2>1 DEF ErigonParser, ErigonRules
    <2>3. a \in Rules /\ b \in Rules /\ c \in Rules
      BY <2>2 DEF Rules
    <2> QED
      BY <2>2, <2>3, ThreeRules
  <1>4. /\ BesuParser \in Seq(Rules)
        /\ \A x : Has(BesuParser, x) <=> x \in BesuRules
    <2>1. PICK a, b, c, d :
            /\ a = Rule(-32000, "known_transaction", "AlreadyKnown")
            /\ b = Rule(-32000, "out_of_gas", "InsufficientFunds")
            /\ c = Rule(-32001, "nonce_too_low", "NonceTooLow")
            /\ d = Rule(-32006, "nonce_too_high", "NonceTooHigh")
      OBVIOUS
    <2>2. BesuParser = <<a, b, c, d>> /\ BesuRules = {a, b, c, d}
      BY <2>1 DEF BesuParser, BesuRules
    <2>3. a \in Rules /\ b \in Rules /\ c \in Rules /\ d \in Rules
      BY <2>2 DEF Rules
    <2> QED
      BY <2>2, <2>3, FourRules
  <1>5. PICK g, n, e, b : /\ g = GoEthereumParser /\ n = NethermindParser
                          /\ e = ErigonParser /\ b = BesuParser
    OBVIOUS
  <1>6. PICK gn : gn = g \o n
    OBVIOUS
  <1>7. /\ gn \in Seq(Rules)
        /\ \A x : Has(gn, x) <=> x \in GoEthereumRules \cup NethermindRules
    <2>1. /\ g \o n \in Seq(Rules)
          /\ \A x : Has(g \o n, x) <=> Has(g, x) \/ Has(n, x)
      BY <1>1, <1>2, <1>5, HasConcat
    <2> QED
      BY <1>1, <1>2, <1>5, <1>6, <2>1
  <1>8. PICK gne : gne = gn \o e
    OBVIOUS
  <1>9. /\ gne \in Seq(Rules)
        /\ \A x : Has(gne, x) <=>
             x \in GoEthereumRules \cup NethermindRules \cup ErigonRules
    <2>1. /\ gn \o e \in Seq(Rules)
          /\ \A x : Has(gn \o e, x) <=> Has(gn, x) \/ Has(e, x)
      BY <1>3, <1>5, <1>7, HasConcat
    <2> QED
      BY <1>3, <1>5, <1>7, <1>8, <2>1
  <1>10. /\ gne \o b \in Seq(Rules)
         /\ \A x : Has(gne \o b, x) <=> Has(gne, x) \/ Has(b, x)
    BY <1>4, <1>5, <1>9, HasConcat
  <1>11. Parser = gne \o b
    BY <1>5, <1>6, <1>8 DEF Parser
  <1> QED
    BY <1>4, <1>5, <1>9, <1>10, <1>11 DEF Rules

(* The smallest of some positions is one of them. *)
LEMMA MinIsMember ==
  ASSUME NEW I \in SUBSET Nat, I # {}
  PROVE  Min(I) \in I
  <1> DEFINE R == OpToRel(<, Nat)
  <1>1. IsWellFoundedOn(R, Nat)
    BY NatLessThanWellFounded
  <1>2. PICK u \in I : \A w \in I : ~(<<w, u>> \in R)
    <2> HIDE DEF R
    <2> QED
      BY <1>1, WFMin
  <1>3. \A w \in I : ~(w < u)
    BY <1>2 DEF OpToRel
  <1>4. \A w \in I : u <= w
    BY <1>3
  <1> QED
    BY <1>4 DEF Min

Matches(x, code, message) == x.code = code /\ x.phrase = ToLowercase(message)

(* An error is recognised as what every rule that matches it says. *)
LEMMA ParsedAs ==
  ASSUME NEW code, NEW message, NEW error,
         NEW y \in Rules, Matches(y, code, message),
         \A x \in Rules : Matches(x, code, message) => x.error = error
  PROVE  TryParse(code, message) = error
  <1> DEFINE I == {i \in 1..Len(Parser) : Matches(Parser[i], code, message)}
  <1>1. Parser \in Seq(Rules) /\ Len(Parser) \in Nat
    BY ParserRules
  <1>2. TryParse(code, message) =
          LET i == IF I # {} THEN Min(I) ELSE 0
          IN  IF i = 0 THEN "None" ELSE Parser[i].error
    BY DEF TryParse, SelectInSeq, Matches
  <1>3. I # {}
    <2>1. PICK i \in 1..Len(Parser) : Parser[i] = y
      BY ParserRules DEF Has
    <2> QED
      BY <2>1
  <1>4. I \in SUBSET Nat
    BY <1>1
  <1>5. PICK n : n = Min(I)
    OBVIOUS
  <1>6. n \in I
    <2> HIDE DEF I
    <2> QED
      BY <1>3, <1>4, <1>5, MinIsMember
  <1>7. n \in 1..Len(Parser) /\ Matches(Parser[n], code, message) /\ n # 0
    BY <1>1, <1>6
  <1>8. Parser[n] \in Rules
    BY <1>7, ParserRules DEF Has
  <1>9. Parser[n].error = error
    BY <1>7, <1>8
  <1> HIDE DEF I
  <1> QED
    BY <1>2, <1>3, <1>5, <1>7, <1>9

(* An error no rule matches is not recognised. *)
LEMMA NotParsed ==
  ASSUME NEW code, NEW message,
         \A x \in Rules : ~Matches(x, code, message)
  PROVE  TryParse(code, message) = "None"
  <1> DEFINE I == {i \in 1..Len(Parser) : Matches(Parser[i], code, message)}
  <1>1. TryParse(code, message) =
          LET i == IF I # {} THEN Min(I) ELSE 0
          IN  IF i = 0 THEN "None" ELSE Parser[i].error
    BY DEF TryParse, SelectInSeq, Matches
  <1>2. \A i \in 1..Len(Parser) : Parser[i] \in Rules
    BY ParserRules DEF Has
  <1>3. I = {}
    BY <1>2
  <1> HIDE DEF I
  <1> QED
    BY <1>1, <1>3

(* How the errors of all clients but Nethermind are recognised. *)
LEMMA RefusalsParsed ==
  /\ TryParse(-32000, "Known_transaction") = "AlreadyKnown"
  /\ TryParse(-32000, "already_known") = "AlreadyKnown"
  /\ TryParse(-32001, "Nonce_too_low") = "NonceTooLow"
  /\ TryParse(-32000, "nonce_too_low") = "NonceTooLow"
  /\ TryParse(-32000, "Out_of_gas") = "InsufficientFunds"
  /\ TryParse(-32000, "insufficient_funds") = "InsufficientFunds"
  /\ TryParse(-32006, "Nonce_too_high") = "NonceTooHigh"
  /\ TryParse(-32000, "nonce_too_high") = "NonceTooHigh"
  /\ TryParse(-32603, "internal_error") = "None"
  <1> DEFINE Only(code, message, error) ==
        /\ \E y \in Rules : Matches(y, code, message)
        /\ \A x \in Rules : Matches(x, code, message) => x.error = error
  <1>0. \A code, message, error :
          Only(code, message, error) => TryParse(code, message) = error
    BY ParsedAs
  <1>1. Only(-32000, "Known_transaction", "AlreadyKnown")
    BY DEF Rules, GoEthereumRules, NethermindRules, ErigonRules, BesuRules,
           Rule, Matches, ToLowercase
  <1>2. Only(-32000, "already_known", "AlreadyKnown")
    BY DEF Rules, GoEthereumRules, NethermindRules, ErigonRules, BesuRules,
           Rule, Matches, ToLowercase
  <1>3. Only(-32001, "Nonce_too_low", "NonceTooLow")
    BY DEF Rules, GoEthereumRules, NethermindRules, ErigonRules, BesuRules,
           Rule, Matches, ToLowercase
  <1>4. Only(-32000, "nonce_too_low", "NonceTooLow")
    BY DEF Rules, GoEthereumRules, NethermindRules, ErigonRules, BesuRules,
           Rule, Matches, ToLowercase
  <1>5. Only(-32000, "Out_of_gas", "InsufficientFunds")
    BY DEF Rules, GoEthereumRules, NethermindRules, ErigonRules, BesuRules,
           Rule, Matches, ToLowercase
  <1>6. Only(-32000, "insufficient_funds", "InsufficientFunds")
    BY DEF Rules, GoEthereumRules, NethermindRules, ErigonRules, BesuRules,
           Rule, Matches, ToLowercase
  <1>7. Only(-32006, "Nonce_too_high", "NonceTooHigh")
    BY DEF Rules, GoEthereumRules, NethermindRules, ErigonRules, BesuRules,
           Rule, Matches, ToLowercase
  <1>8. Only(-32000, "nonce_too_high", "NonceTooHigh")
    BY DEF Rules, GoEthereumRules, NethermindRules, ErigonRules, BesuRules,
           Rule, Matches, ToLowercase
  <1>9. \A x \in Rules : ~Matches(x, -32603, "internal_error")
    BY DEF Rules, GoEthereumRules, NethermindRules, ErigonRules, BesuRules,
           Rule, Matches, ToLowercase
  <1>10. TryParse(-32603, "internal_error") = "None"
    BY <1>9, NotParsed
  <1> HIDE DEF Only
  <1> QED
    BY <1>0, <1>1, <1>2, <1>3, <1>4, <1>5, <1>6, <1>7, <1>8, <1>10

-----------------------------------------------------------------------------
(* The answers to a raw transaction. *)

(* An error that is recognised becomes a status. *)
LEMMA SanitizeError ==
  ASSUME NEW order, NEW code, NEW message, NEW e, TryParse(code, message) = e
  PROVE  Sanitize(ErrorBody(order, code, message)) =
           IF e = "None" THEN ErrorBody("struct", code, message)
           ELSE StatusBody(IF e = "AlreadyKnown" THEN "Ok" ELSE e)
  BY DEF Sanitize, ErrorBody

(* What sanitize_send_raw_transaction_result makes of each answer: a first
   and a repeated request look the same. *)
LEMMA SanitizedAs ==
  ASSUME NEW k, k # "Nethermind"
  PROVE  /\ Sanitize(Accepted) = StatusBody("Ok")
         /\ Sanitize(Refusal(k, "pending")) = StatusBody("Ok")
         /\ Sanitize(Refusal(k, "mined")) = StatusBody("NonceTooLow")
         /\ Sanitize(Refusal(k, "unfunded")) = StatusBody("InsufficientFunds")
         /\ Sanitize(Refusal(k, "gap")) = StatusBody("NonceTooHigh")
         /\ Sanitize(Refusal(k, "down")) =
              ErrorBody("struct", -32603, "internal_error")
  <1>1. Sanitize(Accepted) = StatusBody("Ok")
    BY DEF Sanitize, Accepted, ResultBody
  <1>2. Sanitize(Refusal(k, "pending")) = StatusBody("Ok")
    BY RefusalsParsed, SanitizeError DEF Refusal
  <1>3. Sanitize(Refusal(k, "mined")) = StatusBody("NonceTooLow")
    BY RefusalsParsed, SanitizeError DEF Refusal
  <1>4. Sanitize(Refusal(k, "unfunded")) = StatusBody("InsufficientFunds")
    BY RefusalsParsed, SanitizeError DEF Refusal
  <1>5. Sanitize(Refusal(k, "gap")) = StatusBody("NonceTooHigh")
    BY RefusalsParsed, SanitizeError DEF Refusal
  <1>6. Sanitize(Refusal(k, "down")) = ErrorBody("struct", -32603, "internal_error")
    BY RefusalsParsed, SanitizeError DEF Refusal
  <1> QED
    BY <1>1, <1>2, <1>3, <1>4, <1>5, <1>6

(* The transform of a 2xx answer to a raw transaction. *)
LEMMA TransactionTransformed ==
  ASSUME NEW x
  PROVE  Transformed("eth_sendRawTransaction", x) =
           Cooked(x.status, IF x.status \in 200..299 THEN Sanitize(x.body)
                            ELSE x.body)
  BY DEF Transformed, CleanupResponse, HasTransform, Apply

(***************************************************************************)
(* For every client but Nethermind, all replicas have the same response to *)
(* eth_sendRawTransaction, whichever came first and whatever the attempts  *)
(* before did, as long as the transaction is not in a block.  (The errors  *)
(* of Nethermind are not recognised: run replay_hidden.)                   *)
(***************************************************************************)
THEOREM ReplayHiddenAlways == Spec => [](client # "Nethermind" => ReplayHidden)
  <1>1. ExchangeInv => (client # "Nethermind" => ReplayHidden)
    <2> SUFFICES ASSUME ExchangeInv, client # "Nethermind",
                        method = "eth_sendRawTransaction", pool # "mined",
                        NEW r1 \in Done, NEW r2 \in Done,
                        raw[r1].status \in 200..299,
                        cooked[r1].status = cooked[r2].status
                 PROVE  cooked[r1] = cooked[r2]
      BY DEF ReplayHidden, SameResponse
    <2>1. PICK x, y : x = raw[r1] /\ y = raw[r2]
      OBVIOUS
    <2>2. /\ cooked[r1] = Transformed("eth_sendRawTransaction", x)
          /\ cooked[r2] = Transformed("eth_sendRawTransaction", y)
          /\ x # NoResponse /\ y # NoResponse
      BY <2>1 DEF ExchangeInv, TransformsApplied, Done
    <2>3. x.status = y.status
      BY <2>2, StatusKept
    <2>4. Sent(x.body, client, pool) /\ Sent(y.body, client, pool)
      BY <2>1, <2>2 DEF ExchangeInv, TransactionSent, Done
    <2>5. Sanitize(x.body) = Sanitize(y.body)
      BY <2>4, SanitizedAs DEF Sent, Refused
    <2> QED
      BY <2>1, <2>2, <2>3, <2>5, TransactionTransformed
  <1> QED
    BY <1>1, ExchangeInductive, PTL

(* What the caller is told, given what was sent. *)
LEMMA ToldTruly ==
  ASSUME NEW k, k # "Nethermind", NEW state, NEW x, Sent(x.body, k, state),
         NEW d, d = Decoded("eth_sendRawTransaction",
                            Transformed("eth_sendRawTransaction", x))
  PROVE  /\ d.kind = "Ok" => state \in {"pending", "mined"}
         /\ d.kind = "NonceTooLow" => state = "mined"
         /\ d.kind \in {"InsufficientFunds", "NonceTooHigh", "jsonRpcError"} =>
              state \in Refused
  <1>1. CASE x.status \notin 200..299
    <2>1. d = [kind |-> "httpError"]
      BY <1>1, StatusKept DEF Decoded
    <2> QED
      BY <2>1
  <1>2. CASE x.status \in 200..299
    <2>1. PICK b : b = Sanitize(x.body)
      OBVIOUS
    <2>2. Transformed("eth_sendRawTransaction", x) = Cooked(x.status, b)
      BY <1>2, <2>1, TransactionTransformed
    <2>3. d = Decoded("eth_sendRawTransaction", Cooked(x.status, b))
      BY <2>2
    <2>4. ASSUME NEW v, b = StatusBody(v)
          PROVE  d.kind = v
      <3>1. d = [kind |-> v]
        BY <1>2, <2>3, <2>4 DEF Decoded, Cooked, StatusBody
      <3> QED
        BY <3>1
    <2>5. ASSUME b = ErrorBody("struct", -32603, "internal_error")
          PROVE  d.kind = "jsonRpcError"
      <3>1. d = [kind |-> "jsonRpcError", code |-> -32603]
        BY <1>2, <2>3, <2>5 DEF Decoded, Cooked, ErrorBody
      <3> QED
        BY <3>1
    <2>6. CASE state \in Refused /\ x.body = Refusal(k, state)
      BY <2>1, <2>4, <2>5, <2>6, SanitizedAs DEF Refused
    <2>7. CASE state \in {"pending", "mined"} /\ x.body \in {Accepted, Refusal(k, "pending")}
      <3>1. d.kind = "Ok"
        BY <2>1, <2>4, <2>7, SanitizedAs
      <3> QED
        BY <2>7, <3>1
    <2>8. CASE state = "mined" /\ x.body = Refusal(k, "mined")
      <3>1. d.kind = "NonceTooLow"
        BY <2>1, <2>4, <2>8, SanitizedAs
      <3> QED
        BY <2>8, <3>1
    <2> QED
      BY <2>6, <2>7, <2>8 DEF Sent
  <1> QED
    BY <1>1, <1>2

(***************************************************************************)
(* For every client but Nethermind, the caller is told the truth about its *)
(* transaction: Ok only when the provider has it, a nonce too low only     *)
(* when it is in a block, any other refusal only when nobody got it        *)
(* accepted, in this attempt or before.                                    *)
(***************************************************************************)
THEOREM StatusTruthfulAlways == Spec => [](client # "Nethermind" => StatusTruthful)
  <1>1. ExchangeInv => (client # "Nethermind" => StatusTruthful)
    <2> SUFFICES ASSUME ExchangeInv, client # "Nethermind",
                        method = "eth_sendRawTransaction"
                 PROVE  StatusTruthful
      BY DEF StatusTruthful
    <2>1. CASE result = Waiting
      BY <2>1 DEF StatusTruthful, Waiting
    <2>2. CASE result = [kind |-> "icError"]
      BY <2>2 DEF StatusTruthful
    <2>3. CASE /\ verdict.kind = "response"
               /\ result = Decoded(method, verdict.response)
      <3>1. PICK r \in Done : verdict.response = cooked[r]
        BY <2>3 DEF ExchangeInv, OutcomeBacked, Waiting
      <3>2. PICK x : x = raw[r]
        OBVIOUS
      <3>3. /\ cooked[r] = Transformed("eth_sendRawTransaction", x)
            /\ x # NoResponse
        BY <3>2 DEF ExchangeInv, TransformsApplied, Done
      <3>4. Sent(x.body, client, pool)
        BY <3>2, <3>3 DEF ExchangeInv, TransactionSent, Done
      <3>5. result = Decoded("eth_sendRawTransaction",
                             Transformed("eth_sendRawTransaction", x))
        BY <2>3, <3>1, <3>3
      <3> QED
        BY <3>4, <3>5, ToldTruly DEF StatusTruthful, Refused
    <2> QED
      BY <2>1, <2>2, <2>3 DEF ExchangeInv, OutcomeBacked
  <1> QED
    BY <1>1, ExchangeInductive, PTL

-----------------------------------------------------------------------------
(* Decoding what a provider wrote. *)

WellFormed(S) ==
  /\ S.all = S.required \cup S.optional \cup S.defaulted
  /\ S.required \cap S.optional = {}
  /\ S.required \cap S.defaulted = {}
  /\ S.optional \cap S.defaulted = {}
  /\ S.required # {}
  /\ "extension" \notin S.all

(* A field is required, optional or defaulted. *)
LEMMA SchemasWellFormed == \A m : WellFormed(SchemaOf(m))
  <1>1. WellFormed(LogEntry)
    BY DEF WellFormed, LogEntry, Schema
  <1>2. WellFormed(Block)
    BY DEF WellFormed, Block, Schema
  <1>3. WellFormed(FeeHistory)
    BY DEF WellFormed, FeeHistory, Schema
  <1>4. WellFormed(TransactionReceipt)
    BY DEF WellFormed, TransactionReceipt, Schema
  <1> QED
    BY <1>1, <1>2, <1>3, <1>4 DEF SchemaOf

(* A value of the type, as the canister writes it. *)
Plain(S, o) ==
  /\ o \in [S.all -> {"v", "null", "empty"}]
  /\ \A f \in S.required : o[f] = "v"
  /\ \A f \in S.optional : o[f] \in {"v", "null"}
  /\ \A f \in S.defaulted : o[f] \in {"v", "empty"}

(* The values providers have, but for the incomplete one, are plain. *)
LEMMA FullAndBarePlain ==
  ASSUME NEW S, WellFormed(S)
  PROVE  Plain(S, Full(S)) /\ Plain(S, Bare(S))
  <1>1. Plain(S, Full(S))
    BY DEF Plain, Full, WellFormed
  <1>2. Plain(S, Bare(S))
    BY DEF Plain, Bare, WellFormed
  <1> QED
    BY <1>1, <1>2

(* A value without a required field does not decode. *)
LEMMA IncompleteUnread ==
  ASSUME NEW S, WellFormed(S)
  PROVE  ~Parses(S, Incomplete(S))
  <1>1. PICK f : f = CHOOSE g \in S.required : TRUE
    OBVIOUS
  <1>2. f \in S.required
    BY <1>1 DEF WellFormed
  <1>3. Incomplete(S) = [Bare(S) EXCEPT ![f] = "null"]
    BY <1>1 DEF Incomplete
  <1>4. f \in DOMAIN Incomplete(S) /\ Incomplete(S)[f] = "null"
    BY <1>2, <1>3 DEF Bare, WellFormed
  <1> QED
    BY <1>2, <1>4 DEF Parses

(* Whatever a provider leaves out, adds or spells its own way, decoding and
   encoding gives the value back. *)
LEMMA WrittenDecodes ==
  ASSUME NEW S, WellFormed(S), NEW o, Plain(S, o), NEW p \in Style
  PROVE  /\ Parses(S, Written(S, o, p))
         /\ Redact(S, Written(S, o, p)) = o
  <1> DEFINE blank == {f \in S.optional \cup S.defaulted : o[f] \in {"null", "empty"}}
             keys == (S.all \ (IF p.omit THEN blank ELSE {})) \cup
                     (IF p.extra THEN {"extension"} ELSE {})
             w == Written(S, o, p)
  <1>1. w = [f \in keys |-> IF f = "extension" THEN "v"
                            ELSE IF o[f] = "v" /\ p.upper THEN "V" ELSE o[f]]
    BY DEF Written
  <1>2. DOMAIN w = keys
    BY <1>1
  <1>3. \A f \in S.all : f \in keys \/ f \in blank
    OBVIOUS
  <1>4. \A f \in S.required : f \in keys /\ f \notin blank
    BY DEF WellFormed
  <1>5. \A f \in S.all \cap keys : w[f] = o[f] \/ (o[f] = "v" /\ w[f] = "V")
    BY <1>1 DEF WellFormed
  <1> HIDE DEF keys, w
  <1>6. Parses(S, w)
    BY <1>2, <1>4, <1>5 DEF Parses, Plain, WellFormed
  <1>7. \A f \in S.all : Redact(S, w)[f] = o[f]
    <2> SUFFICES ASSUME NEW f \in S.all
                 PROVE  Redact(S, w)[f] = o[f]
      OBVIOUS
    <2>1. CASE f \in keys
      <3>1. Redact(S, w)[f] = Canonical(w[f])
        BY <1>2, <2>1 DEF Redact
      <3>2. o[f] # "V"
        BY DEF Plain
      <3> QED
        BY <1>5, <2>1, <3>1, <3>2 DEF Canonical
    <2>2. CASE f \notin keys
      <3>1. f \in S.optional \cup S.defaulted /\ o[f] \in {"null", "empty"}
        BY <1>3, <2>2
      <3>2. Redact(S, w)[f] = IF f \in S.optional THEN "null" ELSE "empty"
        BY <1>2, <2>2 DEF Redact
      <3> QED
        BY <3>1, <3>2 DEF Plain, WellFormed
    <2> QED
      BY <2>1, <2>2
  <1>8. Redact(S, w) = [f \in S.all |-> Redact(S, w)[f]]
    BY DEF Redact
  <1>9. o = [f \in S.all |-> o[f]]
    BY DEF Plain
  <1>10. Redact(S, w) = o
    BY <1>7, <1>8, <1>9
  <1> QED
    BY <1>6, <1>10 DEF w

(* Decoding once more changes nothing. *)
LEMMA PlainDecodes ==
  ASSUME NEW S, WellFormed(S), NEW o, Plain(S, o)
  PROVE  Parses(S, o) /\ Redact(S, o) = o
  <1>1. DOMAIN o = S.all
    BY DEF Plain
  <1>2. Parses(S, o)
    BY <1>1 DEF Parses, Plain, WellFormed
  <1>3. \A f \in S.all : Redact(S, o)[f] = o[f]
    BY <1>1 DEF Redact, Canonical, Plain
  <1>4. Redact(S, o) = [f \in S.all |-> Redact(S, o)[f]]
    BY DEF Redact
  <1>5. o = [f \in S.all |-> o[f]]
    BY DEF Plain
  <1> QED
    BY <1>2, <1>3, <1>4, <1>5

-----------------------------------------------------------------------------
(* Sorting the logs. *)

Entries == {Full(LogEntry), Bare(LogEntry)}

(* The hashes order the entries. *)
LEMMA DigestsDiffer ==
  /\ \A e \in Entries : Digest(e) \in Nat
  /\ \A d, e \in Entries : Digest(d) = Digest(e) => d = e
  BY DigestAssumption DEF Entries

(* Two entries stay in place or change places. *)
LEMMA TwoOrders ==
  ASSUME NEW q \in [1..2 -> 1..2], IsInjective(q)
  PROVE  (q[1] = 1 /\ q[2] = 2) \/ (q[1] = 2 /\ q[2] = 1)
  <1>1. q[1] \in 1..2 /\ q[2] \in 1..2
    OBVIOUS
  <1>2. q[1] # q[2]
    BY DEF IsInjective
  <1> QED
    BY <1>1, <1>2

SameOrSwapped(s, t) == \/ t[1] = s[1] /\ t[2] = s[2]
                       \/ t[1] = s[2] /\ t[2] = s[1]

(* Two entries are sorted. *)
LEMMA SortTwo ==
  ASSUME NEW s \in [1..2 -> Entries]
  PROVE  /\ SortByHash(s) \in [1..2 -> Entries]
         /\ SameOrSwapped(s, SortByHash(s))
         /\ Digest(SortByHash(s)[1]) <= Digest(SortByHash(s)[2])
  <1> DEFINE Good(q) == \A i, j \in DOMAIN s :
                          i < j => Digest(s[q[i]]) <= Digest(s[q[j]])
             order == CHOOSE q \in Reorderings(s) : Good(q)
  <1>1. DOMAIN s = 1..2 /\ Reorderings(s) = {q \in [1..2 -> 1..2] : IsInjective(q)}
    BY DEF Reorderings
  <1>2. \A i, j \in 1..2 : i < j => i = 1 /\ j = 2
    OBVIOUS
  <1>3. \E q \in Reorderings(s) : Good(q)
    <2>1. Digest(s[1]) \in Nat /\ Digest(s[2]) \in Nat
      BY DigestsDiffer
    <2>2. CASE Digest(s[1]) <= Digest(s[2])
      <3>1. PICK q : q = [i \in 1..2 |-> i]
        OBVIOUS
      <3>2. q \in Reorderings(s)
        BY <1>1, <3>1 DEF IsInjective
      <3>3. Good(q)
        BY <1>1, <1>2, <2>2, <3>1
      <3> QED
        BY <3>2, <3>3
    <2>3. CASE Digest(s[2]) <= Digest(s[1])
      <3>1. PICK q : q = [i \in 1..2 |-> 3 - i]
        OBVIOUS
      <3>2. q \in Reorderings(s) /\ q[1] = 2 /\ q[2] = 1
        BY <1>1, <3>1 DEF IsInjective
      <3>3. Good(q)
        BY <1>1, <1>2, <2>3, <3>2
      <3> QED
        BY <3>2, <3>3
    <2> QED
      BY <2>1, <2>2, <2>3
  <1>4. order \in Reorderings(s) /\ Good(order)
    <2> HIDE DEF Good
    <2> QED
      BY <1>3
  <1>5. SortByHash(s) = [i \in 1..2 |-> s[order[i]]]
    BY <1>1 DEF SortByHash
  <1>6. PICK q : q = order
    OBVIOUS
  <1>7. q \in [1..2 -> 1..2] /\ IsInjective(q)
    BY <1>1, <1>4, <1>6
  <1>8. (q[1] = 1 /\ q[2] = 2) \/ (q[1] = 2 /\ q[2] = 1)
    BY <1>7, TwoOrders
  <1>9. Digest(s[q[1]]) <= Digest(s[q[2]])
    BY <1>1, <1>4, <1>6
  <1> HIDE DEF order
  <1> QED
    BY <1>5, <1>6, <1>7, <1>8, <1>9 DEF SameOrSwapped

(* One entry is sorted, and so is none. *)
LEMMA SortOne ==
  ASSUME NEW n \in {0, 1}, NEW s \in [1..n -> Entries]
  PROVE  SortByHash(s) = s
  <1> DEFINE Good(q) == \A i, j \in DOMAIN s :
                          i < j => Digest(s[q[i]]) <= Digest(s[q[j]])
             order == CHOOSE q \in Reorderings(s) : Good(q)
  <1>1. DOMAIN s = 1..n /\ Reorderings(s) = {q \in [1..n -> 1..n] : IsInjective(q)}
    BY DEF Reorderings
  <1>2. \A i, j \in 1..n : i = j
    OBVIOUS
  <1>3. \E q \in Reorderings(s) : Good(q)
    <2>1. PICK q : q = [i \in 1..n |-> i]
      OBVIOUS
    <2>2. q \in Reorderings(s)
      BY <1>1, <2>1 DEF IsInjective
    <2>3. Good(q)
      BY <1>1, <1>2
    <2> QED
      BY <2>2, <2>3
  <1>4. order \in Reorderings(s)
    <2> HIDE DEF Good
    <2> QED
      BY <1>3
  <1>5. SortByHash(s) = [i \in 1..n |-> s[order[i]]]
    BY <1>1 DEF SortByHash
  <1>6. \A i \in 1..n : order[i] \in 1..n
    BY <1>1, <1>4
  <1> HIDE DEF order
  <1>7. \A i \in 1..n : s[order[i]] = s[i]
    BY <1>2, <1>6
  <1>8. s = [i \in 1..n |-> s[i]]
    OBVIOUS
  <1> QED
    BY <1>5, <1>7, <1>8

Reordered(c, q) == [i \in DOMAIN c |-> c[q[i]]]

(* Logs that come in another order are the same when sorted, and all of them
   are still there. *)
LEMMA SortForgetsOrder ==
  ASSUME NEW n \in 0..2, NEW c \in [1..n -> Entries], NEW q \in Reorderings(c),
         NEW s, s = Reordered(c, q)
  PROVE  /\ s \in [1..n -> Entries]
         /\ SortByHash(s) = SortByHash(c)
         /\ SortByHash(c) \in [1..n -> Entries]
         /\ SortByHash(c) = c \/ (n = 2 /\ SameOrSwapped(c, SortByHash(c)))
  <1>1. DOMAIN c = 1..n /\ q \in [1..n -> 1..n] /\ IsInjective(q)
    BY DEF Reorderings
  <1>2. s = [i \in 1..n |-> c[q[i]]] /\ s \in [1..n -> Entries]
    BY <1>1 DEF Reordered
  <1>3. CASE n = 2
    <2>1. (q[1] = 1 /\ q[2] = 2) \/ (q[1] = 2 /\ q[2] = 1)
      BY <1>1, <1>3, TwoOrders
    <2>2. SameOrSwapped(c, s)
      BY <1>2, <1>3, <2>1 DEF SameOrSwapped
    <2>3. PICK t, u : t = SortByHash(c) /\ u = SortByHash(s)
      OBVIOUS
    <2>4. /\ t \in [1..2 -> Entries] /\ SameOrSwapped(c, t)
          /\ Digest(t[1]) <= Digest(t[2])
      BY <1>3, <2>3, SortTwo
    <2>5. /\ u \in [1..2 -> Entries] /\ SameOrSwapped(s, u)
          /\ Digest(u[1]) <= Digest(u[2])
      BY <1>2, <1>3, <2>3, SortTwo
    <2>6. \/ u[1] = t[1] /\ u[2] = t[2]
          \/ u[1] = t[2] /\ u[2] = t[1]
      BY <2>2, <2>4, <2>5 DEF SameOrSwapped
    <2>7. u[1] = t[1] /\ u[2] = t[2]
      <3>1. CASE u[1] = t[2] /\ u[2] = t[1]
        <4>1. t[1] \in Entries /\ t[2] \in Entries
          BY <2>4
        <4>2. Digest(t[1]) \in Nat /\ Digest(t[2]) \in Nat
          BY <4>1, DigestsDiffer
        <4>3. Digest(t[1]) = Digest(t[2])
          BY <2>4, <2>5, <3>1, <4>2
        <4>4. t[1] = t[2]
          BY <4>1, <4>3, DigestsDiffer
        <4> QED
          BY <3>1, <4>4
      <3> QED
        BY <2>6, <3>1
    <2>8. u = t
      BY <2>4, <2>5, <2>7
    <2> QED
      BY <1>2, <1>3, <2>3, <2>4, <2>8
  <1>4. CASE n \in {0, 1}
    <2>1. \A i, j \in 1..n : i = j
      BY <1>4
    <2>2. \A i \in 1..n : s[i] = c[i]
      BY <1>1, <1>2, <2>1
    <2>3. s = c
      BY <1>2, <2>2
    <2>4. SortByHash(c) = c
      BY <1>4, SortOne
    <2> QED
      BY <1>2, <2>3, <2>4
  <1> QED
    BY <1>3, <1>4

Count(s, e) == Cardinality({i \in DOMAIN s : s[i] = e})

(* Each entry is there as often as before. *)
LEMMA SwapCounts ==
  ASSUME NEW s \in [1..2 -> Entries], NEW t \in [1..2 -> Entries],
         SameOrSwapped(s, t), NEW e
  PROVE  Cardinality({i \in DOMAIN t : t[i] = e}) =
         Cardinality({i \in DOMAIN s : s[i] = e})
  <1>1. CASE t[1] = s[1] /\ t[2] = s[2]
    <2>1. \A i \in 1..2 : t[i] = s[i]
      BY <1>1
    <2>2. {i \in DOMAIN t : t[i] = e} = {i \in DOMAIN s : s[i] = e}
      BY <2>1
    <2> QED
      BY <2>2
  <1>2. CASE t[1] = s[2] /\ t[2] = s[1]
    <2>1. CASE (s[1] = e) <=> (s[2] = e)
      <3>1. {i \in DOMAIN t : t[i] = e} = {i \in DOMAIN s : s[i] = e}
        BY <1>2, <2>1
      <3> QED
        BY <3>1
    <2>2. CASE s[1] = e /\ s[2] # e
      <3>1. {i \in DOMAIN t : t[i] = e} = {2} /\ {i \in DOMAIN s : s[i] = e} = {1}
        BY <1>2, <2>2
      <3> QED
        BY <3>1, FS_Singleton
    <2>3. CASE s[1] # e /\ s[2] = e
      <3>1. {i \in DOMAIN t : t[i] = e} = {1} /\ {i \in DOMAIN s : s[i] = e} = {2}
        BY <1>2, <2>3
      <3> QED
        BY <3>1, FS_Singleton
    <2> QED
      BY <2>1, <2>2, <2>3
  <1> QED
    BY <1>1, <1>2 DEF SameOrSwapped

-----------------------------------------------------------------------------
(* Encodings of one content. *)

(* Some value a method decodes without loss: a list of up to two entries, or
   one plain object. *)
Readable(m, v) ==
  IF m = "eth_getLogs" THEN \E n \in 0..2 : v \in [1..n -> Entries]
  ELSE Plain(SchemaOf(m), v)

(* Log entries are plain. *)
LEMMA EntriesPlain ==
  /\ WellFormed(LogEntry)
  /\ \A e \in Entries : Plain(LogEntry, e)
  <1>1. WellFormed(LogEntry)
    BY SchemasWellFormed DEF SchemaOf
  <1> QED
    BY <1>1, FullAndBarePlain DEF Entries

(* Content that decodes has no required field missing. *)
LEMMA CompleteReadable ==
  ASSUME NEW m, NEW c \in Content(m), c.form = "result", ResultParses(m, c.value)
  PROVE  Readable(m, c.value)
  <1>1. PICK v \in Values(m) : c = ResultBody("struct", v)
    BY SMT DEF Content, ErrorBody, TextBody
  <1>2. c.value = v
    BY <1>1 DEF ResultBody
  <1>3. CASE m = "eth_getLogs"
    <2>1. SchemaOf(m) = LogEntry
      BY <1>3 DEF SchemaOf
    <2>2. v \in SeqOf(Entries, 2) \/ v = <<Incomplete(LogEntry)>>
      BY <1>3, <2>1 DEF Values, Entries
    <2>3. \A i \in DOMAIN v : Parses(LogEntry, v[i])
      BY <1>2, <1>3 DEF ResultParses
    <2>4. v # <<Incomplete(LogEntry)>>
      <3> SUFFICES ASSUME v = <<Incomplete(LogEntry)>>
                   PROVE  FALSE
        OBVIOUS
      <3>1. 1 \in DOMAIN v /\ v[1] = Incomplete(LogEntry)
        OBVIOUS
      <3> QED
        BY <2>3, <3>1, EntriesPlain, IncompleteUnread
    <2> QED
      BY <1>2, <1>3, <2>2, <2>4 DEF SeqOf, Readable
  <1>4. CASE m # "eth_getLogs"
    <2>1. PICK S : S = SchemaOf(m)
      OBVIOUS
    <2>2. WellFormed(S)
      BY <2>1, SchemasWellFormed
    <2>3. v \in {Full(S), Bare(S), Incomplete(S)} /\ Parses(S, v)
      BY <1>2, <1>4, <2>1 DEF Values, ResultParses
    <2> QED
      BY <1>2, <1>4, <2>1, <2>2, <2>3, FullAndBarePlain, IncompleteUnread
      DEF Readable
  <1> QED
    BY <1>3, <1>4

(* Every spelling of a readable value decodes to it, logs in some order. *)
LEMMA SpellingDecodes ==
  ASSUME NEW m, NEW v, Readable(m, v), NEW w \in Spellings(m, v)
  PROVE  /\ ResultParses(m, w)
         /\ IF m # "eth_getLogs" THEN Decode(m, w) = v
            ELSE \E q \in Reorderings(v) :
                   Decode(m, w) = Reordered(v, q)
  <1>1. CASE m # "eth_getLogs"
    <2>1. PICK S : S = SchemaOf(m)
      OBVIOUS
    <2>2. PICK p \in Style : w = Written(S, v, p)
      BY <1>1, <2>1 DEF Spellings
    <2>3. WellFormed(S) /\ Plain(S, v)
      BY <1>1, <2>1, SchemasWellFormed DEF Readable
    <2>4. Parses(S, w) /\ Redact(S, w) = v
      BY <2>2, <2>3, WrittenDecodes
    <2> QED
      BY <1>1, <2>1, <2>4 DEF ResultParses, Decode
  <1>2. CASE m = "eth_getLogs"
    <2>1. SchemaOf(m) = LogEntry
      BY <1>2 DEF SchemaOf
    <2>2. PICK q \in Reorderings(v), p \in Style :
            w = [i \in DOMAIN v |-> Written(LogEntry, v[q[i]], p)]
      BY <1>2, <2>1 DEF Spellings
    <2>3. PICK n \in 0..2 : v \in [1..n -> Entries]
      BY <1>2 DEF Readable
    <2>4. \A i \in DOMAIN v : v[q[i]] \in Entries
      BY <2>3 DEF Reorderings
    <2>5. \A e \in Entries : /\ Parses(LogEntry, Written(LogEntry, e, p))
                             /\ Redact(LogEntry, Written(LogEntry, e, p)) = e
      BY EntriesPlain, WrittenDecodes
    <2>6. DOMAIN w = DOMAIN v
      BY <2>2
    <2>7. \A i \in DOMAIN v : Parses(LogEntry, w[i]) /\ Redact(LogEntry, w[i]) = v[q[i]]
      BY <2>2, <2>4, <2>5
    <2>8. Decode(m, w) = Reordered(v, q)
      BY <1>2, <2>6, <2>7 DEF Decode, Reordered
    <2>9. ResultParses(m, w)
      BY <1>2, <2>6, <2>7 DEF ResultParses
    <2> QED
      BY <1>2, <2>8, <2>9
  <1> QED
    BY <1>1, <1>2

(* The value as the transform writes it. *)
Normal(m, v) == IF m = "eth_getLogs" THEN SortByHash(v) ELSE v

(* A normal value decodes to itself. *)
LEMMA NormalDecodes ==
  ASSUME NEW m, NEW v, Readable(m, v)
  PROVE  /\ ResultParses(m, Normal(m, v))
         /\ Decode(m, Normal(m, v)) = Normal(m, v)
  <1>1. CASE m # "eth_getLogs"
    <2>1. PICK S : S = SchemaOf(m)
      OBVIOUS
    <2>2. WellFormed(S) /\ Plain(S, v)
      BY <1>1, <2>1, SchemasWellFormed DEF Readable
    <2>3. Parses(S, v) /\ Redact(S, v) = v
      BY <2>2, PlainDecodes
    <2> QED
      BY <1>1, <2>1, <2>3 DEF ResultParses, Decode, Normal
  <1>2. CASE m = "eth_getLogs"
    <2>1. PICK n \in 0..2 : v \in [1..n -> Entries]
      BY <1>2 DEF Readable
    <2>2. PICK t : t = Normal(m, v)
      OBVIOUS
    <2>3. t \in [1..n -> Entries]
      <3>1. PICK q, s : q = [i \in DOMAIN v |-> i] /\ s = Reordered(v, q)
        OBVIOUS
      <3>2. q \in Reorderings(v)
        BY <3>1 DEF Reorderings, IsInjective
      <3>3. SortByHash(v) \in [1..n -> Entries]
        BY <2>1, <3>1, <3>2, SortForgetsOrder
      <3> QED
        BY <1>2, <2>2, <3>3 DEF Normal
    <2>4. \A e \in Entries : Parses(LogEntry, e) /\ Redact(LogEntry, e) = e
      BY EntriesPlain, PlainDecodes
    <2>5. \A i \in DOMAIN t : Parses(LogEntry, t[i]) /\ Redact(LogEntry, t[i]) = t[i]
      BY <2>3, <2>4
    <2>6. ResultParses(m, t)
      BY <1>2, <2>5 DEF ResultParses
    <2>7. Decode(m, t) = [i \in DOMAIN t |-> t[i]]
      BY <1>2, <2>5 DEF Decode
    <2> QED
      BY <2>2, <2>3, <2>6, <2>7
  <1> QED
    BY <1>1, <1>2

(* The transforms that decode and encode write the normal value. *)
LEMMA RedactedToNormal ==
  ASSUME NEW m, NEW o, NEW v, Readable(m, v), NEW w \in Spellings(m, v)
  PROVE  RedactBody(m, ResultBody(o, w)) = ResultBody("struct", Normal(m, v))
  <1>1. ResultParses(m, w)
    BY SpellingDecodes
  <1>2. RedactBody(m, ResultBody(o, w)) =
          ResultBody("struct", IF m = "eth_getLogs" THEN SortByHash(Decode(m, w))
                               ELSE Decode(m, w))
    BY <1>1 DEF RedactBody, ResultBody
  <1>3. CASE m # "eth_getLogs"
    BY <1>2, <1>3, SpellingDecodes DEF Normal
  <1>4. CASE m = "eth_getLogs"
    <2>1. PICK n \in 0..2 : v \in [1..n -> Entries]
      BY <1>4 DEF Readable
    <2>2. PICK q \in Reorderings(v) : Decode(m, w) = Reordered(v, q)
      BY <1>4, SpellingDecodes
    <2>3. PICK s : s = Reordered(v, q)
      OBVIOUS
    <2>4. /\ s \in [1..n -> Entries]
          /\ SortByHash(s) = SortByHash(v)
          /\ SortByHash(v) \in [1..n -> Entries]
          /\ SortByHash(v) = v \/ (n = 2 /\ SameOrSwapped(v, SortByHash(v)))
      BY <2>1, <2>2, <2>3, SortForgetsOrder
    <2>5. SortByHash(Decode(m, w)) = SortByHash(v)
      BY <2>2, <2>3, <2>4
    <2> QED
      BY <1>2, <1>4, <2>5 DEF Normal
  <1> QED
    BY <1>3, <1>4

(* Encodings of complete content are results that spell its value. *)
LEMMA CompleteEncoding ==
  ASSUME NEW m, NEW c, c.form = "result", NEW b \in Encodings(m, c)
  PROVE  \E o \in Order : \E w \in Spellings(m, c.value) : b = ResultBody(o, w)
  BY DEF Encodings

(* Encodings of an error keep its code and its message. *)
LEMMA ErrorEncoding ==
  ASSUME NEW m, NEW c \in Content(m), c.form = "error", NEW b \in Encodings(m, c)
  PROVE  RedactBody(m, b) = c
  <1>1. PICK code, message : c = ErrorBody("struct", code, message)
    <2>1. c = ErrorBody("struct", -32005, "limit_exceeded")
      BY SMT DEF Content, ResultBody, TextBody
    <2> QED
      BY SMT, <2>1
  <1>2. PICK o \in Order : b = [c EXCEPT !.order = o]
    BY DEF Encodings
  <1>3. b = ErrorBody(o, code, message)
    BY <1>1, <1>2 DEF ErrorBody
  <1> QED
    BY <1>1, <1>3 DEF RedactBody, ErrorBody

(***************************************************************************)
(* Whatever encoding each replica is sent of the same blocks, logs, fees   *)
(* or errors, all of them have the same response after cleanup_response;   *)
(* and so have those that are sent the same body under other headers.      *)
(***************************************************************************)
THEOREM EncodingsAgreeAlways == Spec => []EncodingsAgree
  <1>1. ExchangeInv => EncodingsAgree
    <2> DEFINE Redacted == {"eth_getLogs", "eth_getBlockByNumber", "eth_feeHistory"}
    <2> SUFFICES ASSUME ExchangeInv, method # "request",
                        NEW r1 \in Done, NEW r2 \in Done,
                        \/ raw[r1].body = raw[r2].body
                        \/ /\ method \in Redacted
                           /\ \/ Complete(r1)
                              \/ raw[r1].status \in 200..299 /\ content.form = "error",
                        cooked[r1].status = cooked[r2].status
                 PROVE  cooked[r1] = cooked[r2]
      BY DEF EncodingsAgree, SameResponse
    <2>1. PICK x, y : x = raw[r1] /\ y = raw[r2]
      OBVIOUS
    <2>2. /\ cooked[r1] = Transformed(method, x)
          /\ cooked[r2] = Transformed(method, y)
          /\ x # NoResponse /\ y # NoResponse
      BY <2>1 DEF ExchangeInv, TransformsApplied, Done
    <2>3. x.status = y.status
      BY <2>2, StatusKept
    <2>4. CASE x.body = y.body
      BY <2>2, <2>3, <2>4, SameBodySameResponse
    <2>5. CASE /\ method \in Redacted /\ x.status \in 200..299
               /\ RedactBody(method, x.body) = RedactBody(method, y.body)
      BY <2>2, <2>3, <2>5
      DEF Transformed, CleanupResponse, HasTransform, Apply, Cooked
    <2>6. ASSUME method \in Redacted
          PROVE  /\ content \in Content(method)
                 /\ x.body \in Encodings(method, content)
                 /\ y.body \in Encodings(method, content)
      BY <2>1, <2>2, <2>6 DEF ExchangeInv, ContentSent, Done
    <2>7. CASE method \in Redacted /\ Complete(r1)
      <3>1. x.status \in 200..299
        BY <2>1, <2>7 DEF Complete
      <3>2. PICK v : v = content.value
        OBVIOUS
      <3>3. Readable(method, v)
        BY <2>6, <2>7, <3>2, CompleteReadable DEF Complete
      <3>4. PICK o \in Order, w \in Spellings(method, v) : x.body = ResultBody(o, w)
        BY <2>6, <2>7, <3>2, CompleteEncoding DEF Complete
      <3>5. PICK p \in Order, u \in Spellings(method, v) : y.body = ResultBody(p, u)
        BY <2>6, <2>7, <3>2, CompleteEncoding DEF Complete
      <3>6. RedactBody(method, x.body) = RedactBody(method, y.body)
        BY <3>3, <3>4, <3>5, RedactedToNormal
      <3> QED
        BY <2>5, <2>7, <3>1, <3>6
    <2>8. CASE method \in Redacted /\ x.status \in 200..299 /\ content.form = "error"
      <3>1. RedactBody(method, x.body) = RedactBody(method, y.body)
        BY <2>6, <2>8, ErrorEncoding
      <3> QED
        BY <2>5, <2>8, <3>1
    <2> QED
      BY <2>1, <2>4, <2>7, <2>8
  <1> QED
    BY <1>1, ExchangeInductive, PTL

(* A result that decodes is what the call replies with. *)
LEMMA OkDecoded ==
  ASSUME NEW m, m # "request", NEW status \in 200..299, NEW o, NEW w,
         ResultParses(m, w)
  PROVE  Decoded(m, Cooked(status, ResultBody(o, w))) =
           [kind |-> "ok", value |-> Decode(m, w)]
  BY DEF Decoded, Cooked, ResultBody

(***************************************************************************)
(* The transform loses nothing the call decodes: a complete answer still   *)
(* decodes after it, to what the provider sent, logs in some order and     *)
(* each as often as before.                                                *)
(***************************************************************************)
THEOREM ContentKeptAlways == Spec => []ContentKept
  <1>1. ExchangeInv => ContentKept
    <2> SUFFICES ASSUME ExchangeInv,
                        method \notin {"request", "eth_sendRawTransaction"},
                        NEW r \in Done, Complete(r),
                        NEW d, d = Decoded(method, cooked[r])
                 PROVE  /\ d.kind = "ok"
                        /\ IF method # "eth_getLogs" THEN d.value = content.value
                           ELSE \A e :
                             Cardinality({i \in DOMAIN d.value : d.value[i] = e}) =
                             Cardinality({i \in DOMAIN content.value :
                                            content.value[i] = e})
      BY DEF ContentKept
    <2>1. PICK x : x = raw[r]
      OBVIOUS
    <2>2. /\ cooked[r] = CleanupResponse(method, x)
          /\ x # NoResponse
      BY <2>1 DEF ExchangeInv, TransformsApplied, Transformed, Done
    <2>3. /\ content \in Content(method)
          /\ x.body \in Encodings(method, content)
      BY <2>1, <2>2 DEF ExchangeInv, ContentSent, Done
    <2>4. PICK v : v = content.value
      OBVIOUS
    <2>5. /\ x.status \in 200..299 /\ content.form = "result"
          /\ ResultParses(method, v)
      BY <2>1, <2>4 DEF Complete
    <2>6. Readable(method, v)
      BY <2>3, <2>4, <2>5, CompleteReadable
    <2>7. PICK o \in Order, w \in Spellings(method, v) : x.body = ResultBody(o, w)
      BY <2>3, <2>4, <2>5, CompleteEncoding
    <2>8. CASE ~HasTransform(method)
      <3>1. method # "eth_getLogs"
        BY <2>8 DEF HasTransform
      <3>2. cooked[r] = Cooked(x.status, ResultBody(o, w))
        BY <2>2, <2>7, <2>8 DEF CleanupResponse
      <3>3. ResultParses(method, w) /\ Decode(method, w) = v
        BY <2>6, <3>1, SpellingDecodes
      <3>4. PICK st : st = x.status
        OBVIOUS
      <3>5. Decoded(method, Cooked(st, ResultBody(o, w))) =
              [kind |-> "ok", value |-> Decode(method, w)]
        BY <2>5, <3>3, <3>4, OkDecoded
      <3>6. d = [kind |-> "ok", value |-> v]
        BY <3>2, <3>3, <3>4, <3>5
      <3> QED
        BY <2>4, <3>1, <3>6
    <2>9. CASE HasTransform(method)
      <3>1. RedactBody(method, ResultBody(o, w)) =
              ResultBody("struct", Normal(method, v))
        BY <2>6, RedactedToNormal
      <3>2. PICK t, st : t = Normal(method, v) /\ st = x.status
        OBVIOUS
      <3>3. cooked[r] = Cooked(st, ResultBody("struct", t))
        BY <2>2, <2>5, <2>7, <2>9, <3>1, <3>2 DEF CleanupResponse, Apply
      <3>4. ResultParses(method, t) /\ Decode(method, t) = t
        BY <2>6, <3>2, NormalDecodes
      <3>5. d = [kind |-> "ok", value |-> t]
        <4>1. Decoded(method, Cooked(st, ResultBody("struct", t))) =
                [kind |-> "ok", value |-> Decode(method, t)]
          BY <2>5, <3>2, <3>4, OkDecoded
        <4> QED
          BY <3>3, <3>4, <4>1
      <3>6. d.kind = "ok" /\ d.value = t
        BY <3>5
      <3>7. CASE method # "eth_getLogs"
        BY <2>4, <3>2, <3>6, <3>7 DEF Normal
      <3>8. CASE method = "eth_getLogs"
        <4>1. PICK n \in 0..2 : v \in [1..n -> Entries]
          BY <2>6, <3>8 DEF Readable
        <4>2. PICK q, s : q = [i \in DOMAIN v |-> i] /\ s = Reordered(v, q)
          OBVIOUS
        <4>3. q \in Reorderings(v)
          BY <4>2 DEF Reorderings, IsInjective
        <4>4. t = SortByHash(v)
          BY <3>2, <3>8 DEF Normal
        <4>5. t \in [1..n -> Entries] /\ (t = v \/ (n = 2 /\ SameOrSwapped(v, t)))
          BY <4>1, <4>2, <4>3, <4>4, SortForgetsOrder
        <4>6. \A e : Cardinality({i \in DOMAIN t : t[i] = e}) =
                     Cardinality({i \in DOMAIN v : v[i] = e})
          <5>1. CASE t = v
            BY <5>1
          <5>2. CASE n = 2 /\ SameOrSwapped(v, t)
            BY <4>1, <4>5, <5>2, SwapCounts
          <5> QED
            BY <4>5, <5>1, <5>2
        <4>7. \A e : Count(t, e) = Count(v, e)
          BY <4>6 DEF Count
        <4>8. \A e : Count(d.value, e) = Count(content.value, e)
          BY <2>4, <3>6, <4>7
        <4> QED
          BY <3>6, <3>8, <4>8 DEF Count
      <3> QED
        BY <3>7, <3>8
    <2> QED
      BY <2>8, <2>9
  <1> QED
    BY <1>1, ExchangeInductive, PTL

=============================================================================
