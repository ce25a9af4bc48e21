------------------------------ MODULE MultiCall ------------------------------
(***************************************************************************)
(* What a call to the EVM RPC canister promises to its caller, without     *)
(* outcalls, retries, request ids or messages: the queried services, their *)
(* answers, the cycles taken and the reply.  ParallelCall implements it.   *)
(***************************************************************************)
EXTENDS Integers, FiniteSets

CONSTANTS
  Call,     \* calls
  Service,  \* services that can be queried
  Result,   \* results of one service, as records with a field kind
  NoResult, \* the service has not answered
  NoReply,  \* the call has not been answered, or was rejected
  Equality  \* the strategy that asks all services for the same result

VARIABLES
  status,   \* "new", "open" or "done"
  args,     \* services, min and attached cycles of an open call
  answer,   \* per call and service
  paid,     \* cycles taken from the caller
  reply

vars == <<status, args, answer, paid, reply>>

Init ==
  /\ status = [c \in Call |-> "new"]
  /\ args \in [Call -> {[services |-> {}, min |-> Equality, attached |-> 0]}]
  /\ answer = [c \in Call |-> [s \in Service |-> NoResult]]
  /\ paid = [c \in Call |-> 0]
  /\ reply = [c \in Call |-> NoReply]

Backers(c, res) == {s \in args[c].services : answer[c][s] = res}

(* r is a faithful summary of the answers: a value with enough support, a
   result all services share, or a disagreement that leaves no value with
   enough support. *)
Faithful(c, r) ==
  LET S == args[c].services
      quorum == IF args[c].min = Equality THEN Cardinality(S) ELSE args[c].min
  IN  \/ /\ r.kind = "consistent"
         /\ r.res.kind = "ok"
         /\ Cardinality(Backers(c, r.res)) >= quorum
      \/ /\ r.kind = "consistent"
         /\ Backers(c, r.res) = S
      \/ /\ r.kind = "inconsistent"
         /\ \A s \in S :
              /\ Backers(c, answer[c][s]) # S
              /\ answer[c][s].kind = "ok" =>
                   Cardinality(Backers(c, answer[c][s])) < quorum

(* A refused call is over at once and costs nothing. *)
Refuse(c) ==
  /\ status[c] = "new"
  /\ status' = [status EXCEPT ![c] = "done"]
  /\ \A d \in Call \ {c} : reply'[d] = reply[d]
  /\ reply'[c].res.kind # "ok"
  /\ UNCHANGED <<args, answer, paid>>

Accept(c) ==
  /\ status[c] = "new"
  /\ status' = [status EXCEPT ![c] = "open"]
  /\ \A d \in Call \ {c} : args'[d] = args[d]
  /\ args'[c].services # {}
  /\ UNCHANGED <<answer, paid, reply>>

(* The call goes on: cycles are taken within what was attached, queried
   services answer, and an answer stays. *)
Proceed(c) ==
  /\ status[c] = "open"
  /\ \A d \in Call \ {c} : answer'[d] = answer[d] /\ paid'[d] = paid[d]
  /\ paid[c] <= paid'[c] /\ paid'[c] <= args[c].attached
  /\ \A s \in Service :
       answer'[c][s] # answer[c][s] =>
         s \in args[c].services /\ answer[c][s] = NoResult
  /\ UNCHANGED <<status, args, reply>>

(* All queried services have answered, and the caller gets a summary. *)
Answer(c) ==
  /\ status[c] = "open"
  /\ \A s \in args[c].services : answer[c][s] # NoResult
  /\ status' = [status EXCEPT ![c] = "done"]
  /\ \A d \in Call \ {c} : reply'[d] = reply[d]
  /\ Faithful(c, reply'[c])
  /\ UNCHANGED <<args, answer, paid>>

Next == \E c \in Call : Refuse(c) \/ Accept(c) \/ Proceed(c) \/ Answer(c)

Spec == Init /\ [][Next]_vars
=============================================================================
