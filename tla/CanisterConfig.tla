--------------------------- MODULE CanisterConfig ---------------------------
(***************************************************************************)
(* What the canister keeps across calls: API keys of the providers, the    *)
(* principals that may manage them, and the options given on installation  *)
(* and upgrade.  updateApiKeys and post_upgrade write one item after the   *)
(* other and may panic at any of them; the IC then undoes the message.     *)
(* Each write is a step here, so that what a panic leaves behind can be    *)
(* compared with what the whole message means.                             *)
(***************************************************************************)
EXTENDS Integers, FiniteSets, Sequences

CONSTANTS
  Call,            \* calls in progress at the same time
  ProviderId,      \* provider ids callers may name
  Provider,        \* ids of the PROVIDERS table
  Authenticated,   \* providers that can have an API key
  NoPublicUrl,     \* authenticated providers without a public URL
  ApiKey,          \* strings given as API keys
  InvalidKey,      \* the ones validate_api_key refuses
  Principal,
  Controller,      \* controllers of the canister, known to the IC
  LogFilter,
  OversizedFilter, \* filters that do not fit into their stable cell
  Override,
  InvalidOverride, \* overrides whose pattern is no regular expression
  Nodes,           \* numbers of nodes given for the subnet
  None,            \* Rust's None
  Entries,         \* argument lists of updateApiKeys
  InstallArgs,     \* arguments of init and post_upgrade
  MaxRequests      \* bound on the request counter

ASSUME ProviderAssumption ==
  /\ Provider \subseteq ProviderId
  /\ Authenticated \subseteq Provider
  /\ NoPublicUrl \subseteq Authenticated
ASSUME ValueAssumption ==
  /\ InvalidKey \subseteq ApiKey
  /\ OversizedFilter \subseteq LogFilter
  /\ InvalidOverride \subseteq Override
  /\ Nodes \subseteq Nat
  /\ MaxRequests \in Nat
ASSUME NoneAssumption ==
  /\ None \notin ApiKey \cup LogFilter \cup Override
  /\ None \notin Nodes
  /\ None \notin BOOLEAN
  /\ \A managers \in SUBSET Principal : managers # None
ASSUME ArgsAssumption ==
  /\ Entries \subseteq Seq([id : ProviderId, key : ApiKey \cup {None}])
  /\ InstallArgs \subseteq
       [demo : BOOLEAN \cup {None}, managers : {None} \cup SUBSET Principal,
        filter : LogFilter \cup {None}, override : Override \cup {None},
        nodes : Nodes \cup {None}]

VARIABLES
  installed,  \* the canister has code
  mem,        \* its memory, stable and unstable
  msg,        \* the message being executed
  open        \* per call: what it read from mem when it started

vars == <<installed, mem, msg, open>>

Option == <<"demo", "managers", "filter", "override", "nodes">>
OptionName == {Option[i] : i \in 1..5}

(* Stable structures when first initialised, and the request counter, which
   stands for the unstable state (with the metrics and the usage record). *)
Memory == [demo : BOOLEAN, managers : SUBSET Principal,
           filter : LogFilter \cup {None}, override : Override \cup {None},
           nodes : Nat, keys : [Provider -> ApiKey \cup {None}],
           counter : 0..MaxRequests]
NODES_IN_SUBNET == 34
FreshMemory == [demo |-> FALSE, managers |-> {}, filter |-> None,
                override |-> None, nodes |-> NODES_IN_SUBNET,
                keys |-> [p \in Provider |-> None], counter |-> 0]

(* kind "update" works through all, a list of keys; kind "install" through
   the names of the options, with their values in args. *)
NoMessage == [kind |-> "none"]
Message ==
  {NoMessage} \cup
  [kind : {"update"}, caller : Principal, all : Entries, next : Nat,
   saved : Memory] \cup
  [kind : {"install"}, args : InstallArgs, next : Nat, saved : Memory]

NotOpen == [provider |-> None]
OpenCall == [provider : Provider, key : ApiKey \cup {None}]

TypeOK ==
  /\ installed \in BOOLEAN
  /\ mem \in Memory
  /\ msg \in Message
  /\ open \in [Call -> {NotOpen} \cup OpenCall]

Init ==
  /\ installed = FALSE
  /\ mem = FreshMemory
  /\ msg = NoMessage
  /\ open = [c \in Call |-> NotOpen]

Idle == msg = NoMessage

-----------------------------------------------------------------------------
(* updateApiKeys *)

(* Mutant of Authorized: the guard is missing. *)
AnyCaller(p) == TRUE

(* require_api_key_principal_or_controller *)
Authorized(p) == p \in mem.managers \/ p \in Controller

(* Mutant of WritableKey: public providers can be given a key. *)
WritableToAny(e) == e.id \in Provider /\ e.key \notin InvalidKey

(* The checks of one entry: the provider exists, is authenticated, and the
   key, if there is one, is valid. *)
WritableKey(e) == e.id \in Authenticated /\ e.key \notin InvalidKey

BeginUpdate(p, entries) ==
  /\ installed /\ Idle
  /\ Authorized(p)
  /\ msg' = [kind |-> "update", caller |-> p, all |-> entries, next |-> 1,
             saved |-> mem]
  /\ UNCHANGED <<installed, mem, open>>

(* One iteration: insert_api_key or remove_api_key. *)
WriteKey ==
  /\ msg.kind = "update"
  /\ msg.next <= Len(msg.all)
  /\ LET e == msg.all[msg.next]
     IN  /\ WritableKey(e)
         /\ mem' = [mem EXCEPT !.keys[e.id] = e.key]
  /\ msg' = [msg EXCEPT !.next = @ + 1]
  /\ UNCHANGED <<installed, open>>

-----------------------------------------------------------------------------
(* init and post_upgrade *)

(* A value its setter accepts. *)
WritableOption(v) == v \notin OversizedFilter \cup InvalidOverride

(* Mutants of Store: an option is stored without looking whether it is given,
   or falls back to its default when it is not. *)
StoreAnyway(m, f, v) == [m EXCEPT ![f] = v]
StoreOrReset(m, f, v) ==
  [m EXCEPT ![f] = IF v = None THEN FreshMemory[f] ELSE v]

(* An option that is not given keeps its value. *)
Store(m, f, v) == IF v = None THEN m ELSE [m EXCEPT ![f] = v]

(* Installation, or an upgrade of a stopped canister: the new code starts with
   the stable memory as it was and with fresh unstable state. *)
BeginInstall(args) ==
  /\ Idle
  /\ \A c \in Call : open[c] = NotOpen
  /\ mem' = [mem EXCEPT !.counter = 0]
  /\ msg' = [kind |-> "install", args |-> args, next |-> 1, saved |-> mem]
  /\ UNCHANGED <<installed, open>>

(* One of the five blocks of post_upgrade. *)
SetOption ==
  /\ msg.kind = "install"
  /\ msg.next <= Len(Option)
  /\ LET f == Option[msg.next]
         v == msg.args[f]
     IN  /\ WritableOption(v)
         /\ mem' = Store(mem, f, v)
  /\ msg' = [msg EXCEPT !.next = @ + 1]
  /\ UNCHANGED <<installed, open>>

-----------------------------------------------------------------------------
(* The end of a message. *)

(* The IC undoes the writes of a message that panics; a new installation or
   an upgrade that fails leaves the canister as it was. *)
Panic ==
  /\ \/ /\ msg.kind = "update"
        /\ msg.next <= Len(msg.all)
        /\ ~WritableKey(msg.all[msg.next])
     \/ /\ msg.kind = "install"
        /\ msg.next <= Len(Option)
        /\ ~WritableOption(msg.args[Option[msg.next]])
  /\ mem' = msg.saved
  /\ msg' = NoMessage
  /\ UNCHANGED <<installed, open>>

Commit ==
  /\ \/ msg.kind = "update" /\ msg.next > Len(msg.all)
     \/ msg.kind = "install" /\ msg.next > Len(Option)
  /\ installed' = TRUE
  /\ msg' = NoMessage
  /\ UNCHANGED <<mem, open>>

-----------------------------------------------------------------------------
(* Calls read the configuration when they start, and use what they read until
   they end, retries included. *)

(* Provider::api: a provider with neither key nor public URL panics. *)
Callable(p) == p \in NoPublicUrl => mem.keys[p] # None

StartCall(c, p) ==
  /\ installed /\ Idle
  /\ open[c] = NotOpen
  /\ Callable(p)
  /\ mem.counter < MaxRequests
  /\ mem' = [mem EXCEPT !.counter = @ + 1]
  /\ open' = [open EXCEPT ![c] = [provider |-> p, key |-> mem.keys[p]]]
  /\ UNCHANGED <<installed, msg>>

EndCall(c) ==
  /\ Idle
  /\ open[c] # NotOpen
  /\ open' = [open EXCEPT ![c] = NotOpen]
  /\ UNCHANGED <<installed, mem, msg>>

Next ==
  \/ \E p \in Principal, entries \in Entries : BeginUpdate(p, entries)
  \/ \E args \in InstallArgs : BeginInstall(args)
  \/ WriteKey \/ SetOption \/ Panic \/ Commit
  \/ \E c \in Call, p \in Provider : StartCall(c, p)
  \/ \E c \in Call : EndCall(c)

Spec == Init /\ [][Next]_vars

-----------------------------------------------------------------------------
(* Properties. *)

(* The entries of a list that count for a provider: the last one does. *)
Positions(list, p) == {i \in 1..Len(list) : list[i].id = p}
LastKey(list, p) ==
  list[CHOOSE i \in Positions(list, p) : \A j \in Positions(list, p) : j <= i].key

(* What the message m means for the memory it started from. *)
Meaning(m) ==
  IF m.kind = "update"
  THEN [m.saved EXCEPT !.keys = [p \in Provider |->
          IF Positions(m.all, p) = {} THEN @[p] ELSE LastKey(m.all, p)]]
  ELSE [f \in DOMAIN m.saved |->
          IF f = "counter" THEN 0
          ELSE IF f = "keys" \/ m.args[f] = None THEN m.saved[f]
          ELSE m.args[f]]

(* Every value of the message can be stored. *)
Sound(m) ==
  IF m.kind = "update"
  THEN \A i \in 1..Len(m.all) : /\ m.all[i].id \in Authenticated
                                /\ m.all[i].key \notin InvalidKey
  ELSE \A f \in OptionName : m.args[f] \notin OversizedFilter \cup InvalidOverride

(* updateApiKeys and post_upgrade take effect as a whole or not at all: all
   the keys of the list (the last one given for a provider), or exactly the
   options given with the others and the keys kept, if every value is valid;
   and otherwise the memory of before, the unstable part included. *)
AllOrNothing ==
  [][msg # NoMessage /\ msg' = NoMessage =>
       mem' = IF Sound(msg) THEN Meaning(msg) ELSE msg.saved
    ]_vars

(* Whatever was updated, upgraded and undone, only authenticated providers
   have keys and each key is a valid one, so that Provider::api always
   builds a URL or a header from it.  A call keeps the key it started with: it
   stays usable for the call although it may have been replaced or removed,
   and a provider without public URL is never called without one. *)
KeysUsable ==
  LET usable(p, key) ==
        key # None => p \in Authenticated /\ key \notin InvalidKey
  IN  /\ \A p \in Provider : usable(p, mem.keys[p])
      /\ \A c \in Call : open[c] # NotOpen =>
           /\ usable(open[c].provider, open[c].key)
           /\ open[c].provider \in NoPublicUrl => open[c].key # None

(* Keys change only while a message of a controller, or of a principal that
   manages keys at that moment, is executed: an upgrade that replaces the
   principals takes the right away at once. *)
KeysChangedByManagers ==
  [][mem'.keys # mem.keys =>
       /\ msg.kind = "update"
       /\ msg.caller \in mem.managers \cup Controller
    ]_vars
=============================================================================
