------------------------ MODULE CanisterConfigProofs ------------------------
(***************************************************************************)
(* Proofs about CanisterConfig for any providers, keys and principals and  *)
(* for argument lists of any length.                                       *)
(***************************************************************************)
EXTENDS CanisterConfig, TLAPS

(* A key a call can use, as in KeysUsable. *)
Usable(p, key) == key # None => p \in Authenticated /\ key \notin InvalidKey

(* i is the last entry before the n-th that is about provider p. *)
LastBefore(list, n, p, i) ==
  /\ i < n /\ list[i].id = p
  /\ \A j \in 1..Len(list) : j < n /\ list[j].id = p => j <= i

(* An update of keys under way: the entries before the next one are written,
   and nothing else has changed. *)
UpdateInv ==
  msg.kind = "update" =>
    /\ msg.next \in 1..(Len(msg.all) + 1)
    /\ msg.caller \in mem.managers \cup Controller
    /\ mem = [msg.saved EXCEPT !.keys = mem.keys]
    /\ \A i \in 1..Len(msg.all) : i < msg.next => WritableKey(msg.all[i])
    /\ \A p \in Provider :
         \/ /\ \A i \in 1..Len(msg.all) : i < msg.next => msg.all[i].id # p
            /\ mem.keys[p] = msg.saved.keys[p]
         \/ \E i \in 1..Len(msg.all) :
              /\ LastBefore(msg.all, msg.next, p, i)
              /\ mem.keys[p] = msg.all[i].key

(* An installation under way: the options before the next one are set. *)
InstallInv ==
  msg.kind = "install" =>
    /\ msg.next \in 1..6
    /\ mem.keys = msg.saved.keys /\ mem.counter = 0
    /\ \A i \in 1..5 :
         mem[Option[i]] = IF i < msg.next /\ msg.args[Option[i]] # None
                          THEN msg.args[Option[i]] ELSE msg.saved[Option[i]]
    /\ \A i \in 1..5 : i < msg.next => WritableOption(msg.args[Option[i]])

(* What a panic goes back to has usable keys only. *)
SavedInv ==
  msg # NoMessage => \A p \in Provider : Usable(p, msg.saved.keys[p])

IInv == TypeOK /\ UpdateInv /\ InstallInv /\ SavedInv /\ KeysUsable
-----------------------------------------------------------------------------
(* Lemmas. *)

(* One entry of updateApiKeys, and the options of an installation. *)
Entry == [id : ProviderId, key : ApiKey \cup {None}]
OptionArgs == [demo : BOOLEAN \cup {None}, managers : {None} \cup SUBSET Principal,
               filter : LogFilter \cup {None}, override : Override \cup {None},
               nodes : Nodes \cup {None}]

(* The kind of a message tells its fields. *)
LEMMA MessageFields ==
  ASSUME TypeOK
  PROVE  /\ msg.kind \in {"none", "update", "install"}
         /\ msg.kind = "none" <=> msg = NoMessage
         /\ msg.kind = "update" =>
              /\ msg \in [kind : {"update"}, caller : Principal, all : Entries,
                          next : Nat, saved : Memory]
              /\ msg.all \in Seq(Entry)
         /\ msg.kind = "install" =>
              /\ msg \in [kind : {"install"}, args : InstallArgs, next : Nat,
                          saved : Memory]
              /\ msg.args \in OptionArgs
         /\ msg # NoMessage => msg.saved \in Memory
  <1>1. msg \in Message
    BY DEF TypeOK
  <1>2. CASE msg = NoMessage
    BY <1>2 DEF NoMessage
  <1>3. CASE msg \in [kind : {"update"}, caller : Principal, all : Entries,
                     next : Nat, saved : Memory]
    <2>1. msg.all \in Seq(Entry)
      BY <1>3, ArgsAssumption DEF Entry
    <2>2. msg.kind = "update" /\ msg # NoMessage /\ msg.saved \in Memory
      BY <1>3 DEF NoMessage
    <2> QED
      BY <1>3, <2>1, <2>2
  <1>4. CASE msg \in [kind : {"install"}, args : InstallArgs, next : Nat,
                     saved : Memory]
    <2>1. msg.args \in InstallArgs
      BY <1>4
    <2>2. msg.kind = "install" /\ msg # NoMessage /\ msg.saved \in Memory
      BY <1>4 DEF NoMessage
    <2> QED
      BY <1>4, <2>1, <2>2, ArgsAssumption DEF OptionArgs
  <1> QED
    BY <1>1, <1>2, <1>3, <1>4 DEF Message

(* The options in the order in which they are set. *)
LEMMA OptionValues ==
  /\ Option[1] = "demo" /\ Option[2] = "managers" /\ Option[3] = "filter"
  /\ Option[4] = "override" /\ Option[5] = "nodes" /\ Len(Option) = 5
  BY DEF Option

(* A memory is determined by its seven items. *)
LEMMA MemoryEqual ==
  ASSUME NEW m \in Memory, NEW n \in Memory,
         \A i \in 1..5 : m[Option[i]] = n[Option[i]],
         m.keys = n.keys, m.counter = n.counter
  PROVE  m = n
  <1>1. /\ m.demo = n.demo /\ m.managers = n.managers /\ m.filter = n.filter
        /\ m.override = n.override /\ m.nodes = n.nodes
    BY OptionValues
  <1> QED
    BY <1>1 DEF Memory

(* What setting the i-th option does to the memory. *)
LEMMA StoreValue ==
  ASSUME mem \in Memory, NEW i \in 1..5, NEW args \in OptionArgs,
         mem' = Store(mem, Option[i], args[Option[i]])
  PROVE  /\ mem' \in Memory
         /\ mem'.keys = mem.keys /\ mem'.counter = mem.counter
         /\ \A j \in 1..5 :
              mem'[Option[j]] = IF j = i /\ args[Option[i]] # None
                                THEN args[Option[i]] ELSE mem[Option[j]]
  <1>1. CASE i = 1
    BY <1>1, OptionValues DEF Store, Memory, OptionArgs
  <1>2. CASE i = 2
    BY <1>2, OptionValues DEF Store, Memory, OptionArgs
  <1>3. CASE i = 3
    BY <1>3, OptionValues DEF Store, Memory, OptionArgs
  <1>4. CASE i = 4
    BY <1>4, OptionValues DEF Store, Memory, OptionArgs
  <1>5. CASE i = 5
    BY <1>5, OptionValues, ValueAssumption DEF Store, Memory, OptionArgs
  <1> QED
    BY <1>1, <1>2, <1>3, <1>4, <1>5
-----------------------------------------------------------------------------
(* Preservation, action by action. *)

(* The keys of a memory that may be left behind. *)
UsableKeys(m) == \A p \in Provider : Usable(p, m.keys[p])

(* Calls that are open have what they need. *)
UsableCalls ==
  \A c \in Call : open[c] # NotOpen =>
    /\ Usable(open[c].provider, open[c].key)
    /\ open[c].provider \in NoPublicUrl => open[c].key # None

(* KeysUsable is about the memory and about the open calls. *)
LEMMA KeysUsableParts == KeysUsable <=> UsableKeys(mem) /\ UsableCalls
  BY DEF KeysUsable, UsableKeys, UsableCalls, Usable

(* A step that ends or has no message needs to keep types and usable keys. *)
LEMMA NoMessageInv ==
  ASSUME TypeOK', KeysUsable', msg' = NoMessage
  PROVE  IInv'
  BY DEF IInv, UpdateInv, InstallInv, SavedInv, NoMessage

(* An update of keys begins. *)
LEMMA BeginUpdateInv ==
  ASSUME IInv, NEW p \in Principal, NEW entries \in Entries,
         BeginUpdate(p, entries)
  PROVE  IInv'
  <1>1. /\ UNCHANGED <<installed, mem, open>> /\ Authorized(p)
        /\ msg' = [kind |-> "update", caller |-> p, all |-> entries, next |-> 1,
                   saved |-> mem]
    BY DEF BeginUpdate
  <1>2. TypeOK /\ mem \in Memory
    BY DEF IInv, TypeOK
  <1>3. Len(entries) \in Nat
    BY ArgsAssumption
  <1>4. msg' \in Message
    BY <1>1, <1>2 DEF Message
  <1>5. TypeOK'
    BY <1>1, <1>2, <1>4 DEF TypeOK
  <1>6. mem = [mem EXCEPT !.keys = mem.keys]
    BY <1>2 DEF Memory
  <1>7. UpdateInv'
    BY <1>1, <1>3, <1>6 DEF UpdateInv, Authorized
  <1>8. InstallInv'
    BY <1>1 DEF InstallInv
  <1>9. KeysUsable' /\ UsableKeys(mem)
    BY <1>1, KeysUsableParts DEF IInv, KeysUsable
  <1>10. SavedInv'
    BY <1>1, <1>9 DEF SavedInv, UsableKeys
  <1> QED
    BY <1>5, <1>7, <1>8, <1>9, <1>10 DEF IInv

(* One key is written. *)
LEMMA WriteKeyInv ==
  ASSUME IInv, WriteKey
  PROVE  IInv'
  <1> DEFINE e == msg.all[msg.next]
  <1>1. /\ msg.kind = "update" /\ msg.next <= Len(msg.all) /\ WritableKey(e)
        /\ mem' = [mem EXCEPT !.keys[e.id] = e.key]
        /\ msg' = [msg EXCEPT !.next = @ + 1] /\ UNCHANGED <<installed, open>>
    BY DEF WriteKey
  <1>2. /\ TypeOK /\ mem \in Memory
        /\ msg \in [kind : {"update"}, caller : Principal, all : Entries,
                    next : Nat, saved : Memory]
        /\ msg.all \in Seq(Entry)
    BY <1>1, MessageFields DEF IInv, TypeOK
  <1>3. /\ msg.next \in 1..Len(msg.all)
        /\ msg.caller \in mem.managers \cup Controller
        /\ mem = [msg.saved EXCEPT !.keys = mem.keys]
        /\ \A i \in 1..Len(msg.all) : i < msg.next => WritableKey(msg.all[i])
    <2>1. UpdateInv /\ Len(msg.all) \in Nat /\ msg.next \in Nat
      BY <1>2 DEF IInv
    <2> QED
      BY <1>1, <2>1 DEF UpdateInv
  <1>4. e \in Entry
    BY <1>2, <1>3
  <1>5. PICK q \in Provider, key \in ApiKey \cup {None} : q = e.id /\ key = e.key
    BY <1>1, <1>4, ProviderAssumption DEF WritableKey, Entry
  <1>a. mem' = [mem EXCEPT !.keys[q] = key]
    BY <1>1, <1>5
  <1> HIDE DEF e
  <1>6. /\ mem' \in Memory
        /\ mem'.keys = [mem.keys EXCEPT ![q] = key]
        /\ mem'.managers = mem.managers
        /\ mem' = [mem EXCEPT !.keys = mem'.keys]
    <2>1. mem \in Memory
      BY <1>2
    <2> QED
      BY <1>5, <1>a, <2>1 DEF Memory
  <1>7. /\ msg' \in [kind : {"update"}, caller : Principal, all : Entries,
                     next : Nat, saved : Memory]
        /\ msg'.kind = "update" /\ msg'.next = msg.next + 1
        /\ msg'.all = msg.all /\ msg'.saved = msg.saved
        /\ msg'.caller = msg.caller
    <2> HIDE DEF e
    <2>1. msg' = [msg EXCEPT !.next = msg.next + 1]
      BY <1>1
    <2> QED
      BY <1>2, <2>1
  <1>8. TypeOK'
    BY <1>1, <1>2, <1>6, <1>7 DEF TypeOK, Message
  <1>9. mem.keys \in [Provider -> ApiKey \cup {None}]
    BY <1>2 DEF Memory
  <1>10. \A p \in Provider : mem'.keys[p] = IF p = e.id THEN e.key ELSE mem.keys[p]
    BY <1>5, <1>6, <1>9
  <1>11. UpdateInv'
    <2>1. msg'.next \in 1..(Len(msg'.all) + 1)
      BY <1>2, <1>3, <1>7
    <2>2. msg'.caller \in mem'.managers \cup Controller
      BY <1>3, <1>6, <1>7
    <2>3. mem' = [msg'.saved EXCEPT !.keys = mem'.keys]
      <3>1. msg.saved \in Memory
        BY <1>2
      <3> QED
        BY <1>3, <1>6, <1>7, <3>1 DEF Memory
    <2>4. \A i \in 1..Len(msg'.all) : i < msg'.next => WritableKey(msg'.all[i])
      <3> SUFFICES ASSUME NEW i \in 1..Len(msg.all), i < msg.next + 1
                   PROVE  WritableKey(msg.all[i])
        BY <1>7
      <3>1. CASE i < msg.next
        BY <1>3, <3>1
      <3>2. CASE i = msg.next
        BY <1>1, <3>2 DEF e
      <3> QED
        BY <1>2, <3>1, <3>2
    <2>5. ASSUME NEW p \in Provider
          PROVE  \/ /\ \A i \in 1..Len(msg'.all) : i < msg'.next => msg'.all[i].id # p
                    /\ mem'.keys[p] = msg'.saved.keys[p]
                 \/ \E i \in 1..Len(msg'.all) :
                      /\ LastBefore(msg'.all, msg'.next, p, i)
                      /\ mem'.keys[p] = msg'.all[i].key
      <3>1. CASE p = e.id
        <4>1. LastBefore(msg.all, msg.next + 1, p, msg.next)
          BY <1>2, <1>3, <3>1 DEF LastBefore, e
        <4>2. mem'.keys[p] = msg.all[msg.next].key
          BY <1>10, <3>1 DEF e
        <4> QED
          BY <1>3, <1>7, <4>1, <4>2
      <3>2. CASE p # e.id
        <4>1. \/ /\ \A i \in 1..Len(msg.all) : i < msg.next => msg.all[i].id # p
                 /\ mem.keys[p] = msg.saved.keys[p]
              \/ \E i \in 1..Len(msg.all) :
                   /\ LastBefore(msg.all, msg.next, p, i)
                   /\ mem.keys[p] = msg.all[i].key
          BY <1>1 DEF IInv, UpdateInv
        <4>2. mem'.keys[p] = mem.keys[p]
          BY <1>10, <3>2
        <4>3. CASE /\ \A i \in 1..Len(msg.all) : i < msg.next => msg.all[i].id # p
                   /\ mem.keys[p] = msg.saved.keys[p]
          <5>1. \A i \in 1..Len(msg.all) : i < msg.next + 1 => msg.all[i].id # p
            <6> SUFFICES ASSUME NEW i \in 1..Len(msg.all), i < msg.next + 1
                         PROVE  msg.all[i].id # p
              OBVIOUS
            <6>1. i < msg.next \/ i = msg.next
              BY <1>3
            <6> QED
              BY <3>2, <4>3, <6>1 DEF e
          <5> QED
            BY <1>7, <4>2, <4>3, <5>1
        <4>4. ASSUME NEW i \in 1..Len(msg.all),
                     LastBefore(msg.all, msg.next, p, i),
                     mem.keys[p] = msg.all[i].key
              PROVE  LastBefore(msg.all, msg.next + 1, p, i)
          <5>1. i < msg.next + 1 /\ msg.all[i].id = p
            BY <1>2, <4>4 DEF LastBefore
          <5>2. ASSUME NEW j \in 1..Len(msg.all), j < msg.next + 1,
                       msg.all[j].id = p
                PROVE  j <= i
            <6>1. j # msg.next
              BY <3>2, <5>2 DEF e
            <6>2. j < msg.next
              BY <1>2, <5>2, <6>1
            <6> QED
              BY <4>4, <5>2, <6>2 DEF LastBefore
          <5> QED
            BY <5>1, <5>2 DEF LastBefore
        <4> QED
          BY <1>7, <4>1, <4>2, <4>3, <4>4
      <3> QED
        BY <3>1, <3>2
    <2> QED
      BY <2>1, <2>2, <2>3, <2>4, <2>5 DEF UpdateInv, WritableKey
  <1>12. InstallInv'
    BY <1>7 DEF InstallInv
  <1>13. SavedInv'
    <2>1. msg # NoMessage
      BY <1>1 DEF NoMessage
    <2> QED
      BY <1>7, <2>1 DEF IInv, SavedInv
  <1>14. KeysUsable'
    <2>1. UsableKeys(mem) /\ UsableCalls
      BY KeysUsableParts DEF IInv
    <2>2. UsableKeys(mem)'
      BY <1>1, <1>10, <2>1 DEF UsableKeys, Usable, WritableKey
    <2>3. UsableCalls'
      BY <1>1, <2>1 DEF UsableCalls
    <2> QED
      BY <2>2, <2>3, KeysUsableParts DEF KeysUsable, UsableKeys, UsableCalls, Usable
  <1> QED
    BY <1>8, <1>11, <1>12, <1>13, <1>14 DEF IInv

(* An installation or upgrade begins. *)
LEMMA BeginInstallInv ==
  ASSUME IInv, NEW args \in InstallArgs, BeginInstall(args)
  PROVE  IInv'
  <1>1. /\ UNCHANGED <<installed, open>> /\ mem' = [mem EXCEPT !.counter = 0]
        /\ msg' = [kind |-> "install", args |-> args, next |-> 1, saved |-> mem]
    BY DEF BeginInstall
  <1>2. TypeOK /\ mem \in Memory
    BY DEF IInv, TypeOK
  <1>3. msg' \in Message
    BY <1>1, <1>2 DEF Message
  <1>4. /\ mem' \in Memory /\ mem'.keys = mem.keys /\ mem'.counter = 0
        /\ \A i \in 1..5 : mem'[Option[i]] = mem[Option[i]]
    BY <1>1, <1>2, OptionValues, ValueAssumption DEF Memory
  <1>5. TypeOK'
    BY <1>1, <1>2, <1>3, <1>4 DEF TypeOK
  <1>6. UpdateInv'
    BY <1>1 DEF UpdateInv
  <1>7. InstallInv'
    BY <1>1, <1>4 DEF InstallInv
  <1>8. UsableKeys(mem) /\ UsableCalls
    BY KeysUsableParts DEF IInv
  <1>9. KeysUsable'
    BY <1>1, <1>4, <1>8 DEF KeysUsable, UsableKeys, UsableCalls, Usable
  <1>10. SavedInv'
    BY <1>1, <1>8 DEF SavedInv, UsableKeys
  <1> QED
    BY <1>5, <1>6, <1>7, <1>9, <1>10 DEF IInv

(* One option is set. *)
LEMMA SetOptionInv ==
  ASSUME IInv, SetOption
  PROVE  IInv'
  <1> DEFINE i == msg.next
             f == Option[i]
             v == msg.args[f]
  <1>1. /\ msg.kind = "install" /\ i <= Len(Option) /\ WritableOption(v)
        /\ mem' = Store(mem, f, v)
        /\ msg' = [msg EXCEPT !.next = @ + 1] /\ UNCHANGED <<installed, open>>
    BY DEF SetOption
  <1>2. /\ TypeOK /\ mem \in Memory
        /\ msg \in [kind : {"install"}, args : InstallArgs, next : Nat,
                    saved : Memory]
        /\ msg.args \in OptionArgs
    BY <1>1, MessageFields DEF IInv, TypeOK
  <1>3. i \in 1..5
    BY <1>1, <1>2, OptionValues DEF IInv, InstallInv
  <1>4. /\ mem' \in Memory /\ mem'.keys = mem.keys /\ mem'.counter = mem.counter
        /\ \A j \in 1..5 : mem'[Option[j]] =
                             IF j = i /\ v # None THEN v ELSE mem[Option[j]]
    <2>1. PICK k \in 1..5, args \in OptionArgs : k = i /\ args = msg.args
      BY <1>2, <1>3
    <2>2. mem \in Memory /\ mem' = Store(mem, Option[k], args[Option[k]])
      BY <1>1, <1>2, <2>1
    <2>3. /\ mem' \in Memory
          /\ mem'.keys = mem.keys /\ mem'.counter = mem.counter
          /\ \A j \in 1..5 :
               mem'[Option[j]] = IF j = k /\ args[Option[k]] # None
                                 THEN args[Option[k]] ELSE mem[Option[j]]
      BY <2>2, StoreValue
    <2> QED
      BY <2>1, <2>3
  <1>5. /\ msg' \in [kind : {"install"}, args : InstallArgs, next : Nat,
                     saved : Memory]
        /\ msg'.kind = "install" /\ msg'.next = i + 1
        /\ msg'.args = msg.args /\ msg'.saved = msg.saved
    BY <1>1, <1>2
  <1>6. TypeOK'
    BY <1>1, <1>2, <1>4, <1>5 DEF TypeOK, Message
  <1>7. UpdateInv'
    BY <1>5 DEF UpdateInv
  <1>8. InstallInv'
    <2>1. /\ mem.keys = msg.saved.keys /\ mem.counter = 0
          /\ \A j \in 1..5 :
               mem[Option[j]] = IF j < i /\ msg.args[Option[j]] # None
                                THEN msg.args[Option[j]] ELSE msg.saved[Option[j]]
          /\ \A j \in 1..5 : j < i => WritableOption(msg.args[Option[j]])
      BY <1>1 DEF IInv, InstallInv
    <2>2. msg'.next \in 1..6
      BY <1>3, <1>5
    <2>3. mem'.keys = msg'.saved.keys /\ mem'.counter = 0
      BY <1>4, <1>5, <2>1
    <2>4. ASSUME NEW j \in 1..5
          PROVE  /\ mem'[Option[j]] =
                      IF j < msg'.next /\ msg'.args[Option[j]] # None
                      THEN msg'.args[Option[j]] ELSE msg'.saved[Option[j]]
                 /\ j < msg'.next => WritableOption(msg'.args[Option[j]])
      <3>1. CASE j = i
        BY <1>1, <1>3, <1>4, <1>5, <2>1, <3>1
      <3>2. CASE j # i
        <4>1. j < i + 1 <=> j < i
          BY <1>3, <3>2
        <4> QED
          BY <1>4, <1>5, <2>1, <3>2, <4>1
      <3> QED
        BY <3>1, <3>2
    <2> QED
      BY <2>2, <2>3, <2>4 DEF InstallInv, WritableOption
  <1>9. KeysUsable'
    <2>1. UsableKeys(mem) /\ UsableCalls
      BY KeysUsableParts DEF IInv
    <2> QED
      BY <1>1, <1>4, <2>1 DEF KeysUsable, UsableKeys, UsableCalls, Usable
  <1>10. SavedInv'
    <2>1. msg # NoMessage
      BY <1>1 DEF NoMessage
    <2> QED
      BY <1>5, <2>1 DEF IInv, SavedInv
  <1> QED
    BY <1>6, <1>7, <1>8, <1>9, <1>10 DEF IInv

(* A message panics or commits. *)
LEMMA EndInv ==
  ASSUME IInv, Panic \/ Commit
  PROVE  IInv'
  <1>1. TypeOK /\ msg' = NoMessage /\ open' = open
    BY DEF IInv, Panic, Commit
  <1>2. UsableKeys(mem) /\ UsableCalls
    BY KeysUsableParts DEF IInv
  <1>3. mem' \in Memory /\ UsableKeys(mem')
    <2>1. CASE Commit
      BY <1>1, <1>2, <2>1 DEF Commit, TypeOK
    <2>2. CASE Panic
      <3>1. msg # NoMessage /\ mem' = msg.saved
        BY <2>2 DEF Panic, NoMessage
      <3> QED
        BY <1>1, <3>1, MessageFields DEF IInv, SavedInv, UsableKeys
    <2> QED
      BY <2>1, <2>2
  <1>4. TypeOK'
    BY <1>1, <1>3 DEF TypeOK, Message, Panic, Commit
  <1>5. KeysUsable'
    BY <1>1, <1>2, <1>3 DEF KeysUsable, UsableKeys, UsableCalls, Usable
  <1> QED
    BY <1>1, <1>4, <1>5, NoMessageInv

(* A call starts. *)
LEMMA StartCallInv ==
  ASSUME IInv, NEW c \in Call, NEW p \in Provider, StartCall(c, p)
  PROVE  IInv'
  <1> DEFINE new == [provider |-> p, key |-> mem.keys[p]]
  <1>1. /\ msg = NoMessage /\ msg' = NoMessage /\ installed' = installed
        /\ Callable(p) /\ mem.counter < MaxRequests
        /\ mem' = [mem EXCEPT !.counter = @ + 1]
        /\ open' = [open EXCEPT ![c] = new]
    BY DEF StartCall, Idle
  <1>2. TypeOK /\ mem \in Memory
    BY DEF IInv, TypeOK
  <1>3. mem' \in Memory /\ mem'.keys = mem.keys
    BY <1>1, <1>2, ValueAssumption DEF Memory
  <1>4. new \in OpenCall
    BY <1>2 DEF OpenCall, Memory
  <1>5. new.provider = p /\ new.key = mem.keys[p]
    OBVIOUS
  <1> HIDE DEF new
  <1>6. TypeOK'
    BY <1>1, <1>2, <1>3, <1>4 DEF TypeOK
  <1>7. UsableKeys(mem) /\ UsableCalls
    BY KeysUsableParts DEF IInv
  <1>8. \A d \in Call : open'[d] = IF d = c THEN new ELSE open[d]
    BY <1>1, <1>2 DEF TypeOK
  <1>9. KeysUsable'
    BY <1>1, <1>3, <1>5, <1>7, <1>8
    DEF KeysUsable, UsableKeys, UsableCalls, Usable, Callable
  <1> QED
    BY <1>1, <1>6, <1>9, NoMessageInv

(* A call ends. *)
LEMMA EndCallInv ==
  ASSUME IInv, NEW c \in Call, EndCall(c)
  PROVE  IInv'
  <1>1. /\ msg' = NoMessage /\ UNCHANGED <<installed, mem, msg>>
        /\ open' = [open EXCEPT ![c] = NotOpen]
    BY DEF EndCall, Idle
  <1>2. TypeOK'
    BY <1>1 DEF IInv, TypeOK
  <1>3. UsableKeys(mem) /\ UsableCalls
    BY KeysUsableParts DEF IInv
  <1>4. \A d \in Call : open'[d] = IF d = c THEN NotOpen ELSE open[d]
    BY <1>1 DEF IInv, TypeOK
  <1>5. KeysUsable'
    BY <1>1, <1>3, <1>4 DEF KeysUsable, UsableKeys, UsableCalls, Usable
  <1> QED
    BY <1>1, <1>2, <1>5, NoMessageInv

(* Every step keeps the invariant. *)
LEMMA NextInv == IInv /\ [Next]_vars => IInv'
  <1> SUFFICES ASSUME IInv, [Next]_vars PROVE IInv'
    OBVIOUS
  <1>1. CASE UNCHANGED vars
    BY <1>1 DEF vars, IInv, TypeOK, UpdateInv, InstallInv, SavedInv, KeysUsable
  <1> QED
    BY <1>1, BeginUpdateInv, WriteKeyInv, BeginInstallInv, SetOptionInv, EndInv,
       StartCallInv, EndCallInv
    DEF Next

-----------------------------------------------------------------------------
(* Theorems. *)

(* The inductive invariant holds in every reachable state. *)
THEOREM ConfigInductive == Spec => []IInv
  <1>1. Init => IInv
    <2> SUFFICES ASSUME Init PROVE IInv
      OBVIOUS
    <2>1. FreshMemory \in Memory
      BY ValueAssumption DEF FreshMemory, Memory, NODES_IN_SUBNET
    <2>2. TypeOK
      BY <2>1 DEF Init, TypeOK, Message
    <2>3. KeysUsable
      BY DEF Init, KeysUsable, FreshMemory
    <2> QED
      BY <2>2, <2>3 DEF Init, IInv, UpdateInv, InstallInv, SavedInv, NoMessage
  <1> QED
    BY <1>1, NextInv, PTL DEF Spec

(* The memory, the message under way and the open calls are well formed,
   whatever lists and options messages carry. *)
THEOREM TypeCorrect == Spec => []TypeOK
  <1>1. IInv => TypeOK
    BY DEF IInv
  <1> QED
    BY <1>1, ConfigInductive, PTL

(* Only authenticated providers ever have keys, the keys are valid, and a call
   keeps a usable one until it ends, across updates, upgrades and panics. *)
THEOREM KeysUsableAlways == Spec => []KeysUsable
  <1>1. IInv => KeysUsable
    BY DEF IInv
  <1> QED
    BY <1>1, ConfigInductive, PTL

(* Keys change only by a message of a principal that may change them at that
   moment. *)
THEOREM OnlyManagersChangeKeys == Spec => KeysChangedByManagers
  <1>1. ASSUME IInv, [Next]_vars, mem'.keys # mem.keys
        PROVE  msg.kind = "update" /\ msg.caller \in mem.managers \cup Controller
    <2>1. mem \in Memory /\ TypeOK
      BY <1>1 DEF IInv, TypeOK
    <2>2. ASSUME msg.kind = "update"
          PROVE  msg.caller \in mem.managers \cup Controller
      BY <1>1, <2>2 DEF IInv, UpdateInv
    <2>3. CASE WriteKey \/ Panic
      <3>1. CASE msg.kind = "install"
        BY <1>1, <2>3, <3>1 DEF IInv, InstallInv, WriteKey, Panic
      <3> QED
        BY <2>2, <2>3, <3>1 DEF WriteKey, Panic
    <2>4. ASSUME SetOption PROVE FALSE
      <3>1. /\ msg.next \in 1..5 /\ mem' = Store(mem, Option[msg.next],
                                                 msg.args[Option[msg.next]])
            /\ msg.kind = "install"
        BY <1>1, <2>4, OptionValues DEF IInv, InstallInv, SetOption
      <3> QED
        BY <1>1, <2>1, <3>1, StoreValue, MessageFields
    <2>5. ASSUME NEW args, BeginInstall(args) PROVE FALSE
      BY <1>1, <2>1, <2>5 DEF BeginInstall, Memory
    <2>6. ASSUME NEW c, NEW p, StartCall(c, p) PROVE FALSE
      BY <1>1, <2>1, <2>6 DEF StartCall, Memory
    <2>7. mem' # mem
      BY <1>1
    <2> QED
      BY <1>1, <2>3, <2>4, <2>5, <2>6, <2>7
      DEF Next, vars, BeginUpdate, Commit, EndCall
  <1>2. IInv /\ [Next]_vars =>
          [mem'.keys # mem.keys =>
             /\ msg.kind = "update"
             /\ msg.caller \in mem.managers \cup Controller]_vars
    BY <1>1
  <1> QED
    BY <1>2, ConfigInductive, PTL DEF Spec, KeysChangedByManagers
(* The last entry about a provider is the one LastKey takes. *)
LEMMA LastKeyValue ==
  ASSUME NEW list, Len(list) \in Nat, NEW p, NEW i \in Positions(list, p),
         \A j \in Positions(list, p) : j <= i
  PROVE  LastKey(list, p) = list[i].key
  <1> DEFINE Last(k) == \A j \in Positions(list, p) : j <= k
             last == CHOOSE k \in Positions(list, p) : Last(k)
  <1>1. last \in Positions(list, p) /\ Last(last)
    <2>1. i \in Positions(list, p) /\ Last(i)
      OBVIOUS
    <2> QED
      BY <2>1, Zenon
  <1>2. last <= i /\ i <= last
    BY <1>1
  <1>3. last \in Int /\ i \in Int
    BY <1>1 DEF Positions
  <1>4. last = i
    BY <1>2, <1>3
  <1> QED
    BY <1>4 DEF LastKey

(* A committed list of keys has been applied: for each provider, its last entry. *)
LEMMA CommittedUpdate ==
  ASSUME IInv, msg.kind = "update", msg.next > Len(msg.all)
  PROVE  Sound(msg) /\ mem = Meaning(msg)
  <1>1. /\ TypeOK /\ mem \in Memory /\ msg.saved \in Memory
        /\ msg.all \in Seq(Entry) /\ msg.next \in Nat
    BY MessageFields DEF IInv, TypeOK, NoMessage
  <1>2. Len(msg.all) \in Nat
    BY <1>1
  <1>3. \A i \in 1..Len(msg.all) : i < msg.next
    BY <1>1, <1>2
  <1>4. UpdateInv
    BY DEF IInv
  <1>5. Sound(msg)
    BY <1>3, <1>4 DEF UpdateInv, Sound, WritableKey
  <1> DEFINE K == [p \in Provider |->
                     IF Positions(msg.all, p) = {} THEN msg.saved.keys[p]
                     ELSE LastKey(msg.all, p)]
  <1>6. ASSUME NEW p \in Provider PROVE mem.keys[p] = K[p]
    <2>1. CASE /\ \A i \in 1..Len(msg.all) : i < msg.next => msg.all[i].id # p
               /\ mem.keys[p] = msg.saved.keys[p]
      <3>1. Positions(msg.all, p) = {}
        BY <1>3, <2>1 DEF Positions
      <3> QED
        BY <2>1, <3>1
    <2>2. ASSUME NEW i \in 1..Len(msg.all),
                 LastBefore(msg.all, msg.next, p, i),
                 mem.keys[p] = msg.all[i].key
          PROVE  mem.keys[p] = K[p]
      <3>1. i \in Positions(msg.all, p) /\ \A j \in Positions(msg.all, p) : j <= i
        BY <1>3, <2>2 DEF Positions, LastBefore
      <3>2. LastKey(msg.all, p) = msg.all[i].key
        BY <1>2, <3>1, LastKeyValue
      <3>3. Positions(msg.all, p) # {}
        BY <3>1
      <3> QED
        BY <2>2, <3>2, <3>3
    <2> QED
      BY <1>4, <2>1, <2>2 DEF UpdateInv
  <1>7. mem.keys = K
    <2>1. mem.keys \in [Provider -> ApiKey \cup {None}]
      BY <1>1 DEF Memory
    <2> HIDE DEF K
    <2>2. K = [p \in Provider |-> K[p]]
      BY DEF K
    <2> QED
      BY <1>6, <2>1, <2>2
  <1>8. Meaning(msg) = [msg.saved EXCEPT !.keys = K]
    BY DEF Meaning
  <1>9. mem = [msg.saved EXCEPT !.keys = mem.keys]
    BY <1>4 DEF UpdateInv
  <1> QED
    BY <1>5, <1>7, <1>8, <1>9

(* A committed installation has set the options given and kept the rest. *)
LEMMA CommittedInstall ==
  ASSUME IInv, msg.kind = "install", msg.next > Len(Option)
  PROVE  Sound(msg) /\ mem = Meaning(msg)
  <1>1. TypeOK /\ mem \in Memory /\ msg.saved \in Memory /\ msg.args \in OptionArgs
    BY MessageFields DEF IInv, TypeOK, NoMessage
  <1>2. msg.next = 6
    BY OptionValues DEF IInv, InstallInv
  <1>3. /\ mem.keys = msg.saved.keys /\ mem.counter = 0
        /\ \A i \in 1..5 :
             mem[Option[i]] = IF msg.args[Option[i]] # None
                              THEN msg.args[Option[i]] ELSE msg.saved[Option[i]]
        /\ \A i \in 1..5 : WritableOption(msg.args[Option[i]])
    BY <1>2 DEF IInv, InstallInv
  <1>4. Sound(msg)
    BY <1>3 DEF Sound, OptionName, WritableOption
  <1> DEFINE new == [f \in DOMAIN msg.saved |->
                       IF f = "counter" THEN 0
                       ELSE IF f = "keys" \/ msg.args[f] = None
                            THEN msg.saved[f] ELSE msg.args[f]]
  <1>5. DOMAIN msg.saved = {"demo", "managers", "filter", "override", "nodes",
                            "keys", "counter"}
        /\ DOMAIN mem = DOMAIN msg.saved
    BY <1>1 DEF Memory
  <1>6. ASSUME NEW f \in DOMAIN mem PROVE mem[f] = new[f]
    <2>1. CASE f \in {"keys", "counter"}
      BY <1>3, <1>5, <2>1
    <2>2. ASSUME NEW i \in 1..5, f = Option[i] PROVE mem[f] = new[f]
      <3>1. f # "counter" /\ f # "keys"
        BY <2>2, OptionValues
      <3> QED
        BY <1>3, <1>5, <2>2, <3>1
    <2>3. f \in {"keys", "counter"} \/ \E i \in 1..5 : f = Option[i]
      BY <1>5, OptionValues
    <2> QED
      BY <2>1, <2>2, <2>3
  <1>7. mem = [f \in DOMAIN mem |-> mem[f]]
    BY <1>1 DEF Memory
  <1>8. mem = new
    BY <1>5, <1>6, <1>7
  <1> QED
    BY <1>4, <1>8 DEF Meaning

(* A message that panics was not sound. *)
LEMMA PanicUnsound ==
  ASSUME IInv, Panic
  PROVE  ~Sound(msg) /\ mem' = msg.saved
  <1>1. mem' = msg.saved
    BY DEF Panic
  <1>2. CASE /\ msg.kind = "update" /\ msg.next <= Len(msg.all)
             /\ ~WritableKey(msg.all[msg.next])
    <2>1. msg.all \in Seq(Entry) /\ msg.next \in 1..(Len(msg.all) + 1)
      BY <1>2, MessageFields DEF IInv, UpdateInv
    <2>2. msg.next \in 1..Len(msg.all)
      BY <1>2, <2>1
    <2> QED
      BY <1>1, <1>2, <2>2 DEF Sound, WritableKey
  <1>3. CASE /\ msg.kind = "install" /\ msg.next <= Len(Option)
             /\ ~WritableOption(msg.args[Option[msg.next]])
    <2>1. msg.next \in 1..5
      BY <1>3, OptionValues DEF IInv, InstallInv
    <2> QED
      BY <1>1, <1>3, <2>1 DEF Sound, OptionName, WritableOption
  <1> QED
    BY <1>2, <1>3 DEF Panic

(* A message that ends has taken effect as a whole, with every value valid,
   or has left the memory of before; for lists of any length, in which a
   provider may be named any number of times. *)
THEOREM MessagesAtomic == Spec => AllOrNothing
  <1>1. ASSUME IInv, [Next]_vars, msg # NoMessage, msg' = NoMessage
        PROVE  mem' = IF Sound(msg) THEN Meaning(msg) ELSE msg.saved
    <2>1. CASE Commit
      <3>1. mem' = mem
        BY <2>1 DEF Commit
      <3> QED
        BY <1>1, <2>1, <3>1, CommittedUpdate, CommittedInstall DEF Commit
    <2>2. CASE Panic
      BY <1>1, <2>2, PanicUnsound
    <2>3. ASSUME WriteKey \/ SetOption PROVE FALSE
      <3>1. msg'.kind = msg.kind
        <4>1. TypeOK /\ msg.kind \in {"update", "install"}
          BY <1>1, <2>3 DEF IInv, WriteKey, SetOption
        <4>2. msg' = [msg EXCEPT !.next = @ + 1]
          BY <2>3 DEF WriteKey, SetOption
        <4> QED
          BY <4>1, <4>2, MessageFields
      <3> QED
        BY <1>1, <2>3, <3>1 DEF WriteKey, SetOption, NoMessage
    <2> QED
      BY <1>1, <2>1, <2>2, <2>3
      DEF Next, vars, BeginUpdate, BeginInstall, Idle, StartCall, EndCall
  <1>2. IInv /\ [Next]_vars =>
          [msg # NoMessage /\ msg' = NoMessage =>
             mem' = IF Sound(msg) THEN Meaning(msg) ELSE msg.saved]_vars
    BY <1>1
  <1> QED
    BY <1>2, ConfigInductive, PTL DEF Spec, AllOrNothing
=============================================================================
