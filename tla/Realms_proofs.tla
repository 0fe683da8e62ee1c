------------------------------ MODULE Realms_proofs ------------------------------
(* Theorems about Realms, for every value of its constants. *)
EXTENDS Realms, TLAPS

-----------------------------------------------------------------------------
(* The inductive invariant. *)

GetPc == {"idle", "find", "previous", "claim", "wait", "built", "nothing", "failed"}
GetState ==
  [pc : GetPc, node : Nodes \cup {None}, realm : RealmIds \cup {None}, entry : Gets \cup {None},
   checkedAt : Nat, previous : Gets \cup {None}, record : Realm \cup {None}, floor : Nat, at : Nat]
OpPc == {"idle", "provision", "save", "forget", "retire", "done"}
OpKind == {"create", "update", "enable", "disable", "remove"}
OpState ==
  [pc : OpPc, kind : OpKind \cup {None}, node : Nodes \cup {None}, realm : RealmIds \cup {None},
   record : Realm \cup {None}]

\* A get that has come to its process and is not resolved to nothing; one that has read its record;
\* one whose load is the entry named after it.
Here(g) == get[g].pc \in {"find", "previous", "claim", "wait", "built"}
Read(g) == get[g].pc \in {"previous", "claim", "built"}
Entry(g) == get[g].pc \in {"find", "previous", "claim", "built"} /\ get[g].entry = g

\* A call that has begun and not ended.
Underway(m) == op[m].pc \notin {"idle", "done"}

\* What the state x of a get, and of a call, holds at each of its places.
Knows(g, x) ==
  /\ x.pc \in {"find", "previous", "claim", "wait", "built"} => x.node \in Nodes /\ x.realm \in RealmIds
  /\ x.pc \in {"previous", "claim", "built"} => x.record \in Realm
  /\ x.pc = "wait" => x.entry \in Gets
  /\ x.pc \in {"find", "previous", "claim"} => x.entry = g
Holds(x) ==
  /\ x.pc \notin {"idle", "done"} => x.node \in Nodes /\ x.realm \in RealmIds
  /\ x.pc \in {"provision", "save", "forget"} => x.record \in Realm

Types ==
  /\ now \in 0..MaxTime /\ late \subseteq Gets /\ provisioned \subseteq RealmIds
  /\ store \in [RealmIds -> Realm \cup {None}]
  /\ version \in [RealmIds -> Nat]
  /\ replaced \subseteq RealmIds \X Nat \X Nat
  /\ cache \in [Nodes -> [RealmIds -> Gets \cup {None}]]
  /\ signers \in [Nodes -> [Keys -> RealmIds \cup {None}]]
  /\ floor \in [Nodes -> [RealmIds -> Nat]]
  /\ get \in [Gets -> GetState] /\ \A g \in Gets : Knows(g, get[g])
  /\ op \in [Operators -> OpState] /\ \A m \in Operators : Holds(op[m])

\* What is cached is the entry of a get of that realm and process, that came after the last forget.
Caches ==
  \A n \in Nodes, id \in RealmIds :
    LET e == cache[n][id] IN
    e # None => Entry(e) /\ get[e].node = n /\ get[e].realm = id /\ get[e].floor = floor[n][id]

\* A record's version is the number of the write that put it there, and none is known before.
Versions ==
  /\ \A id \in RealmIds : store[id] # None => store[id].version = version[id]
  /\ \A r \in replaced : r[2] < version[r[1]]
  /\ \A n \in Nodes, id \in RealmIds : floor[n][id] <= version[id]
  /\ \A m \in Operators : op[m].pc = "forget" => op[m].record.version <= version[op[m].realm]

\* What a get has read was the record when the get came, or replaced no sooner.
Reads ==
  /\ \A g \in Gets : Here(g) =>
       /\ get[g].at <= now /\ get[g].floor <= floor[get[g].node][get[g].realm]
       /\ Entry(g) => get[g].checkedAt = get[g].at
  /\ \A g \in Gets : Read(g) =>
       LET id == get[g].realm  record == get[g].record IN
       /\ record.enabled /\ get[g].floor <= record.version /\ record.version <= version[id]
       /\ store[id] # None /\ store[id].version = record.version => store[id] = record
       /\ \A r \in replaced : r[1] = id /\ r[2] = record.version =>
            r[3] + Revalidate > get[g].at /\ (Entry(g) => r[3] >= get[g].checkedAt)

\* A get that trusted an entry waits for one of its own realm and process, that was still
\* fresh when it came.
Trusts ==
  \A g \in Gets : get[g].pc = "wait" =>
    LET e == get[g].entry IN
    \/ get[e].pc \in {"nothing", "failed"}
    \/ /\ Entry(e) /\ get[e].node = get[g].node /\ get[e].realm = get[g].realm
       /\ get[e].floor = get[g].floor /\ get[g].at < get[e].checkedAt + Revalidate

\* The keys of a realm in a process: there is a set of entries, the one in the cache and whatever
\* it waits for among them, and the keys of all that are built are the realm's.
KeyIn(g) == KeyOf[get[g].realm][get[g].record.settings]
Line(n, id, L) ==
  /\ cache[n][id] # None => cache[n][id] \in L
  /\ \A g \in L :
       /\ get[g].pc \in {"nothing", "failed"} \/ (Entry(g) /\ get[g].node = n /\ get[g].realm = id)
       /\ get[g].pc \in {"find", "previous"} /\ get[g].previous # None => get[g].previous \in L
       /\ get[g].pc = "built" => signers[n][KeyIn(g)] = id
Late(n) == \E g \in late : get[g].node = n
Signers ==
  /\ \A g \in late : get[g].pc = "built"
  /\ \A n \in Nodes, id \in RealmIds : Late(n) \/ \E L \in SUBSET Gets : Line(n, id, L)

IInv == Types /\ Caches /\ Versions /\ Reads /\ Trusts /\ Signers

\* An enabled realm has been provisioned, and so has one a call is about to write back enabled.
Enabled ==
  /\ \A id \in RealmIds : store[id] # None /\ store[id].enabled => id \in provisioned
  /\ \A m \in Operators :
       op[m].pc = "save" /\ op[m].record.enabled /\ op[m].kind # "enable" => op[m].realm \in provisioned

\* No two calls for one realm overlap.
CallsApart ==
  \A m, o \in Operators : Underway(m) /\ Underway(o) /\ op[m].realm = op[o].realm => m = o

-----------------------------------------------------------------------------
(* Types. *)

\* Replacing the state of one get, or of one call, by a well-typed one.
LEMMA GetUpdate ==
  ASSUME Types, NEW g \in Gets, NEW new \in GetState, Knows(g, new),
         get' = [get EXCEPT ![g] = new]
  PROVE  get' \in [Gets -> GetState] /\ \A h \in Gets : Knows(h, get'[h])
<1>1. get \in [Gets -> GetState] /\ \A h \in Gets : Knows(h, get[h])
  BY DEF Types
<1>. QED BY <1>1, Zenon

LEMMA OpUpdate ==
  ASSUME Types, NEW m \in Operators, NEW new \in OpState, Holds(new),
         op' = [op EXCEPT ![m] = new]
  PROVE  op' \in [Operators -> OpState] /\ \A o \in Operators : Holds(op'[o])
<1>1. op \in [Operators -> OpState] /\ \A o \in Operators : Holds(op[o])
  BY DEF Types
<1>. QED BY <1>1, Zenon

LEMMA IdleType == Idle \in GetState /\ Idle.pc = "idle"
BY DEF Idle, GetState, GetPc

LEMMA EndedType == Ended \in OpState /\ Holds(Ended)
BY DEF Ended, Resting, OpState, OpPc, Holds

\* What is known of a get that loads, and of a call that is under way.
LEMMA GetTyped ==
  ASSUME Types, NEW g \in Gets PROVE get[g] \in GetState /\ Knows(g, get[g])
BY DEF Types

LEMMA OpTyped ==
  ASSUME Types, NEW m \in Operators PROVE op[m] \in OpState /\ Holds(op[m])
BY DEF Types

\* What settling does, in plain terms.
LEMMA Settled ==
  ASSUME Types, NEW g \in Gets, NEW pc \in {"built", "nothing", "failed"}, Settle(g, pc),
         get[g].pc \in {"find", "previous", "claim"}, pc = "built" => get[g].pc # "find"
  PROVE  /\ get' \in [Gets -> GetState] /\ \A h \in Gets : Knows(h, get'[h])
         /\ cache' \in [Nodes -> [RealmIds -> Gets \cup {None}]]
         /\ \A h \in Gets \ {g} : get'[h] = get[h]
         /\ pc = "built" =>
              /\ get'[g] = [get[g] EXCEPT !.pc = "built", !.previous = None]
              /\ cache' = cache
         /\ pc # "built" =>
              /\ get'[g] = [Idle EXCEPT !.pc = pc]
              /\ \A n \in Nodes, id \in RealmIds :
                   cache'[n][id] = IF n = get[g].node /\ id = get[g].realm /\ cache[n][id] = g
                                   THEN None ELSE cache[n][id]
<1>1. get[g] \in GetState /\ Knows(g, get[g]) /\ get[g].node \in Nodes /\ get[g].realm \in RealmIds
  BY GetTyped DEF Knows
<1> DEFINE n == get[g].node  id == get[g].realm
           new == IF pc = "built" THEN [get[g] EXCEPT !.pc = pc, !.previous = None]
                  ELSE [Idle EXCEPT !.pc = pc]
           e == IF pc # "built" /\ cache[n][id] = g THEN None ELSE cache[n][id]
<1>2. new \in GetState /\ Knows(g, new)
  BY <1>1 DEF GetState, GetPc, Knows, Idle
<1>3. get' = [get EXCEPT ![g] = new]
  BY <1>1 DEF Settle, Types
<1>4. e \in Gets \cup {None} /\ cache' = [cache EXCEPT ![n][id] = e]
  BY <1>1 DEF Settle, Types
<1>5. pc = "built" => cache' = cache
  BY <1>1, <1>4 DEF Types
<1> HIDE DEF new, e
<1>6. get' \in [Gets -> GetState] /\ \A h \in Gets : Knows(h, get'[h])
  BY <1>2, <1>3, GetUpdate
<1>7. \A h \in Gets : get'[h] = IF h = g THEN new ELSE get[h]
  BY <1>3 DEF Types
<1>8. /\ cache' \in [Nodes -> [RealmIds -> Gets \cup {None}]]
      /\ \A p \in Nodes, i \in RealmIds :
           cache'[p][i] = IF p = n /\ i = id THEN e ELSE cache[p][i]
  BY <1>1, <1>4 DEF Types
<1>. QED BY <1>5, <1>6, <1>7, <1>8, ZenonT(30) DEF new, e

\* Writing a record, or removing it, in plain terms.
LEMMA PutTypes ==
  ASSUME Types, NEW id \in RealmIds, NEW record \in Realm \cup {None}, Put(id, record)
  PROVE  /\ store' \in [RealmIds -> Realm \cup {None}] /\ version' \in [RealmIds -> Nat]
         /\ replaced' \subseteq RealmIds \X Nat \X Nat
         /\ version'[id] = version[id] + 1
         /\ record # None =>
              /\ store'[id] = [record EXCEPT !.version = version[id] + 1]
              /\ store'[id] \in Realm
         /\ record = None => store'[id] = None
         /\ \A i \in RealmIds \ {id} : store'[i] = store[i] /\ version'[i] = version[i]
         /\ replaced' = replaced \cup {<<id, version[id], now>>}
<1>1. version[id] \in Nat /\ version[id] + 1 \in Nat /\ now \in Nat
  BY RealmsAssumption DEF Types
<1>2. record # None => [record EXCEPT !.version = version[id] + 1] \in Realm
  BY <1>1 DEF Realm
<1>. QED BY <1>1, <1>2 DEF Types, Put

\* A key a realm may sign with is a key.
LEMMA KeyTyped ==
  ASSUME NEW id \in RealmIds, NEW record \in Realm
  PROVE  KeyOf[id][record.settings] \in Keys
<1>1. record.settings \in Settings
  BY DEF Realm
<1>2. KeyOf[id][record.settings] \in {KeyOf[id][s] : s \in Settings}
  BY <1>1
<1>3. {KeyOf[id][s] : s \in Settings} \in {{KeyOf[i][s] : s \in Settings} : i \in RealmIds}
  OBVIOUS
<1>. QED BY <1>2, <1>3, Zenon DEF Keys

\* The initial states are well typed.
LEMMA TypesInit == Init => Types
<1> SUFFICES ASSUME Init PROVE Types
  OBVIOUS
<1>1. [settings |-> Original, enabled |-> TRUE, updatedAt |-> 0, version |-> 0] \in Realm
  BY RealmsAssumption DEF Realm
<1>2. Resting \in OpState /\ Holds(Resting)
  BY DEF Resting, OpState, OpPc, Holds
<1>3. op \in [Operators -> OpState] /\ \A m \in Operators : Holds(op[m])
  BY <1>2 DEF Init
<1>4. get \in [Gets -> GetState] /\ \A g \in Gets : Knows(g, get[g])
  BY IdleType DEF Init, Knows
<1>5. now \in 0..MaxTime /\ version \in [RealmIds -> Nat] /\ replaced \subseteq RealmIds \X Nat \X Nat
  BY RealmsAssumption DEF Init
<1>6. store \in [RealmIds -> Realm \cup {None}] /\ late \subseteq Gets /\ provisioned \subseteq RealmIds
  BY <1>1 DEF Init
<1>7. /\ cache \in [Nodes -> [RealmIds -> Gets \cup {None}]]
      /\ signers \in [Nodes -> [Keys -> RealmIds \cup {None}]]
      /\ floor \in [Nodes -> [RealmIds -> Nat]]
  BY DEF Init
<1>. QED BY <1>3, <1>4, <1>5, <1>6, <1>7 DEF Types

\* Every step of a get keeps the types.
LEMMA TypesGet ==
  ASSUME Types, NEW g \in Gets, Arrive(g) \/ Load(g) PROVE Types'
<1>0. get[g] \in GetState /\ Knows(g, get[g])
  BY GetTyped
<1>1. CASE Arrive(g)
  <2>1. PICK n \in Nodes, id \in RealmIds :
          LET cached == cache[n][id]
              request == [Idle EXCEPT !.node = n, !.realm = id, !.floor = floor[n][id], !.at = now]
          IN /\ IF Trusted(cached)
                THEN /\ get' = [get EXCEPT ![g] = [request EXCEPT !.pc = "wait", !.entry = cached]]
                     /\ UNCHANGED cache
                ELSE /\ get' = [get EXCEPT ![g] = [request EXCEPT !.pc = "find", !.entry = g,
                                              !.checkedAt = now, !.previous = cached]]
                     /\ cache' = [cache EXCEPT ![n][id] = g]
             /\ UNCHANGED <<records, signers, now, op, ghosts>>
    BY <1>1 DEF Arrive
  <2>2. now \in Nat /\ floor[n][id] \in Nat /\ cache[n][id] \in Gets \cup {None}
    BY RealmsAssumption DEF Types
  <2> DEFINE request == [Idle EXCEPT !.node = n, !.realm = id, !.floor = floor[n][id], !.at = now]
             waiting == [request EXCEPT !.pc = "wait", !.entry = cache[n][id]]
             loading == [request EXCEPT !.pc = "find", !.entry = g, !.checkedAt = now,
                                       !.previous = cache[n][id]]
  <2>3. cache[n][id] # None => waiting \in GetState /\ Knows(g, waiting)
    BY <2>2 DEF Idle, GetState, GetPc, Knows
  <2>4. loading \in GetState /\ Knows(g, loading)
    BY <2>2 DEF Idle, GetState, GetPc, Knows
  <2>5. \/ cache[n][id] # None /\ get' = [get EXCEPT ![g] = waiting] /\ cache' = cache
        \/ get' = [get EXCEPT ![g] = loading] /\ cache' = [cache EXCEPT ![n][id] = g]
    BY <2>1 DEF Trusted
  <2> HIDE DEF request, waiting, loading
  <2>6. get' \in [Gets -> GetState] /\ \A h \in Gets : Knows(h, get'[h])
    BY <2>3, <2>4, <2>5, GetUpdate
  <2>7. cache' \in [Nodes -> [RealmIds -> Gets \cup {None}]]
    <3>1. n \in Nodes /\ id \in RealmIds
      BY <2>1
    <3>2. CASE cache' = cache
      BY <3>2 DEF Types
    <3>3. CASE cache' = [cache EXCEPT ![n][id] = g]
      BY <3>1, <3>3 DEF Types
    <3>. QED BY <2>5, <3>2, <3>3
  <2>. QED BY <2>1, <2>6, <2>7 DEF Types, records, ghosts
<1>2. CASE FindRealm(g) /\ store[get[g].realm] # None /\ store[get[g].realm].enabled
  <2> DEFINE new == [get[g] EXCEPT !.pc = "previous", !.record = store[get[g].realm]]
  <2>1. get' = [get EXCEPT ![g] = new] /\ get[g].pc = "find" /\ cache' = cache
    BY <1>2 DEF FindRealm, Types
  <2>2. get[g].realm \in RealmIds
    BY <1>0, <2>1 DEF Knows
  <2>3. store[get[g].realm] \in Realm
    BY <1>2, <2>2 DEF Types
  <2>4. new \in GetState /\ Knows(g, new)
    BY <1>0, <2>1, <2>3 DEF GetState, GetPc, Knows
  <2> HIDE DEF new
  <2>5. get' \in [Gets -> GetState] /\ \A h \in Gets : Knows(h, get'[h])
    BY <2>1, <2>4, GetUpdate
  <2>. QED BY <1>2, <2>1, <2>5 DEF FindRealm, Types, records, ghosts
<1>3. CASE Settle(g, "nothing") /\ get[g].pc = "find" /\ UNCHANGED <<records, signers, now, op, ghosts>>
  BY <1>3, Settled DEF Types, records, ghosts
<1>4. CASE Settle(g, "failed") /\ get[g].pc \in {"find", "claim"}
           /\ UNCHANGED <<records, signers, now, op, ghosts>>
  BY <1>4, Settled DEF Types, records, ghosts
<1>5. CASE Settle(g, "built") /\ get[g].pc = "previous" /\ UNCHANGED <<records, signers, now, op, ghosts>>
  BY <1>5, Settled DEF Types, records, ghosts
<1>6. CASE AwaitPrevious(g) /\ get' = [get EXCEPT ![g].pc = "claim"] /\ UNCHANGED cache
  <2> DEFINE new == [get[g] EXCEPT !.pc = "claim"]
  <2>1. get' = [get EXCEPT ![g] = new] /\ get[g].pc = "previous"
    BY <1>6 DEF AwaitPrevious, Types
  <2>2. new \in GetState /\ Knows(g, new)
    BY <1>0, <2>1 DEF GetState, GetPc, Knows
  <2> HIDE DEF new
  <2>3. get' \in [Gets -> GetState] /\ \A h \in Gets : Knows(h, get'[h])
    BY <2>1, <2>2, GetUpdate
  <2>. QED BY <1>6, <2>3 DEF AwaitPrevious, Types, records, ghosts
<1>7. CASE ClaimKeys(g)
  <2>1. get[g].pc = "claim" /\ get[g].node \in Nodes /\ get[g].realm \in RealmIds
    BY <1>0, <1>7 DEF ClaimKeys, Knows
  <2>2. \/ Settle(g, "failed") /\ UNCHANGED <<signers, late>>
        \/ /\ Settle(g, "built") /\ late' \in {late, late \cup {g}}
           /\ \E key : signers' = [signers EXCEPT ![get[g].node] = [k \in Keys |->
                IF k = key THEN get[g].realm
                ELSE IF signers[get[g].node][k] = get[g].realm THEN None
                ELSE signers[get[g].node][k]]]
    BY <1>7 DEF ClaimKeys
  <2>3. signers' \in [Nodes -> [Keys -> RealmIds \cup {None}]]
    <3>1. CASE signers' = signers
      BY <3>1 DEF Types
    <3>2. ASSUME NEW key,
                 signers' = [signers EXCEPT ![get[g].node] = [k \in Keys |->
                   IF k = key THEN get[g].realm
                   ELSE IF signers[get[g].node][k] = get[g].realm THEN None
                   ELSE signers[get[g].node][k]]]
          PROVE  signers' \in [Nodes -> [Keys -> RealmIds \cup {None}]]
      <4> DEFINE row == [k \in Keys |-> IF k = key THEN get[g].realm
                          ELSE IF signers[get[g].node][k] = get[g].realm THEN None
                          ELSE signers[get[g].node][k]]
      <4>1. row \in [Keys -> RealmIds \cup {None}]
        BY <2>1 DEF Types
      <4> HIDE DEF row
      <4>. QED BY <2>1, <3>2, <4>1 DEF Types, row
    <3>. QED BY <2>2, <3>1, <3>2
  <2>5. late' \subseteq Gets
    BY <2>2 DEF Types
  <2>4. /\ get' \in [Gets -> GetState] /\ \A h \in Gets : Knows(h, get'[h])
        /\ cache' \in [Nodes -> [RealmIds -> Gets \cup {None}]]
    BY <2>1, <2>2, Settled
  <2>. QED BY <1>7, <2>3, <2>4, <2>5 DEF ClaimKeys, Types, records
<1>8. CASE Share(g)
  <2> DEFINE e == get[g].entry
             new == IF get[e].pc # "built" THEN get[e]
                    ELSE [get[g] EXCEPT !.pc = "built", !.record = get[e].record, !.entry = None]
  <2>1. e \in Gets /\ get[g].pc = "wait" /\ get' = [get EXCEPT ![g] = new] /\ Resolved(e)
    BY <1>0, <1>8 DEF Share, Types, Knows
  <2>2. get[e] \in GetState /\ Knows(e, get[e])
    BY <2>1 DEF Types
  <2>3. new \in GetState /\ Knows(g, new)
    BY <1>0, <2>1, <2>2 DEF GetState, GetPc, Knows, Resolved
  <2> HIDE DEF new
  <2>4. get' \in [Gets -> GetState] /\ \A h \in Gets : Knows(h, get'[h])
    BY <2>1, <2>3, GetUpdate
  <2>. QED BY <1>8, <2>4 DEF Share, Types, records, ghosts
<1>. QED BY <1>1, <1>2, <1>3, <1>4, <1>5, <1>6, <1>7, <1>8
         DEF Load, FindRealm, FailLoad, AwaitPrevious, Share

\* What update, enable, disable and remove have read, and what they will write.
LEMMA ReadBy ==
  ASSUME Types, NEW m \in Operators, ReadRealm(m)
  PROVE  \E n \in Nodes, id \in RealmIds, kind \in {"update", "enable", "disable", "remove"}, s \in Settings :
           /\ store[id] # None
           /\ Call(m, kind, n, id, [store[id] EXCEPT !.settings = s,
                  !.enabled = IF kind = "update" THEN @ ELSE kind = "enable"], "save")
           /\ UNCHANGED <<records, cache, signers, now, get, ghosts>>
<1>1. \A id \in RealmIds : store[id] # None => store[id].settings \in Settings
  BY DEF Types, Realm
<1>2. PICK n \in Nodes, id \in RealmIds, kind \in {"update", "enable", "disable", "remove"} :
        /\ store[id] # None
        /\ \E s \in IF kind = "update" THEN Settings \ {store[id].settings} ELSE {store[id].settings} :
             Call(m, kind, n, id, [store[id] EXCEPT !.settings = s,
                    !.enabled = IF kind = "update" THEN @ ELSE kind = "enable"], "save")
        /\ UNCHANGED <<records, cache, signers, now, get, ghosts>>
  BY Zenon DEF ReadRealm
<1>3. PICK s \in IF kind = "update" THEN Settings \ {store[id].settings} ELSE {store[id].settings} :
        Call(m, kind, n, id, [store[id] EXCEPT !.settings = s,
               !.enabled = IF kind = "update" THEN @ ELSE kind = "enable"], "save")
  BY <1>2
<1>4. s \in Settings
  BY <1>1, <1>2, <1>3
<1>. QED BY <1>2, <1>3, <1>4, Zenon

\* Every step of a call keeps the types.
LEMMA TypesOp ==
  ASSUME Types, NEW m \in Operators, Create(m) \/ ReadRealm(m) \/ Manage(m) PROVE Types'
<1>0. op[m] \in OpState /\ Holds(op[m])
  BY OpTyped
<1>1. CASE Create(m)
  <2>1. PICK n \in Nodes, id \in RealmIds, s \in Settings :
          LET realm == [settings |-> s, enabled |-> FALSE, updatedAt |-> now, version |-> 0] IN
          /\ Put(id, realm) /\ Call(m, "create", n, id, realm, "provision")
          /\ provisioned' = provisioned \ {id}
          /\ UNCHANGED <<cache, signers, now, get, floor, late>>
    BY <1>1 DEF Create
  <2> DEFINE realm == [settings |-> s, enabled |-> FALSE, updatedAt |-> now, version |-> 0]
             new == [pc |-> "provision", kind |-> "create", node |-> n, realm |-> id, record |-> realm]
  <2>2. realm \in Realm
    BY <2>1 DEF Types, Realm
  <2>3. new \in OpState /\ Holds(new)
    BY <2>1, <2>2 DEF OpState, OpPc, OpKind, Holds
  <2>4. op' = [op EXCEPT ![m] = new]
    BY <2>1 DEF Call
  <2>5. Put(id, realm)
    BY <2>1
  <2> HIDE DEF new, realm
  <2>6. op' \in [Operators -> OpState] /\ \A o \in Operators : Holds(op'[o])
    BY <2>3, <2>4, OpUpdate
  <2>7. /\ store' \in [RealmIds -> Realm \cup {None}] /\ version' \in [RealmIds -> Nat]
        /\ replaced' \subseteq RealmIds \X Nat \X Nat
    BY <2>1, <2>2, <2>5, PutTypes
  <2>. QED BY <2>1, <2>6, <2>7 DEF Types
<1>2. CASE ReadRealm(m)
  <2>1. PICK n \in Nodes, id \in RealmIds, kind \in {"update", "enable", "disable", "remove"}, s \in Settings :
          /\ store[id] # None
          /\ Call(m, kind, n, id, [store[id] EXCEPT !.settings = s,
                 !.enabled = IF kind = "update" THEN @ ELSE kind = "enable"], "save")
          /\ UNCHANGED <<records, cache, signers, now, get, ghosts>>
    BY <1>2, ReadBy
  <2> DEFINE realm == [store[id] EXCEPT !.settings = s,
                         !.enabled = IF kind = "update" THEN @ ELSE kind = "enable"]
             new == [pc |-> "save", kind |-> kind, node |-> n, realm |-> id, record |-> realm]
  <2>2. store[id] \in Realm
    BY <2>1 DEF Types
  <2>3. realm \in Realm
    BY <2>1, <2>2 DEF Realm
  <2>4. new \in OpState /\ Holds(new)
    BY <2>1, <2>3 DEF OpState, OpPc, OpKind, Holds
  <2>5. op' = [op EXCEPT ![m] = new]
    BY <2>1 DEF Call
  <2> HIDE DEF new, realm
  <2>6. op' \in [Operators -> OpState] /\ \A o \in Operators : Holds(op'[o])
    BY <2>4, <2>5, OpUpdate
  <2>. QED BY <2>1, <2>6 DEF Types, records, ghosts
<1>3. CASE Provision(m)
  <2> DEFINE new == [op[m] EXCEPT !.pc = "save", !.record.enabled = TRUE]
  <2>1. op' = [op EXCEPT ![m] = new] /\ op[m].pc = "provision"
    BY <1>3, ZenonT(30) DEF Provision, Types
  <2>2. new \in OpState /\ Holds(new) /\ op[m].realm \in RealmIds
    BY <1>0, <2>1 DEF OpState, OpPc, Holds, Realm
  <2> HIDE DEF new
  <2>3. op' \in [Operators -> OpState] /\ \A o \in Operators : Holds(op'[o])
    BY <2>1, <2>2, OpUpdate
  <2>. QED BY <1>3, <2>2, <2>3 DEF Provision, Types, records
<1>4. CASE (ProvisionFails(m) \/ Retire(m)) /\ op[m].pc \in {"provision", "retire"}
  <2>1. op[m].realm \in RealmIds /\ Put(op[m].realm, None) /\ op' = [op EXCEPT ![m] = Ended]
        /\ provisioned' \in {provisioned, provisioned \ {op[m].realm}}
        /\ UNCHANGED <<cache, signers, now, get, floor, late>>
    BY <1>0, <1>4 DEF Holds, ProvisionFails, Retire, ghosts
  <2>2. op' \in [Operators -> OpState] /\ \A o \in Operators : Holds(op'[o])
    BY <2>1, EndedType, OpUpdate
  <2>3. /\ store' \in [RealmIds -> Realm \cup {None}] /\ version' \in [RealmIds -> Nat]
        /\ replaced' \subseteq RealmIds \X Nat \X Nat
    BY <2>1, PutTypes
  <2>. QED BY <2>1, <2>2, <2>3 DEF Types
<1>5. CASE Save(m)
  <2> DEFINE id == op[m].realm
             record == [op[m].record EXCEPT !.updatedAt = now]
             new == [op[m] EXCEPT !.pc = "forget", !.record = store'[id]]
  <2>1. id \in RealmIds /\ op[m].record \in Realm
    BY <1>0, <1>5 DEF Save, Holds
  <2>2. record \in Realm
    BY <2>1 DEF Types, Realm
  <2>3. Put(id, record) /\ op' = [op EXCEPT ![m] = new] /\ op[m].pc = "save"
        /\ provisioned' \in {provisioned, provisioned \cup {id}}
        /\ UNCHANGED <<cache, signers, now, get, floor, late>>
    BY <1>5 DEF Save, Types
  <2>7. record # None
    BY <2>2, NoneAssumption
  <2> HIDE DEF record, id
  <2>4. /\ store' \in [RealmIds -> Realm \cup {None}] /\ version' \in [RealmIds -> Nat]
        /\ replaced' \subseteq RealmIds \X Nat \X Nat /\ store'[id] \in Realm
    BY <2>1, <2>2, <2>3, <2>7, PutTypes
  <2>5. new \in OpState /\ Holds(new)
    <3>1. op[m].pc = "save" /\ op[m].node \in Nodes /\ op[m].realm \in RealmIds
      BY <1>0, <2>3 DEF Holds
    <3>2. \A r \in Realm : [op[m] EXCEPT !.pc = "forget", !.record = r] \in OpState
                            /\ Holds([op[m] EXCEPT !.pc = "forget", !.record = r])
      BY <1>0, <3>1 DEF OpState, OpPc, Holds
    <3>. QED BY <2>4, <3>2
  <2> HIDE DEF new
  <2>6. op' \in [Operators -> OpState] /\ \A o \in Operators : Holds(op'[o])
    BY <2>3, <2>5, OpUpdate
  <2>. QED BY <2>1, <2>3, <2>4, <2>6 DEF Types
<1>6. CASE Forget(m)
  <2> DEFINE n == op[m].node  id == op[m].realm  v == op[m].record.version
             new == IF op[m].kind = "remove" THEN [op[m] EXCEPT !.pc = "retire"] ELSE Ended
             row == [k \in Keys |-> IF signers[n][k] = id THEN None ELSE signers[n][k]]
  <2>1. op[m].pc = "forget" /\ n \in Nodes /\ id \in RealmIds /\ v \in Nat
    BY <1>0, <1>6 DEF Forget, Holds, Realm
  <2>2. /\ cache' = [cache EXCEPT ![n][id] = None] /\ signers' = [signers EXCEPT ![n] = row]
        /\ floor' = [floor EXCEPT ![n][id] = IF v > @ THEN v ELSE @]
        /\ op' = [op EXCEPT ![m] = new]
        /\ UNCHANGED <<records, now, get, late, provisioned>>
    BY <1>6 DEF Forget, Types
  <2>3. new \in OpState /\ Holds(new)
    BY <1>0, <2>1, EndedType DEF OpState, OpPc, Holds
  <2>4. row \in [Keys -> RealmIds \cup {None}]
    BY <2>1 DEF Types
  <2> HIDE DEF new, row, n, id, v
  <2>5. op' \in [Operators -> OpState] /\ \A o \in Operators : Holds(op'[o])
    BY <2>2, <2>3, OpUpdate
  <2>6. cache' \in [Nodes -> [RealmIds -> Gets \cup {None}]]
    BY <2>1, <2>2 DEF Types
  <2>7. signers' \in [Nodes -> [Keys -> RealmIds \cup {None}]]
    BY <2>1, <2>2, <2>4 DEF Types
  <2>8. floor' \in [Nodes -> [RealmIds -> Nat]]
    BY <2>1, <2>2 DEF Types
  <2>. QED BY <2>2, <2>5, <2>6, <2>7, <2>8 DEF Types, records
<1>. QED BY <1>1, <1>2, <1>3, <1>4, <1>5, <1>6 DEF Manage, ProvisionFails, Retire

LEMMA TypesNext == Types /\ [Next]_vars => Types'
<1> SUFFICES ASSUME Types, [Next]_vars PROVE Types'
  OBVIOUS
<1>1. CASE Tick
  BY <1>1, RealmsAssumption DEF Types, Tick, records, ghosts
<1>2. CASE UNCHANGED vars
  BY <1>2 DEF Types, vars
<1>. QED BY <1>1, <1>2, TypesGet, TypesOp DEF Next

-----------------------------------------------------------------------------
(* What a step of a get changes, in plain terms. *)

\* It trusts what is cached; it puts an entry of its own there.
ComesTo(g, n, id) ==
  /\ get[g].pc = "idle" /\ get'[g].node = n /\ get'[g].realm = id
  /\ get'[g].floor = floor[n][id] /\ get'[g].at = now
Joins(g, n, id) ==
  /\ ComesTo(g, n, id) /\ cache[n][id] # None /\ now < get[cache[n][id]].checkedAt + Revalidate
  /\ get'[g].pc = "wait" /\ get'[g].entry = cache[n][id]
  /\ cache' = cache
Makes(g, n, id) ==
  /\ ComesTo(g, n, id)
  /\ get'[g].pc = "find" /\ get'[g].entry = g /\ get'[g].checkedAt = now
  /\ get'[g].previous = cache[n][id]
  /\ \A p \in Nodes, i \in RealmIds :
       cache'[p][i] = IF p = n /\ i = id THEN g ELSE cache[p][i]

\* It reads an enabled record; it resolves to nothing; it goes on with what it has read;
\* it takes over what it waited for.
Finds(g) ==
  /\ get[g].pc = "find" /\ cache' = cache
  /\ store[get[g].realm] # None /\ store[get[g].realm].enabled
  /\ get'[g] = [get[g] EXCEPT !.pc = "previous", !.record = store[get[g].realm]]
Empties(g) ==
  /\ get[g].pc \in {"find", "claim"} /\ get'[g].pc \in {"nothing", "failed"}
  /\ get'[g] = [Idle EXCEPT !.pc = get'[g].pc]
  /\ \A n \in Nodes, id \in RealmIds :
       cache'[n][id] = IF n = get[g].node /\ id = get[g].realm /\ cache[n][id] = g
                       THEN None ELSE cache[n][id]
Advances(g) ==
  /\ get[g].pc \in {"previous", "claim"} /\ cache' = cache
  /\ \/ get[g].pc = "previous" /\ get'[g] = [get[g] EXCEPT !.pc = "claim"]
     \/ /\ get'[g] = [get[g] EXCEPT !.pc = "built", !.previous = None]
        /\ get[g].pc = "previous" =>
             LET before == get[g].previous IN
             before # None /\ get[before].pc = "built" /\ Same(get[before].record, get[g].record)
Takes(g) ==
  /\ get[g].pc = "wait" /\ cache' = cache
  /\ \/ get[get[g].entry].pc \in {"nothing", "failed"} /\ get'[g] = get[get[g].entry]
     \/ /\ get[get[g].entry].pc = "built"
        /\ get'[g] = [get[g] EXCEPT !.pc = "built", !.record = get[get[g].entry].record, !.entry = None]

LEMMA GetSteps ==
  ASSUME Types, NEW g \in Gets, Arrive(g) \/ Load(g)
  PROVE  /\ UNCHANGED <<store, replaced, version, now, op, floor, provisioned>>
         /\ \A h \in Gets \ {g} : get'[h] = get[h]
         /\ \/ (\E n \in Nodes, id \in RealmIds : Joins(g, n, id) \/ Makes(g, n, id))
               /\ UNCHANGED <<signers, late>>
            \/ /\ Finds(g) \/ Empties(g) \/ Takes(g) \/ (Advances(g) /\ get[g].pc = "previous")
               /\ UNCHANGED <<signers, late>>
            \/ ClaimKeys(g) /\ Advances(g) /\ get[g].pc = "claim" /\ get'[g].pc = "built"
<1>0. get[g] \in GetState /\ get \in [Gets -> GetState] /\ Knows(g, get[g])
  BY DEF Types
<1>1. CASE Arrive(g)
  <2>1. PICK n \in Nodes, id \in RealmIds :
          LET cached == cache[n][id]
              request == [Idle EXCEPT !.node = n, !.realm = id, !.floor = floor[n][id], !.at = now]
          IN /\ get[g].pc = "idle"
             /\ IF Trusted(cached)
                THEN /\ get' = [get EXCEPT ![g] = [request EXCEPT !.pc = "wait", !.entry = cached]]
                     /\ UNCHANGED cache
                ELSE /\ get' = [get EXCEPT ![g] = [request EXCEPT !.pc = "find", !.entry = g,
                                              !.checkedAt = now, !.previous = cached]]
                     /\ cache' = [cache EXCEPT ![n][id] = g]
             /\ UNCHANGED <<records, signers, now, op, ghosts>>
    BY <1>1 DEF Arrive
  <2>2. CASE Trusted(cache[n][id])
    <3>0. get'[g] = [Idle EXCEPT !.node = n, !.realm = id, !.floor = floor[n][id], !.at = now,
                                 !.pc = "wait", !.entry = cache[n][id]]
      BY <1>0, <2>1, <2>2
    <3>1. Joins(g, n, id)
      BY <2>1, <2>2, <3>0 DEF Joins, ComesTo, Trusted, Idle
    <3>. QED BY <1>0, <2>1, <2>2, <3>1 DEF records, ghosts
  <2>3. CASE ~Trusted(cache[n][id])
    <3>1. cache' = [cache EXCEPT ![n][id] = g] /\ n \in Nodes /\ id \in RealmIds
      BY <2>1, <2>3
    <3>2. \A p \in Nodes, i \in RealmIds :
            cache'[p][i] = IF p = n /\ i = id THEN g ELSE cache[p][i]
      BY <3>1 DEF Types
    <3>3. Makes(g, n, id)
      BY <1>0, <2>1, <2>3, <3>2, ZenonT(30) DEF Makes, ComesTo, Idle
    <3>. QED BY <1>0, <2>1, <2>3, <3>3 DEF records, ghosts
  <2>. QED BY <2>2, <2>3
<1>2. CASE FindRealm(g) /\ store[get[g].realm] # None /\ store[get[g].realm].enabled
  BY <1>0, <1>2 DEF FindRealm, Finds, records, ghosts
<1>3. CASE /\ Settle(g, "nothing") \/ Settle(g, "failed")
           /\ get[g].pc \in {"find", "claim"}
           /\ UNCHANGED <<records, signers, now, op, ghosts>>
  <2>1. /\ \A h \in Gets \ {g} : get'[h] = get[h]
        /\ get'[g] = [Idle EXCEPT !.pc = "nothing"] \/ get'[g] = [Idle EXCEPT !.pc = "failed"]
        /\ \A n \in Nodes, id \in RealmIds :
             cache'[n][id] = IF n = get[g].node /\ id = get[g].realm /\ cache[n][id] = g
                             THEN None ELSE cache[n][id]
    BY <1>3, Settled
  <2>2. Empties(g)
    BY <1>3, <2>1 DEF Empties, Idle
  <2>. QED BY <1>3, <2>1, <2>2 DEF records, ghosts
<1>4. CASE AwaitPrevious(g) /\ Settle(g, "built")
           /\ LET before == get[g].previous IN
              before # None /\ get[before].pc = "built" /\ Same(get[before].record, get[g].record)
  BY <1>4, Settled DEF AwaitPrevious, Advances, records, ghosts
<1>5. CASE AwaitPrevious(g) /\ get' = [get EXCEPT ![g].pc = "claim"] /\ UNCHANGED cache
  BY <1>0, <1>5 DEF AwaitPrevious, Advances, records, ghosts
<1>6. CASE ClaimKeys(g) /\ Settle(g, "built")
  <2>1. get[g].pc = "claim" /\ UNCHANGED <<records, now, op, floor, provisioned>>
    BY <1>6 DEF ClaimKeys
  <2>2. /\ \A h \in Gets \ {g} : get'[h] = get[h]
        /\ get'[g] = [get[g] EXCEPT !.pc = "built", !.previous = None] /\ cache' = cache
    BY <1>6, <2>1, Settled
  <2>3. get'[g].pc = "built"
    BY <1>0, <2>2 DEF GetState
  <2>. QED BY <1>6, <2>1, <2>2, <2>3 DEF Advances, records
<1>7. CASE Share(g)
  BY <1>0, <1>7 DEF Share, Takes, Resolved, records, ghosts
<1>8. ClaimKeys(g) => \/ Settle(g, "built")
                      \/ Settle(g, "failed") /\ get[g].pc = "claim"
                         /\ UNCHANGED <<records, signers, now, op, ghosts>>
  BY DEF ClaimKeys, ghosts
<1>. QED BY <1>1, <1>2, <1>3, <1>4, <1>5, <1>6, <1>7, <1>8
         DEF Load, FindRealm, FailLoad, AwaitPrevious

LEMMA Goes ==
  ASSUME Types, NEW g \in Gets, Finds(g) \/ Advances(g)
  PROVE  /\ get'[g].pc \in {"previous", "claim", "built"} /\ cache' = cache
         /\ get'[g].entry = get[g].entry /\ get'[g].node = get[g].node /\ get'[g].realm = get[g].realm
         /\ get'[g].floor = get[g].floor /\ get'[g].at = get[g].at
         /\ get'[g].checkedAt = get[g].checkedAt /\ get[g].entry = g
         /\ get'[g].record = IF Finds(g) THEN store[get[g].realm] ELSE get[g].record
<1>1. get[g] \in GetState /\ Knows(g, get[g])
  BY GetTyped
<1>2. CASE Finds(g)
  BY <1>1, <1>2 DEF Finds, GetState, Knows
<1>3. CASE Advances(g)
  <2>1. ~Finds(g)
    BY <1>3 DEF Finds, Advances
  <2>. QED BY <1>1, <1>3, <2>1 DEF Advances, GetState, Knows
<1>. QED BY <1>2, <1>3

\* What a step of a call changes, in plain terms: it writes a record, reads one, or forgets.
Writes(m, id) ==
  /\ \E record \in Realm \cup {None} : Put(id, record)
  /\ UNCHANGED <<cache, signers, now, get, floor, late>>
  /\ op'[m].pc = "forget" => op'[m].realm = id /\ op'[m].record = store'[id] /\ store'[id] # None
Studies(m) ==
  /\ UNCHANGED <<store, replaced, version, cache, signers, now, get, floor, late>>
  /\ op'[m].pc # "forget"
Forgets(m, n, id) ==
  /\ op[m].pc = "forget" /\ n = op[m].node /\ id = op[m].realm
  /\ UNCHANGED <<store, replaced, version, now, get, late>>
  /\ \A p \in Nodes, i \in RealmIds :
       /\ cache'[p][i] = IF p = n /\ i = id THEN None ELSE cache[p][i]
       /\ floor'[p][i] = IF p = n /\ i = id /\ op[m].record.version > floor[p][i]
                         THEN op[m].record.version ELSE floor[p][i]
  /\ \A p \in Nodes, k \in Keys :
       signers'[p][k] = IF p = n /\ signers[p][k] = id THEN None ELSE signers[p][k]
  /\ op'[m].pc # "forget"

LEMMA OpSteps ==
  ASSUME Types, NEW m \in Operators, Create(m) \/ ReadRealm(m) \/ Manage(m)
  PROVE  /\ \A o \in Operators \ {m} : op'[o] = op[o]
         /\ \E n \in Nodes, id \in RealmIds : Writes(m, id) \/ Studies(m) \/ Forgets(m, n, id)
<1>0. op[m] \in OpState /\ op \in [Operators -> OpState] /\ Holds(op[m])
  BY DEF Types
<1>1. CASE Create(m)
  <2>1. PICK n \in Nodes, id \in RealmIds, s \in Settings :
          LET realm == [settings |-> s, enabled |-> FALSE, updatedAt |-> now, version |-> 0] IN
          /\ Put(id, realm) /\ Call(m, "create", n, id, realm, "provision")
          /\ UNCHANGED <<cache, signers, now, get, floor, late>>
    BY <1>1 DEF Create
  <2>2. [settings |-> s, enabled |-> FALSE, updatedAt |-> now, version |-> 0] \in Realm
    BY <2>1 DEF Types, Realm
  <2>3. op'[m].pc = "provision" /\ \A o \in Operators \ {m} : op'[o] = op[o]
    BY <1>0, <2>1 DEF Call
  <2>4. Writes(m, id)
    BY <2>1, <2>2, <2>3 DEF Writes
  <2>. QED BY <2>1, <2>3, <2>4
<1>2. CASE ReadRealm(m)
  <2>1. PICK n \in Nodes, id \in RealmIds : \E kind, realm : Call(m, kind, n, id, realm, "save")
    BY <1>2, Zenon DEF ReadRealm
  <2>2. op'[m].pc = "save" /\ \A o \in Operators \ {m} : op'[o] = op[o]
    BY <1>0, <2>1 DEF Call
  <2>3. Studies(m)
    BY <1>2, <2>2 DEF ReadRealm, Studies, records, ghosts
  <2>. QED BY <2>1, <2>2, <2>3
<1>3. CASE Provision(m)
  <2>1. op[m].pc = "provision" /\ op[m].node \in Nodes /\ op[m].realm \in RealmIds
    BY <1>0, <1>3 DEF Provision, Holds
  <2>2. op'[m].pc = "save" /\ \A o \in Operators \ {m} : op'[o] = op[o]
    BY <1>0, <1>3 DEF Provision, OpState
  <2>3. Studies(m)
    BY <1>3, <2>2 DEF Provision, Studies, records
  <2>. QED BY <2>1, <2>2, <2>3
<1>4. CASE (ProvisionFails(m) \/ Retire(m)) /\ op[m].pc \in {"provision", "retire"}
  <2>1. op[m].realm \in RealmIds /\ op[m].node \in Nodes
    BY <1>0, <1>4 DEF Holds
  <2>2. op'[m] = Ended /\ \A o \in Operators \ {m} : op'[o] = op[o]
    BY <1>0, <1>4 DEF ProvisionFails, Retire
  <2>3. Writes(m, op[m].realm)
    BY <1>4, <2>2 DEF ProvisionFails, Retire, Writes, ghosts, Ended, Resting
  <2>. QED BY <2>1, <2>2, <2>3
<1>5. CASE Save(m)
  <2> DEFINE id == op[m].realm
             record == [op[m].record EXCEPT !.updatedAt = now]
  <2>1. op[m].pc = "save" /\ id \in RealmIds /\ op[m].node \in Nodes /\ op[m].record \in Realm
    BY <1>0, <1>5 DEF Save, Holds
  <2>2. record \in Realm /\ record # None
    BY <2>1, NoneAssumption DEF Types, Realm
  <2>3. Put(id, record) /\ op' = [op EXCEPT ![m].pc = "forget", ![m].record = store'[id]]
        /\ UNCHANGED <<cache, signers, now, get, floor, late>>
    BY <1>5 DEF Save
  <2> HIDE DEF record
  <2>4. store'[id] \in Realm
    BY <2>1, <2>2, <2>3, PutTypes
  <2>5. op'[m].realm = id /\ op'[m].record = store'[id] /\ \A o \in Operators \ {m} : op'[o] = op[o]
    BY <1>0, <2>3 DEF OpState
  <2>6. Writes(m, id)
    BY <2>2, <2>3, <2>4, <2>5, NoneAssumption DEF Writes
  <2>. QED BY <2>1, <2>5, <2>6
<1>6. CASE Forget(m)
  <2> DEFINE n == op[m].node  id == op[m].realm  v == op[m].record.version
             row == [k \in Keys |-> IF signers[n][k] = id THEN None ELSE signers[n][k]]
  <2>1. op[m].pc = "forget" /\ n \in Nodes /\ id \in RealmIds
    BY <1>0, <1>6 DEF Forget, Holds
  <2>2. /\ cache' = [cache EXCEPT ![n][id] = None] /\ signers' = [signers EXCEPT ![n] = row]
        /\ floor' = [floor EXCEPT ![n][id] = IF v > @ THEN v ELSE @]
        /\ op' = [op EXCEPT ![m] = IF @.kind = "remove" THEN [@ EXCEPT !.pc = "retire"] ELSE Ended]
        /\ UNCHANGED <<records, now, get, late, provisioned>>
    BY <1>6 DEF Forget
  <2>3. op'[m].pc # "forget" /\ \A o \in Operators \ {m} : op'[o] = op[o]
    BY <1>0, <2>2 DEF OpState, Ended, Resting
  <2>4. \A p \in Nodes, k \in Keys :
          signers'[p][k] = IF p = n /\ signers[p][k] = id THEN None ELSE signers[p][k]
    BY <2>1, <2>2 DEF Types
  <2> HIDE DEF n, id, v, row
  <2>5. \A p \in Nodes, i \in RealmIds :
          cache'[p][i] = IF p = n /\ i = id THEN None ELSE cache[p][i]
    BY <2>1, <2>2 DEF Types
  <2>6. \A p \in Nodes, i \in RealmIds :
          floor'[p][i] = IF p = n /\ i = id /\ v > floor[p][i] THEN v ELSE floor[p][i]
    BY <2>1, <2>2 DEF Types
  <2>7. Forgets(m, n, id)
    BY <2>1, <2>2, <2>3, <2>4, <2>5, <2>6 DEF Forgets, records, n, id, v
  <2>. QED BY <2>1, <2>3, <2>7
<1>. QED BY <1>1, <1>2, <1>3, <1>4, <1>5, <1>6 DEF Manage, ProvisionFails, Retire

-----------------------------------------------------------------------------
(* The cache. *)

LEMMA CachesInit == Init => Caches
BY DEF Init, Caches

LEMMA CachesGet ==
  ASSUME Types, Caches, NEW g \in Gets, Arrive(g) \/ Load(g) PROVE Caches'
<1>1. /\ UNCHANGED floor /\ \A h \in Gets \ {g} : get'[h] = get[h]
      /\ \/ \E n \in Nodes, id \in RealmIds : Joins(g, n, id) \/ Makes(g, n, id)
         \/ Finds(g) \/ Empties(g) \/ Advances(g) \/ Takes(g)
  BY GetSteps
<1>2. get[g] \in GetState /\ cache \in [Nodes -> [RealmIds -> Gets \cup {None}]]
  BY DEF Types
<1>3. SUFFICES ASSUME NEW n \in Nodes, NEW id \in RealmIds, cache'[n][id] # None
               PROVE  LET e == cache'[n][id] IN
                      /\ get'[e].pc \in {"find", "previous", "claim", "built"} /\ get'[e].entry = e
                      /\ get'[e].node = n /\ get'[e].realm = id /\ get'[e].floor = floor[n][id]
  BY <1>1 DEF Caches, Entry
<1>4. /\ cache[n][id] \in Gets \cup {None}
      /\ cache[n][id] # None =>
           LET e == cache[n][id] IN
           /\ get[e].pc \in {"find", "previous", "claim", "built"} /\ get[e].entry = e
           /\ get[e].node = n /\ get[e].realm = id /\ get[e].floor = floor[n][id]
  BY DEF Types, Caches, Entry
<1>5. CASE \E p \in Nodes, i \in RealmIds : Joins(g, p, i) \/ Makes(g, p, i)
  BY <1>1, <1>2, <1>3, <1>4, <1>5 DEF Joins, Makes, ComesTo, Entry
<1>6. CASE Finds(g) \/ Advances(g)
  BY <1>1, <1>3, <1>4, <1>6, Goes
<1>7. CASE Empties(g)
  BY <1>1, <1>2, <1>3, <1>4, <1>7 DEF Empties, Entry
<1>8. CASE Takes(g)
  BY <1>1, <1>2, <1>3, <1>4, <1>8 DEF Takes, Entry
<1>. QED BY <1>1, <1>5, <1>6, <1>7, <1>8

LEMMA CachesNext == Types /\ Caches /\ [Next]_vars => Caches'
<1> SUFFICES ASSUME Types, Caches, [Next]_vars PROVE Caches'
  OBVIOUS
<1>1. CASE UNCHANGED <<cache, get, floor>>
  BY <1>1 DEF Caches, Entry
<1>2. ASSUME NEW m \in Operators, NEW n \in Nodes, NEW id \in RealmIds, Forgets(m, n, id) PROVE Caches'
  BY <1>2 DEF Forgets, Caches, Entry
<1>3. ASSUME NEW m \in Operators, Create(m) \/ ReadRealm(m) \/ Manage(m) PROVE Caches'
  <2>1. \E n \in Nodes, id \in RealmIds : Writes(m, id) \/ Studies(m) \/ Forgets(m, n, id)
    BY <1>3, OpSteps
  <2>. QED BY <1>1, <1>2, <2>1 DEF Writes, Studies
<1>. QED BY <1>1, <1>3, CachesGet DEF Next, Tick, vars, ghosts

-----------------------------------------------------------------------------
(* Versions. *)

LEMMA VersionsInit == Init => Versions
BY NoneAssumption DEF Init, Versions, Resting

LEMMA VersionsNext == Types /\ Versions /\ [Next]_vars => Versions'
<1> SUFFICES ASSUME Types, Versions, [Next]_vars PROVE Versions'
  OBVIOUS
<1>1. CASE UNCHANGED <<store, replaced, version, floor, op>>
  BY <1>1 DEF Versions
<1>2. ASSUME NEW m \in Operators, Create(m) \/ ReadRealm(m) \/ Manage(m) PROVE Versions'
  <2>1. \A o \in Operators \ {m} : op'[o] = op[o]
    BY <1>2, OpSteps
  <2>2. \A o \in Operators : op[o].pc = "forget" => op[o].realm \in RealmIds /\ op[o].record \in Realm
    BY DEF Types, Holds
  <2>3. /\ version \in [RealmIds -> Nat] /\ floor \in [Nodes -> [RealmIds -> Nat]]
        /\ replaced \subseteq RealmIds \X Nat \X Nat
    BY DEF Types
  <2>4. ASSUME NEW n \in Nodes, NEW id \in RealmIds, Forgets(m, n, id) PROVE Versions'
    <3>1. op[m].record.version \in Nat /\ op[m].record.version <= version[id]
      BY <2>2, <2>4 DEF Forgets, Versions, Realm
    <3>. QED BY <2>1, <2>3, <2>4, <3>1 DEF Forgets, Versions
  <2>5. ASSUME Studies(m) PROVE Versions'
    BY <2>1, <2>5 DEF Studies, Versions
  <2>6. ASSUME NEW id \in RealmIds, Writes(m, id) PROVE Versions'
    <3>1. PICK record \in Realm \cup {None} : Put(id, record)
      BY <2>6 DEF Writes
    <3>2. /\ version'[id] = version[id] + 1 /\ version[id] \in Nat
          /\ store'[id] # None => store'[id].version = version[id] + 1
          /\ \A i \in RealmIds \ {id} : store'[i] = store[i] /\ version'[i] = version[i]
          /\ replaced' = replaced \cup {<<id, version[id], now>>}
      BY <3>1, PutTypes, NoneAssumption, ZenonT(30) DEF Realm, Types
    <3>3. \A i \in RealmIds : store'[i] # None => store'[i].version = version'[i]
      BY <3>2 DEF Versions
    <3>4. \A r \in replaced' : r[2] < version'[r[1]]
      BY <2>3, <3>2 DEF Versions
    <3>5. \A n \in Nodes, i \in RealmIds : floor'[n][i] <= version'[i]
      BY <2>3, <2>6, <3>2 DEF Versions, Writes
    <3>6. \A o \in Operators : op'[o].pc = "forget" => op'[o].record.version <= version'[op'[o].realm]
      <4>1. ASSUME NEW o \in Operators, o # m, op[o].pc = "forget"
            PROVE  op[o].record.version <= version'[op[o].realm]
        BY <2>2, <2>3, <3>2, <4>1 DEF Versions, Realm
      <4>2. CASE op'[m].pc = "forget"
        <5>1. op'[m].record.version = version'[op'[m].realm] /\ op'[m].realm = id
          BY <2>6, <3>2, <4>2 DEF Writes
        <5>2. version'[id] \in Nat
          BY <3>2
        <5>. QED BY <2>1, <4>1, <5>1, <5>2
      <4>. QED BY <2>1, <4>1, <4>2
    <3>. QED BY <3>3, <3>4, <3>5, <3>6 DEF Versions
  <2>. QED BY <1>2, <2>4, <2>5, <2>6, OpSteps
<1>3. ASSUME NEW g \in Gets, Arrive(g) \/ Load(g) PROVE Versions'
  BY <1>1, <1>3, GetSteps
<1>. QED BY <1>1, <1>2, <1>3 DEF Next, Tick, vars, records, ghosts

-----------------------------------------------------------------------------
(* What has been read, and what is waited for. *)

LEMMA ReadsInit == Init => Reads
BY DEF Init, Reads, Idle, Here, Read

LEMMA ReadsGet ==
  ASSUME Types, Versions, Reads, Trusts, NEW g \in Gets, Arrive(g) \/ Load(g) PROVE Reads'
<1>1. /\ UNCHANGED <<store, replaced, version, now, floor>> /\ \A h \in Gets \ {g} : get'[h] = get[h]
      /\ \/ \E n \in Nodes, id \in RealmIds : Joins(g, n, id) \/ Makes(g, n, id)
         \/ Finds(g) \/ Empties(g) \/ Advances(g) \/ Takes(g)
  BY GetSteps
<1>2. now \in Nat /\ floor \in [Nodes -> [RealmIds -> Nat]] /\ version \in [RealmIds -> Nat]
      /\ replaced \subseteq RealmIds \X Nat \X Nat
  BY RealmsAssumption DEF Types
<1>3. get[g] \in GetState /\ Knows(g, get[g])
  BY GetTyped
<1> DEFINE Arrived == get'[g].pc \in {"find", "previous", "claim", "wait", "built"} =>
             /\ get'[g].at <= now /\ get'[g].floor <= floor[get'[g].node][get'[g].realm]
             /\ get'[g].pc \in {"find", "previous", "claim", "built"} /\ get'[g].entry = g =>
                  get'[g].checkedAt = get'[g].at
           Known == get'[g].pc \in {"previous", "claim", "built"} =>
             LET id == get'[g].realm  record == get'[g].record IN
             /\ record.enabled /\ get'[g].floor <= record.version /\ record.version <= version[id]
             /\ store[id] # None /\ store[id].version = record.version => store[id] = record
             /\ \A r \in replaced : r[1] = id /\ r[2] = record.version =>
                  /\ r[3] + Revalidate > get'[g].at
                  /\ get'[g].entry = g => r[3] >= get'[g].checkedAt
<1>4. SUFFICES Arrived /\ Known
  BY <1>1 DEF Reads, Here, Read, Entry
<1>5. CASE \E n \in Nodes, id \in RealmIds : Joins(g, n, id) \/ Makes(g, n, id)
  BY <1>2, <1>5 DEF Joins, Makes, ComesTo
<1>6. CASE Finds(g)
  <2>1. /\ get[g].pc = "find" /\ get[g].node \in Nodes /\ get[g].realm \in RealmIds /\ get[g].entry = g
        /\ get[g].floor \in Nat /\ store[get[g].realm].enabled
        /\ store[get[g].realm] # None /\ store[get[g].realm].version = version[get[g].realm]
    BY <1>3, <1>6 DEF Finds, Knows, Versions, GetState
  <2>2. get[g].floor <= floor[get[g].node][get[g].realm] /\ get[g].at <= now
        /\ get[g].checkedAt = get[g].at
    BY <2>1 DEF Reads, Here, Entry
  <2>3. floor[get[g].node][get[g].realm] <= version[get[g].realm]
        /\ \A r \in replaced : r[1] = get[g].realm => r[2] < version[get[g].realm]
    BY <2>1 DEF Versions
  <2>4. Arrived
    BY <1>6, <2>1, <2>2, Goes
  <2>5. get'[g].record = store[get[g].realm] /\ get'[g].floor = get[g].floor /\ get'[g].realm = get[g].realm
    BY <1>6, Goes
  <2>6. Known
    BY <1>2, <2>1, <2>2, <2>3, <2>5
  <2>. QED BY <2>4, <2>6
<1>7. CASE Empties(g)
  BY <1>7 DEF Empties
<1>8. CASE Advances(g)
  <2>1. /\ ~Finds(g) /\ get[g].pc \in {"previous", "claim"}
    BY <1>8 DEF Advances, Finds
  <2>2. /\ get'[g].record = get[g].record /\ get'[g].floor = get[g].floor /\ get'[g].realm = get[g].realm
        /\ get'[g].node = get[g].node /\ get'[g].at = get[g].at /\ get'[g].checkedAt = get[g].checkedAt
        /\ get'[g].entry = get[g].entry /\ get[g].entry = g
    BY <1>8, <2>1, Goes
  <2>. QED BY <2>1, <2>2 DEF Reads, Here, Read, Entry
<1>9. CASE Takes(g)
  <2> DEFINE e == get[g].entry
  <2>1. e \in Gets /\ get[g].pc = "wait" /\ e # g
    BY <1>3, <1>9 DEF Takes, Knows
  <2>2. CASE get[e].pc \in {"nothing", "failed"} /\ get'[g] = get[e]
    BY <2>2
  <2>3. CASE /\ get[e].pc = "built"
             /\ get'[g] = [get[g] EXCEPT !.pc = "built", !.record = get[e].record, !.entry = None]
    <3>1. /\ get'[g].record = get[e].record /\ get'[g].floor = get[g].floor /\ get'[g].realm = get[g].realm
          /\ get'[g].node = get[g].node /\ get'[g].at = get[g].at /\ get'[g].entry = None
      BY <1>3, <2>3 DEF GetState
    <3>2. /\ get[e].entry = e /\ get[e].node = get[g].node /\ get[e].realm = get[g].realm
          /\ get[e].floor = get[g].floor /\ get[g].at < get[e].checkedAt + Revalidate
      BY <2>1, <2>3 DEF Trusts, Entry
    <3>3. get[g].at <= now /\ get[g].floor <= floor[get[g].node][get[g].realm]
      BY <2>1 DEF Reads, Here
    <3>4. LET id == get[e].realm  record == get[e].record IN
             /\ record.enabled /\ get[e].floor <= record.version /\ record.version <= version[id]
             /\ store[id] # None /\ store[id].version = record.version => store[id] = record
             /\ \A r \in replaced : r[1] = id /\ r[2] = record.version => r[3] >= get[e].checkedAt
      BY <2>1, <2>3, <3>2 DEF Reads, Read, Entry
    <3>5. get[g].at \in Nat /\ get[e].checkedAt \in Nat /\ Revalidate \in Nat
      BY <1>3, <2>1, RealmsAssumption DEF Types, GetState
    <3>6. Arrived
      BY <3>1, <3>3, NoneAssumption
    <3>7. Known
      BY <1>2, <3>1, <3>2, <3>4, <3>5, NoneAssumption, SMTT(30)
    <3>. QED BY <3>6, <3>7
  <2>. QED BY <1>9, <2>2, <2>3 DEF Takes
<1>. QED BY <1>1, <1>5, <1>6, <1>7, <1>8, <1>9

LEMMA ReadsOp ==
  ASSUME Types, Versions, Reads, NEW m \in Operators, Create(m) \/ ReadRealm(m) \/ Manage(m)
  PROVE  Reads'
<1>1. now \in Nat /\ floor \in [Nodes -> [RealmIds -> Nat]] /\ version \in [RealmIds -> Nat]
      /\ replaced \subseteq RealmIds \X Nat \X Nat /\ Revalidate \in Nat \ {0}
  BY RealmsAssumption DEF Types
<1>2. \A g \in Gets :
        /\ Here(g) => /\ get[g].node \in Nodes /\ get[g].realm \in RealmIds
                      /\ get[g].at \in Nat /\ get[g].floor \in Nat /\ get[g].checkedAt \in Nat
        /\ Read(g) => Here(g) /\ get[g].record.version \in Nat
  BY DEF Types, Knows, GetState, Here, Read, Realm
<1>3. CASE Studies(m)
  BY <1>3 DEF Studies, Reads, Here, Read, Entry
<1>4. ASSUME NEW n \in Nodes, NEW id \in RealmIds, Forgets(m, n, id) PROVE Reads'
  <2>1. op[m].record.version \in Nat
    BY <1>4 DEF Forgets, Types, Holds, Realm
  <2>2. \A p \in Nodes, i \in RealmIds : floor[p][i] <= floor'[p][i] /\ floor'[p][i] \in Nat
    BY <1>1, <1>4, <2>1 DEF Forgets
  <2>3. \A g \in Gets : Here(g) => get[g].floor <= floor'[get[g].node][get[g].realm]
    BY <1>1, <1>2, <2>2 DEF Reads
  <2>4. UNCHANGED <<store, replaced, version, now, get>>
    BY <1>4 DEF Forgets
  <2>. QED BY <2>3, <2>4 DEF Reads, Here, Read, Entry
<1>5. ASSUME NEW id \in RealmIds, Writes(m, id) PROVE Reads'
  <2>1. PICK record \in Realm \cup {None} : Put(id, record)
    BY <1>5 DEF Writes
  <2>2. /\ version'[id] = version[id] + 1 /\ version[id] \in Nat
        /\ store'[id] # None => store'[id].version = version[id] + 1
        /\ \A i \in RealmIds \ {id} : store'[i] = store[i] /\ version'[i] = version[i]
        /\ replaced' = replaced \cup {<<id, version[id], now>>}
    BY <2>1, PutTypes, NoneAssumption, ZenonT(30) DEF Realm, Types
  <2>3. UNCHANGED <<now, get, floor>>
    BY <1>5 DEF Writes
  <2>4. ASSUME NEW g \in Gets, Read(g)
        PROVE  LET i == get[g].realm  known == get[g].record IN
               /\ known.enabled /\ get[g].floor <= known.version /\ known.version <= version'[i]
               /\ store'[i] # None /\ store'[i].version = known.version => store'[i] = known
               /\ \A r \in replaced' : r[1] = i /\ r[2] = known.version =>
                    r[3] + Revalidate > get[g].at /\ (Entry(g) => r[3] >= get[g].checkedAt)
    <3>1. /\ get[g].realm \in RealmIds /\ get[g].record.version \in Nat
          /\ get[g].at \in Nat /\ get[g].checkedAt \in Nat /\ get[g].at <= now
          /\ Entry(g) => get[g].checkedAt = get[g].at
      BY <1>2, <2>4 DEF Reads
    <3>2. LET i == get[g].realm  known == get[g].record IN
          /\ known.enabled /\ get[g].floor <= known.version /\ known.version <= version[i]
          /\ store[i] # None /\ store[i].version = known.version => store[i] = known
          /\ \A r \in replaced : r[1] = i /\ r[2] = known.version =>
               r[3] + Revalidate > get[g].at /\ (Entry(g) => r[3] >= get[g].checkedAt)
      BY <2>4 DEF Reads
    <3>3. get[g].record.version <= version'[get[g].realm]
      BY <1>1, <2>2, <3>1, <3>2
    <3>4. store'[get[g].realm] # None /\ store'[get[g].realm].version = get[g].record.version
            => store'[get[g].realm] = get[g].record
      BY <1>1, <2>2, <3>1, <3>2
    <3>5. now + Revalidate > get[g].at /\ (Entry(g) => now >= get[g].checkedAt)
      BY <1>1, <3>1
    <3>. QED BY <2>2, <3>2, <3>3, <3>4, <3>5
  <2>. QED BY <2>3, <2>4 DEF Reads, Here, Read, Entry
<1>. QED BY <1>3, <1>4, <1>5, OpSteps

LEMMA ReadsNext == Types /\ Versions /\ Reads /\ Trusts /\ [Next]_vars => Reads'
<1> SUFFICES ASSUME Types, Versions, Reads, Trusts, [Next]_vars PROVE Reads'
  OBVIOUS
<1>1. CASE Tick
  <2>1. now \in Nat /\ \A g \in Gets : get[g].at \in Nat
    BY RealmsAssumption DEF Types, GetState
  <2>. QED BY <1>1, <2>1 DEF Tick, Reads, Here, Read, Entry, records, ghosts
<1>2. CASE UNCHANGED vars
  BY <1>2 DEF Reads, Here, Read, Entry, vars
<1>. QED BY <1>1, <1>2, ReadsGet, ReadsOp DEF Next

LEMMA TrustsInit == Init => Trusts
BY DEF Init, Trusts, Idle

LEMMA TrustsNext == Types /\ Caches /\ Trusts /\ [Next]_vars => Trusts'
<1> SUFFICES ASSUME Types, Caches, Trusts, [Next]_vars PROVE Trusts'
  OBVIOUS
<1>1. CASE UNCHANGED get
  BY <1>1 DEF Trusts, Entry
<1>2. ASSUME NEW g \in Gets, Arrive(g) \/ Load(g) PROVE Trusts'
  <2>1. /\ UNCHANGED <<store, replaced, version, now, floor>> /\ \A h \in Gets \ {g} : get'[h] = get[h]
        /\ \/ \E n \in Nodes, id \in RealmIds : Joins(g, n, id) \/ Makes(g, n, id)
           \/ Finds(g) \/ Empties(g) \/ Advances(g) \/ Takes(g)
    BY <1>2, GetSteps
  <2>2. \A h \in Gets : get[h] \in GetState /\ Knows(h, get[h])
    BY DEF Types
  <2>3. ASSUME NEW h \in Gets, get'[h].pc = "wait", h # g
        PROVE  LET e == get[h].entry IN
               \/ get'[e].pc \in {"nothing", "failed"}
               \/ /\ get'[e].pc \in {"find", "previous", "claim", "built"} /\ get'[e].entry = e
                  /\ get'[e].node = get[h].node /\ get'[e].realm = get[h].realm
                  /\ get'[e].floor = get[h].floor /\ get[h].at < get'[e].checkedAt + Revalidate
    <3> DEFINE e == get[h].entry
    <3>1. /\ e \in Gets
          /\ \/ get[e].pc \in {"nothing", "failed"}
             \/ /\ get[e].pc \in {"find", "previous", "claim", "built"} /\ get[e].entry = e
                /\ get[e].node = get[h].node /\ get[e].realm = get[h].realm
                /\ get[e].floor = get[h].floor /\ get[h].at < get[e].checkedAt + Revalidate
      BY <2>1, <2>2, <2>3 DEF Trusts, Entry, Knows
    <3>2. CASE e # g
      BY <2>1, <3>1, <3>2
    <3>3. CASE e = g /\ (Finds(g) \/ Advances(g))
      <4>1. get[g].pc \in {"find", "previous", "claim"}
        BY <3>3 DEF Finds, Advances
      <4>. QED BY <3>1, <3>3, <4>1, Goes
    <3>4. CASE e = g /\ ~(Finds(g) \/ Advances(g))
      BY <2>1, <3>1, <3>4 DEF Joins, Makes, ComesTo, Empties, Takes
    <3>. QED BY <3>2, <3>3, <3>4
  <2>4. ASSUME get'[g].pc = "wait"
        PROVE  LET e == get'[g].entry IN
               /\ get'[e].pc \in {"find", "previous", "claim", "built"} /\ get'[e].entry = e
               /\ get'[e].node = get'[g].node /\ get'[e].realm = get'[g].realm
               /\ get'[e].floor = get'[g].floor /\ get'[g].at < get'[e].checkedAt + Revalidate
    <3>1. PICK n \in Nodes, id \in RealmIds : Joins(g, n, id)
      <4>1. ~Takes(g)
        BY <2>2, <2>4 DEF Takes, GetState
      <4>. QED BY <2>1, <2>4, <4>1, Goes DEF Makes, Empties
    <3>2. LET e == cache[n][id] IN
          /\ e \in Gets /\ get[e].pc \in {"find", "previous", "claim", "built"} /\ get[e].entry = e
          /\ get[e].node = n /\ get[e].realm = id /\ get[e].floor = floor[n][id]
      BY <3>1 DEF Types, Joins, Caches, Entry
    <3>3. cache[n][id] # g
      BY <3>1, <3>2 DEF Joins, ComesTo
    <3>. QED BY <2>1, <3>1, <3>2, <3>3 DEF Joins, ComesTo
  <2>. QED BY <2>1, <2>3, <2>4 DEF Trusts, Entry
<1>3. ASSUME NEW m \in Operators, Create(m) \/ ReadRealm(m) \/ Manage(m) PROVE UNCHANGED get
  BY <1>3, OpSteps DEF Writes, Studies, Forgets
<1>. QED BY <1>1, <1>2, <1>3 DEF Next, Tick, vars

-----------------------------------------------------------------------------
(* Keys. *)

\* What claiming does to the keys of each process.
LEMMA Claimed ==
  ASSUME Types, NEW g \in Gets, ClaimKeys(g), get'[g].pc = "built"
  PROVE  LET n == get[g].node  id == get[g].realm IN
         /\ KeyIn(g) \in Keys /\ signers[n][KeyIn(g)] \in {None, id}
         /\ late' = IF cache[n][id] = g THEN late ELSE late \cup {g}
         /\ \A p \in Nodes, k \in Keys :
              signers'[p][k] = IF p # n THEN signers[p][k]
                               ELSE IF k = KeyIn(g) THEN id
                               ELSE IF signers[p][k] = id THEN None ELSE signers[p][k]
<1> DEFINE n == get[g].node  id == get[g].realm
           row == [k \in Keys |-> IF k = KeyIn(g) THEN id
                                  ELSE IF signers[n][k] = id THEN None ELSE signers[n][k]]
<1>1. get[g].pc = "claim" /\ n \in Nodes /\ id \in RealmIds /\ get[g].record \in Realm
  BY GetTyped DEF ClaimKeys, Knows
<1>2. ~Settle(g, "failed")
  <2>1. SUFFICES ASSUME Settle(g, "failed") PROVE FALSE
    OBVIOUS
  <2>2. get'[g] = [Idle EXCEPT !.pc = "failed"]
    BY <1>1, <2>1, Settled
  <2>. QED BY <2>2 DEF Idle
<1>3. /\ signers[n][KeyIn(g)] \in {None, id}
      /\ late' = IF cache[n][id] = g THEN late ELSE late \cup {g}
      /\ signers' = [signers EXCEPT ![n] = row]
  BY <1>2 DEF ClaimKeys, KeyIn
<1>4. KeyIn(g) \in Keys
  BY <1>1, KeyTyped DEF KeyIn
<1> HIDE DEF n, id
<1>5. \A p \in Nodes, k \in Keys :
        signers'[p][k] = IF p # n THEN signers[p][k]
                         ELSE IF k = KeyIn(g) THEN id
                         ELSE IF signers[p][k] = id THEN None ELSE signers[p][k]
  BY <1>1, <1>3 DEF Types
<1>. QED BY <1>3, <1>4, <1>5 DEF n, id

LEMMA SignersInit == Init => Signers
<1> SUFFICES ASSUME Init PROVE Signers
  OBVIOUS
<1>1. \A n \in Nodes, id \in RealmIds : Line(n, id, {})
  BY DEF Init, Line
<1>. QED BY <1>1 DEF Init, Signers

\* A claim for an entry no longer cached stays so.
LEMMA LateStays ==
  ASSUME Types, Signers, NEW g \in Gets, Arrive(g) \/ Load(g)
  PROVE  /\ \A h \in late' : get'[h].pc = "built"
         /\ \A n \in Nodes : Late(n) => Late(n)'
<1>1. \A h \in late : h \in Gets /\ get[h].pc = "built"
  BY DEF Signers, Types
<1>2. get[g].pc # "built" /\ late \subseteq late' /\ \A h \in Gets \ {g} : get'[h] = get[h]
  BY GetSteps DEF Joins, Makes, ComesTo, Finds, Empties, Advances, Takes, ClaimKeys
<1>3. \A h \in late' \ late : get'[h].pc = "built"
  BY GetSteps DEF ClaimKeys
<1>. QED BY <1>1, <1>2, <1>3 DEF Late

LEMMA SignersGet ==
  ASSUME Types, Signers, NEW g \in Gets, Arrive(g) \/ Load(g),
         NEW n \in Nodes, NEW id \in RealmIds, ~Late(n)'
  PROVE  \E L \in SUBSET Gets : Line(n, id, L)'
<1>1. PICK L \in SUBSET Gets : Line(n, id, L)
  BY LateStays DEF Signers
<1>2. \A h \in Gets \ {g} : get'[h] = get[h]
  BY GetSteps
<1>3. get[g] \in GetState /\ Knows(g, get[g])
  BY GetTyped
<1>4. \A h \in L : h # g =>
        /\ \/ get'[h].pc \in {"nothing", "failed"}
           \/ /\ get'[h].pc \in {"find", "previous", "claim", "built"} /\ get'[h].entry = h
              /\ get'[h].node = n /\ get'[h].realm = id
        /\ get'[h].pc \in {"find", "previous"} /\ get'[h].previous # None => get'[h].previous \in L
        /\ get'[h].pc = "built" => KeyOf[id][get'[h].record.settings] = KeyIn(h)
                                   /\ signers[n][KeyIn(h)] = id
  BY <1>1, <1>2 DEF Line, Entry, KeyIn
<1>5. g \in L /\ get[g].pc \notin {"nothing", "failed"} =>
        /\ get[g].pc \in {"find", "previous", "claim", "built"} /\ get[g].entry = g
        /\ get[g].node = n /\ get[g].realm = id
        /\ get[g].pc \in {"find", "previous"} /\ get[g].previous # None => get[g].previous \in L
  BY <1>1 DEF Line, Entry
<1>6. cache[n][id] # None => cache[n][id] \in L
  BY <1>1 DEF Line
<1> DEFINE Kept(M) ==
      /\ cache'[n][id] # None => cache'[n][id] \in M
      /\ \A h \in M :
           /\ \/ get'[h].pc \in {"nothing", "failed"}
              \/ /\ get'[h].pc \in {"find", "previous", "claim", "built"} /\ get'[h].entry = h
                 /\ get'[h].node = n /\ get'[h].realm = id
           /\ get'[h].pc \in {"find", "previous"} /\ get'[h].previous # None => get'[h].previous \in M
           /\ get'[h].pc = "built" => signers'[n][KeyOf[get'[h].realm][get'[h].record.settings]] = id
<1>7. \A M \in SUBSET Gets : Kept(M) => Line(n, id, M)'
  BY DEF Line, Entry, KeyIn
<1>8. ASSUME NEW p \in Nodes, NEW i \in RealmIds, Joins(g, p, i), UNCHANGED signers
      PROVE  Kept(L)
  BY <1>4, <1>5, <1>6, <1>8 DEF Joins, ComesTo
<1>9. ASSUME NEW p \in Nodes, NEW i \in RealmIds, Makes(g, p, i), UNCHANGED signers
      PROVE  \E M \in SUBSET Gets : Kept(M)
  <2>1. get[g].pc = "idle" /\ g \notin L
    BY <1>5, <1>9 DEF Makes, ComesTo
  <2>2. CASE p = n /\ i = id
    <3>1. Kept(L \cup {g})
      BY <1>4, <1>6, <1>9, <2>1, <2>2 DEF Makes, ComesTo
    <3> HIDE DEF Kept
    <3>2. L \cup {g} \in SUBSET Gets
      OBVIOUS
    <3>. QED BY <3>1, <3>2
  <2>3. CASE ~(p = n /\ i = id)
    <3>1. Kept(L)
      BY <1>4, <1>6, <1>9, <2>1, <2>3 DEF Makes
    <3>. QED BY <3>1
  <2>. QED BY <2>2, <2>3
<1>10. CASE (Empties(g) \/ Takes(g)) /\ UNCHANGED signers
  <2>1. cache'[n][id] # None => cache'[n][id] \in L
    BY <1>6, <1>10 DEF Empties, Takes
  <2>2. g \in L => get'[g].pc \in {"nothing", "failed"}
    <3>1. CASE Empties(g)
      BY <3>1 DEF Empties
    <3>2. CASE Takes(g)
      BY <1>5, <3>2 DEF Takes
    <3>. QED BY <1>10, <3>1, <3>2
  <2>3. Kept(L)
    BY <1>4, <1>10, <2>1, <2>2
  <2>. QED BY <1>7, <2>3
<1>11. CASE Finds(g) /\ UNCHANGED signers
  <2>1. get'[g].pc = "previous" /\ get'[g].previous = get[g].previous /\ get[g].pc = "find"
    BY <1>3, <1>11 DEF Finds, GetState
  <2>2. Kept(L)
    BY <1>4, <1>5, <1>6, <1>11, <2>1, Goes
  <2>. QED BY <1>7, <2>2
<1>12. CASE Advances(g) /\ get[g].pc = "previous" /\ UNCHANGED signers
  <2>1. ~Finds(g)
    BY <1>12 DEF Finds
  <2>2. /\ get'[g].entry = g /\ get'[g].node = get[g].node /\ get'[g].realm = get[g].realm
        /\ get'[g].record = get[g].record /\ cache' = cache
    BY <1>12, <2>1, Goes
  <2>3. CASE get'[g].pc = "claim"
    <3>1. Kept(L)
      BY <1>4, <1>5, <1>6, <1>12, <2>2, <2>3, SMTT(30)
    <3>. QED BY <1>7, <3>1
  <2>4. CASE get'[g].pc = "built" /\ get[g].previous # None /\ get[get[g].previous].pc = "built"
             /\ Same(get[get[g].previous].record, get[g].record)
    <3> DEFINE before == get[g].previous
    <3>1. g \in L => before \in L /\ before # g
      BY <1>5, <1>12, <2>4
    <3>2. g \in L => KeyOf[id][get[before].record.settings] = KeyIn(before) /\ signers[n][KeyIn(before)] = id
      BY <1>2, <1>4, <2>4, <3>1
    <3>3. get[before].record.settings = get[g].record.settings
      BY <2>4 DEF Same
    <3>4. g \in L => signers[n][KeyOf[get'[g].realm][get'[g].record.settings]] = id
      BY <1>5, <1>12, <2>2, <3>2, <3>3
    <3>5. Kept(L)
      BY <1>4, <1>5, <1>6, <1>12, <2>2, <2>4, <3>4, SMTT(30)
    <3>. QED BY <1>7, <3>5
  <2>5. get'[g].pc = "claim" \/ get'[g].pc = "built"
    BY <1>3, <1>12 DEF Advances, GetState
  <2>6. get'[g].pc = "built" => get[g].previous # None /\ get[get[g].previous].pc = "built"
             /\ Same(get[get[g].previous].record, get[g].record)
    BY <1>3, <1>12 DEF Advances, GetState
  <2>. QED BY <2>3, <2>4, <2>5, <2>6
<1>13. CASE ClaimKeys(g) /\ Advances(g) /\ get[g].pc = "claim" /\ get'[g].pc = "built"
  <2> DEFINE p == get[g].node  i == get[g].realm
  <2>1. ~Finds(g)
    BY <1>13 DEF Finds
  <2>2. /\ get'[g].entry = g /\ get'[g].node = p /\ get'[g].realm = i
        /\ get'[g].record = get[g].record /\ cache' = cache /\ get'[g].pc = "built"
    BY <1>13, <2>1, Goes
  <2>3. /\ KeyIn(g) \in Keys /\ signers[p][KeyIn(g)] \in {None, i}
        /\ late' = IF cache[p][i] = g THEN late ELSE late \cup {g}
        /\ \A q \in Nodes, k \in Keys :
             signers'[q][k] = IF q # p THEN signers[q][k]
                              ELSE IF k = KeyIn(g) THEN i
                              ELSE IF signers[q][k] = i THEN None ELSE signers[q][k]
    BY <1>13, Claimed
  <2>4. CASE p = n /\ i = id
    <3>1. cache[n][id] = g
      BY <2>2, <2>3, <2>4 DEF Late
    <3>2. KeyOf[get'[g].realm][get'[g].record.settings] = KeyIn(g)
      BY <2>2 DEF KeyIn
    <3>3. signers'[n][KeyIn(g)] = id
      BY <2>3, <2>4
    <3>4. Kept({g})
      BY <2>2, <2>4, <3>1, <3>2, <3>3
    <3>. QED BY <1>7, <3>4, ZenonT(30)
  <2>5. CASE ~(p = n /\ i = id)
    <3>1. g \notin L
      BY <1>5, <1>13, <2>5
    <3>2. ASSUME NEW h \in L, get'[h].pc = "built" PROVE signers'[n][KeyIn(h)] = id
      <4>1. h # g /\ h \in Gets /\ get[h] = get'[h] /\ get'[h].realm = id /\ signers[n][KeyIn(h)] = id
        BY <1>1, <1>2, <1>4, <3>1, <3>2
      <4>2. KeyIn(h) \in Keys
        <5>1. get[h].record \in Realm
          BY <3>2, <4>1 DEF Types, Knows
        <5>. QED BY <4>1, <5>1, KeyTyped DEF KeyIn
      <4>3. id # None
        BY NoneAssumption
      <4>. QED BY <2>3, <2>5, <4>1, <4>2, <4>3
    <3>3. Kept(L)
      BY <1>4, <1>6, <2>2, <3>1, <3>2
    <3>. QED BY <1>7, <3>3
  <2>. QED BY <2>4, <2>5
<1>14. \/ (\E p \in Nodes, i \in RealmIds : Joins(g, p, i) \/ Makes(g, p, i)) /\ UNCHANGED signers
       \/ (Finds(g) \/ Empties(g) \/ Takes(g) \/ (Advances(g) /\ get[g].pc = "previous")) /\ UNCHANGED signers
       \/ ClaimKeys(g) /\ Advances(g) /\ get[g].pc = "claim" /\ get'[g].pc = "built"
  BY GetSteps
<1> HIDE DEF Kept
<1>. QED BY <1>7, <1>8, <1>9, <1>10, <1>11, <1>12, <1>13, <1>14

LEMMA SignersNext == Types /\ Signers /\ [Next]_vars => Signers'
<1> SUFFICES ASSUME Types, Signers, [Next]_vars PROVE Signers'
  OBVIOUS
<1>1. CASE UNCHANGED <<cache, get, signers, late>>
  <2>1. \A n \in Nodes, id \in RealmIds, L \in SUBSET Gets : Line(n, id, L) => Line(n, id, L)'
    BY <1>1 DEF Line, Entry, KeyIn
  <2>2. \A n \in Nodes : Late(n) => Late(n)'
    BY <1>1 DEF Late
  <2>. QED BY <1>1, <2>1, <2>2 DEF Signers
<1>2. ASSUME NEW m \in Operators, NEW p \in Nodes, NEW i \in RealmIds, Forgets(m, p, i) PROVE Signers'
  <2>1. UNCHANGED <<get, late>>
    BY <1>2 DEF Forgets
  <2>2. ASSUME NEW n \in Nodes, NEW id \in RealmIds, ~Late(n)'
        PROVE  \E L \in SUBSET Gets : Line(n, id, L)'
    <3>1. PICK L \in SUBSET Gets : Line(n, id, L)
      BY <2>1, <2>2 DEF Signers, Late
    <3>2. CASE p = n /\ i = id
      <4>1. Line(n, id, {})'
        BY <1>2, <3>2 DEF Line, Forgets
      <4>. QED BY <4>1
    <3>3. CASE ~(p = n /\ i = id)
      <4>1. ASSUME NEW h \in L, get[h].pc = "built" PROVE signers'[n][KeyIn(h)] = id
        <5>1. signers[n][KeyIn(h)] = id /\ get[h].realm = id
          BY <3>1, <4>1 DEF Line
        <5>2. KeyIn(h) \in Keys
          <6>1. get[h].record \in Realm
            BY <4>1 DEF Types, Knows
          <6>. QED BY <5>1, <6>1, KeyTyped DEF KeyIn
        <5>. QED BY <1>2, <3>3, <5>1, <5>2 DEF Forgets
      <4>2. cache'[n][id] = cache[n][id]
        BY <1>2, <3>3 DEF Forgets
      <4>3. Line(n, id, L)'
        BY <2>1, <3>1, <4>1, <4>2 DEF Line, Entry, KeyIn
      <4>. QED BY <4>3
    <3>. QED BY <3>2, <3>3
  <2>. QED BY <2>1, <2>2 DEF Signers
<1>3. ASSUME NEW g \in Gets, Arrive(g) \/ Load(g) PROVE Signers'
  BY <1>3, LateStays, SignersGet DEF Signers
<1>4. ASSUME NEW m \in Operators, Create(m) \/ ReadRealm(m) \/ Manage(m) PROVE Signers'
  BY <1>1, <1>2, <1>4, OpSteps DEF Writes, Studies
<1>. QED BY <1>1, <1>3, <1>4 DEF Next, Tick, vars, ghosts

-----------------------------------------------------------------------------
(* Provisioning. *)

LEMMA EnabledInit == Init => Enabled
BY DEF Init, Enabled, Resting

LEMMA EnabledOp ==
  ASSUME Types, Enabled, CallsApart, CallsApart',
         NEW m \in Operators, Create(m) \/ ReadRealm(m) \/ Manage(m)
  PROVE  Enabled'
<1>0. /\ op[m] \in OpState /\ op \in [Operators -> OpState] /\ Holds(op[m])
      /\ \A o \in Operators \ {m} : op'[o] = op[o]
  BY OpSteps DEF Types
<1>1. CASE Create(m)
  <2>1. PICK n \in Nodes, id \in RealmIds, s \in Settings :
          LET realm == [settings |-> s, enabled |-> FALSE, updatedAt |-> now, version |-> 0] IN
          /\ Put(id, realm) /\ Call(m, "create", n, id, realm, "provision")
          /\ provisioned' = provisioned \ {id}
    BY <1>1 DEF Create
  <2> DEFINE realm == [settings |-> s, enabled |-> FALSE, updatedAt |-> now, version |-> 0]
  <2>8. realm \in Realm /\ realm.enabled = FALSE
    BY <2>1 DEF Types, Realm
  <2>2. realm \in Realm /\ realm.enabled = FALSE /\ realm # None
    BY <2>8, NoneAssumption
  <2>3. op'[m].pc = "provision" /\ op'[m].realm = id
    BY <1>0, <2>1 DEF Call
  <2>4. Put(id, realm)
    BY <2>1
  <2> HIDE DEF realm
  <2>5. /\ store'[id] = [realm EXCEPT !.version = version[id] + 1]
        /\ \A i \in RealmIds \ {id} : store'[i] = store[i]
    BY <2>2, <2>4, PutTypes
  <2>7. store'[id].enabled = FALSE
    BY <2>2, <2>5 DEF Realm
  <2>6. \A o \in Operators : op'[o].pc = "save" => o # m /\ op'[o].realm # id
    BY <1>0, <2>3 DEF CallsApart, Underway
  <2>. QED BY <1>0, <2>1, <2>5, <2>6, <2>7 DEF Enabled
<1>2. CASE ReadRealm(m)
  <2>1. PICK n \in Nodes, id \in RealmIds, kind \in {"update", "enable", "disable", "remove"}, s \in Settings :
          /\ store[id] # None
          /\ Call(m, kind, n, id, [store[id] EXCEPT !.settings = s,
                 !.enabled = IF kind = "update" THEN @ ELSE kind = "enable"], "save")
          /\ UNCHANGED <<records, cache, signers, now, get, ghosts>>
    BY <1>2, ReadBy
  <2>2. store[id] \in Realm
    BY <2>1 DEF Types
  <2>3. /\ op'[m].realm = id /\ op'[m].kind = kind
        /\ op'[m].record = [store[id] EXCEPT !.settings = s,
                              !.enabled = IF kind = "update" THEN @ ELSE kind = "enable"]
    BY <1>0, <2>1 DEF Call
  <2>4. op'[m].record.enabled /\ op'[m].kind # "enable" => store[id].enabled
    BY <2>1, <2>2, <2>3 DEF Realm
  <2>. QED BY <1>0, <2>1, <2>3, <2>4 DEF Enabled, records, ghosts
<1>3. CASE Provision(m)
  <2>1. op'[m].realm = op[m].realm /\ op[m].pc = "provision"
    BY <1>0, <1>3 DEF Provision, OpState
  <2>. QED BY <1>0, <1>3, <2>1 DEF Provision, Enabled, records
<1>4. CASE (ProvisionFails(m) \/ Retire(m)) /\ op[m].pc \in {"provision", "retire"}
  <2>1. op[m].realm \in RealmIds /\ Put(op[m].realm, None) /\ op' = [op EXCEPT ![m] = Ended]
        /\ provisioned \subseteq provisioned' \cup {op[m].realm}
    BY <1>0, <1>4 DEF Holds, ProvisionFails, Retire, ghosts
  <2>2. store'[op[m].realm] = None /\ \A i \in RealmIds \ {op[m].realm} : store'[i] = store[i]
    BY <2>1, PutTypes
  <2>3. op'[m].pc = "done"
    BY <1>0, <2>1 DEF Ended, Resting
  <2>4. \A o \in Operators : op'[o].pc = "save" => o # m /\ op[o].realm # op[m].realm
    BY <1>0, <1>4, <2>3 DEF CallsApart, Underway
  <2>. QED BY <1>0, <2>1, <2>2, <2>3, <2>4 DEF Enabled
<1>5. CASE Save(m)
  <2> DEFINE id == op[m].realm
             record == [op[m].record EXCEPT !.updatedAt = now]
  <2>1. op[m].pc = "save" /\ id \in RealmIds /\ op[m].record \in Realm
    BY <1>0, <1>5 DEF Save, Holds
  <2>2. record \in Realm /\ record # None /\ record.enabled = op[m].record.enabled
    BY <2>1, NoneAssumption DEF Types, Realm
  <2>3. Put(id, record) /\ op'[m].pc = "forget"
        /\ provisioned' = IF op[m].kind = "enable" THEN provisioned \cup {id} ELSE provisioned
    BY <1>0, <1>5 DEF Save, OpState
  <2> HIDE DEF record, id
  <2>6. /\ store'[id] = [record EXCEPT !.version = version[id] + 1]
        /\ \A i \in RealmIds \ {id} : store'[i] = store[i]
    BY <2>1, <2>2, <2>3, PutTypes
  <2>4. store'[id].enabled = op[m].record.enabled /\ \A i \in RealmIds \ {id} : store'[i] = store[i]
    BY <2>2, <2>6 DEF Realm
  <2> USE DEF id
  <2>5. op[m].record.enabled => id \in provisioned'
    BY <2>1, <2>3 DEF Enabled
  <2>. QED BY <1>0, <2>1, <2>3, <2>4, <2>5 DEF Enabled
<1>6. CASE Forget(m)
  <2>1. op'[m].pc # "save"
    BY <1>0, <1>6 DEF Forget, OpState, Ended, Resting
  <2>. QED BY <1>0, <1>6, <2>1 DEF Forget, Enabled, records
<1>. QED BY <1>1, <1>2, <1>3, <1>4, <1>5, <1>6 DEF Manage, ProvisionFails, Retire

LEMMA EnabledNext == Types /\ Enabled /\ CallsApart /\ CallsApart' /\ [Next]_vars => Enabled'
<1> SUFFICES ASSUME Types, Enabled, CallsApart, CallsApart', [Next]_vars PROVE Enabled'
  OBVIOUS
<1>1. CASE UNCHANGED <<store, op, provisioned>>
  BY <1>1 DEF Enabled
<1>2. ASSUME NEW g \in Gets, Arrive(g) \/ Load(g) PROVE Enabled'
  BY <1>1, <1>2, GetSteps
<1>. QED BY <1>1, <1>2, EnabledOp DEF Next, Tick, vars, records, ghosts

-----------------------------------------------------------------------------
(* Theorems. *)

\* What every reachable state has: entries of their own realm and process, records no older than
\* what was forgotten, and keys that are their realm's.
THEOREM Invariance == Spec => []IInv
<1>1. Init => IInv
  BY TypesInit, CachesInit, VersionsInit, ReadsInit, TrustsInit, SignersInit DEF IInv
<1>2. IInv /\ [Next]_vars => IInv'
  BY TypesNext, CachesNext, VersionsNext, ReadsNext, TrustsNext, SignersNext DEF IInv
<1>. QED BY <1>1, <1>2, PTL DEF Spec

\* The cache holds entries of their own realm and process, and never one that resolved to
\* nothing or failed, so a realm that appears is seen by the next request (realms.ts:83-91).
THEOREM NotRemembered == Spec => []TypeOK
<1>1. IInv => TypeOK
  <2>1. SUFFICES ASSUME IInv PROVE TypeOK
    OBVIOUS
  <2>2. \A n \in Nodes, id \in RealmIds :
          LET e == cache[n][id] IN
          e # None => get[e].node = n /\ get[e].realm = id /\ get[e].pc \notin {"nothing", "failed"}
    BY <2>1 DEF IInv, Caches, Entry
  <2>. QED BY <2>1, <2>2 DEF IInv, Types, TypeOK
<1>. QED BY <1>1, Invariance, PTL

\* However the management calls overlap, a request is served an enabled record that was current
\* less than `revalidate` before it came, and none older than its process had written by then.
THEOREM ServesFresh == Spec => [](Fresh /\ ServedNotOlder)
<1>1. IInv => Fresh /\ ServedNotOlder
  BY DEF IInv, Types, Reads, Read, Fresh, ServedNotOlder
<1>. QED BY <1>1, Invariance, PTL

\* And what it is served has been provisioned, if no two management calls for one realm overlap:
\* update, enable and disable write back the record they read, so one that overlaps a removal
\* can bring an enabled realm back that nobody has provisioned since (realms.ts:136-147).
THEOREM ServesCurrent == Spec /\ []CallsApart => []ServedCurrent
<1>1. IInv /\ Enabled => ServedCurrent
  <2>1. SUFFICES ASSUME IInv, Enabled PROVE ServedCurrent
    OBVIOUS
  <2>2. Fresh /\ ServedNotOlder
    BY <2>1 DEF IInv, Types, Reads, Read, Fresh, ServedNotOlder
  <2>3. ASSUME NEW n \in Nodes, NEW id \in RealmIds, Built(n, id), store[id] # None,
               get[cache[n][id]].record.version = store[id].version
        PROVE  id \in provisioned
    <3> DEFINE e == cache[n][id]
    <3>1. e \in Gets /\ get[e].pc = "built" /\ get[e].realm = id
      BY <2>1, <2>3 DEF IInv, Types, Caches, Built
    <3>2. store[id] = get[e].record /\ get[e].record.enabled
      BY <2>1, <2>3, <3>1 DEF IInv, Reads, Read
    <3>. QED BY <2>1, <2>3, <3>2 DEF Enabled
  <2>. QED BY <2>2, <2>3 DEF ServedCurrent, ServedProvisioned
<1>2. Init => Enabled
  BY EnabledInit
<1>3. IInv /\ Enabled /\ CallsApart /\ CallsApart' /\ [Next]_vars => Enabled'
  BY EnabledNext DEF IInv
<1>. QED BY <1>1, <1>2, <1>3, Invariance, PTL DEF Spec

\* Two realms that a process has cached sign with different keys, unless a build that was in
\* flight when its entry left the cache claimed its keys afterwards.
THEOREM KeepsKeysApart == Spec => []KeysApart
<1>1. IInv => KeysApart
  <2>1. SUFFICES ASSUME IInv, NEW n \in Nodes, NEW a \in RealmIds, NEW b \in RealmIds, a # b,
                        Built(n, a), Built(n, b), \A g \in late : get[g].node # n
                 PROVE  KeyOf[a][get[cache[n][a]].record.settings] # KeyOf[b][get[cache[n][b]].record.settings]
    BY DEF KeysApart
  <2>2. ASSUME NEW id \in RealmIds, Built(n, id)
        PROVE  signers[n][KeyOf[id][get[cache[n][id]].record.settings]] = id
    <3>1. PICK L \in SUBSET Gets : Line(n, id, L)
      BY <2>1 DEF IInv, Signers, Late
    <3>. QED BY <2>2, <3>1 DEF Line, Built, KeyIn
  <2>. QED BY <2>1, <2>2
<1>. QED BY <1>1, Invariance, PTL
================================================================================
