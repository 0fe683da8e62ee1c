--------------------------------- MODULE Realms ---------------------------------
(***************************************************************************)
(* Several issuers in one process (realms.ts).  The realm records are in a *)
(* store that all processes share; each process caches the provider it     *)
(* built from a record and re-reads the record once the entry is           *)
(* `revalidate` old.  Operators change records from any process, and only  *)
(* theirs forgets what it has cached.                                      *)
(*                                                                         *)
(* A get's synchronous part is one step: it finds an entry it may trust,   *)
(* or makes one and starts to load it.  The load reads the record, waits   *)
(* for the entry it replaces, configures a provider and claims its keys.   *)
(* An entry is named by the get that made it.                              *)
(***************************************************************************)
EXTENDS Naturals, FiniteSets

CONSTANTS
  Nodes,      \* the server's processes
  RealmIds,
  Settings,   \* what an operator may set, as far as configure looks
  Original,   \* what the realms there are begin with
  KeyOf,      \* [RealmIds -> [Settings -> the signing key of the provider configured]]
  Gets,       \* requests resolved to a realm
  Operators,  \* calls of the management functions
  Kinds,      \* the functions they may call: create, update, enable, disable, remove
  Revalidate, \* options.revalidate
  MaxTime,    \* the clock stops here
  None

ASSUME RealmsAssumption ==
  /\ Revalidate \in Nat \ {0} /\ MaxTime \in Nat /\ Original \in Settings
  /\ \A id \in RealmIds : DOMAIN KeyOf[id] = Settings

VARIABLES
  store,       \* [RealmIds -> the stored record, or None]
  replaced,    \* the records there were: <<id, version, when it was replaced>>
  version,     \* [RealmIds -> the number of writes so far]
  cache,       \* [Nodes -> [RealmIds -> the entry, or None]]
  signers,     \* [Nodes -> [keys -> the realm that claimed it, or None]]
  now,         \* Date.now()
  get,         \* [Gets -> the state of a request]
  op,          \* [Operators -> the state of a call]
  floor,       \* [Nodes -> [RealmIds -> the version after which an operator forgot the entry]]
  late,        \* the gets that claimed keys for an entry no longer in the cache
  provisioned  \* the realms whose provisioning has ended, or that an operator enabled

vars == <<store, replaced, version, cache, signers, now, get, op, floor, late, provisioned>>
records == <<store, replaced, version>>
ghosts == <<floor, late, provisioned>>

Keys == UNION {{KeyOf[id][s] : s \in Settings} : id \in RealmIds}

\* createdAt and displayName tell nothing apart.  The version is the properties'.
Realm == [settings : Settings, enabled : BOOLEAN, updatedAt : 0..MaxTime, version : Nat]

\* fingerprint: the whole record
Same(a, b) == a.settings = b.settings /\ a.enabled = b.enabled /\ a.updatedAt = b.updatedAt

\* None is none of the things it stands in for.
ASSUME NoneAssumption == None \notin Gets \cup RealmIds \cup Realm

-----------------------------------------------------------------------------
(* Serving.  A get that makes an entry loads it under its own name. *)

Idle == [pc |-> "idle", node |-> None, realm |-> None, entry |-> None, checkedAt |-> 0,
         previous |-> None, record |-> None, floor |-> 0, at |-> 0]

Resolved(e) == get[e].pc \in {"built", "nothing", "failed"}
\* Mutant: trusted for one tick too long.
TrustedLonger(e) == e # None /\ now <= get[e].checkedAt + Revalidate

Trusted(e) == e # None /\ now < get[e].checkedAt + Revalidate

\* get: the entry is in the cache before its record is read.
Arrive(g) == \E n \in Nodes, id \in RealmIds :
  LET cached == cache[n][id]
      request == [Idle EXCEPT !.node = n, !.realm = id, !.floor = floor[n][id], !.at = now]
  IN /\ get[g].pc = "idle"
     /\ IF Trusted(cached)
        THEN /\ get' = [get EXCEPT ![g] = [request EXCEPT !.pc = "wait", !.entry = cached]]
             /\ UNCHANGED cache
        ELSE /\ get' = [get EXCEPT ![g] = [request EXCEPT !.pc = "find", !.entry = g,
                                              !.checkedAt = now, !.previous = cached]]
             /\ cache' = [cache EXCEPT ![n][id] = g]
     /\ UNCHANGED <<records, signers, now, op, ghosts>>

\* Mutant: the entry is put in the cache when it has been built.
SettleCached(g, pc) ==
  LET n == get[g].node  id == get[g].realm IN
  /\ get' = [get EXCEPT ![g].pc = pc, ![g].previous = None]
  /\ cache' = [cache EXCEPT ![n][id] = IF pc = "built" THEN g ELSE IF @ = g THEN None ELSE @]

\* The entry resolves; one that is empty or failed is not remembered (settle).
Settle(g, pc) ==
  LET n == get[g].node  id == get[g].realm IN
  /\ get' = [get EXCEPT ![g] = IF pc = "built" THEN [@ EXCEPT !.pc = pc, !.previous = None]
                               ELSE [Idle EXCEPT !.pc = pc]]
  /\ cache' = [cache EXCEPT ![n][id] = IF pc # "built" /\ @ = g THEN None ELSE @]

\* load: a realm that is absent or disabled resolves to nothing.
FindRealm(g) ==
  LET found == store[get[g].realm] IN
  /\ get[g].pc = "find"
  /\ IF found # None /\ found.enabled
     THEN get' = [get EXCEPT ![g].pc = "previous", ![g].record = found] /\ UNCHANGED cache
     ELSE Settle(g, "nothing")
  /\ UNCHANGED <<records, signers, now, op, ghosts>>

\* The store may throw, or configure: nothing is claimed yet.
FailLoad(g) ==
  /\ get[g].pc \in {"find", "claim"}
  /\ Settle(g, "failed")
  /\ UNCHANGED <<records, signers, now, op, ghosts>>

\* The provider that was built from the same record is kept.
AwaitPrevious(g) ==
  LET before == get[g].previous IN
  /\ get[g].pc = "previous"
  /\ before # None => Resolved(before)
  /\ IF before # None /\ get[before].pc = "built" /\ Same(get[before].record, get[g].record)
     THEN Settle(g, "built")
     ELSE get' = [get EXCEPT ![g].pc = "claim"] /\ UNCHANGED cache
  /\ UNCHANGED <<records, signers, now, op, ghosts>>

\* Mutant: claims over another realm's key.
ClaimKeysOver(g) ==
  LET n == get[g].node  id == get[g].realm  key == KeyOf[id][get[g].record.settings] IN
  /\ get[g].pc = "claim"
  /\ Settle(g, "built")
  /\ signers' = [signers EXCEPT ![n][key] = id]
  /\ late' = IF cache[n][id] = g THEN late ELSE late \cup {g}
  /\ UNCHANGED <<records, now, op, floor, provisioned>>

\* Another realm's key is refused; else the realm's old claims go and the new one stands.
ClaimKeys(g) ==
  LET n == get[g].node  id == get[g].realm  key == KeyOf[id][get[g].record.settings] IN
  /\ get[g].pc = "claim"
  /\ IF signers[n][key] \notin {None, id}
     THEN Settle(g, "failed") /\ UNCHANGED <<signers, late>>
     ELSE /\ Settle(g, "built")
          /\ signers' = [signers EXCEPT ![n] = [k \in Keys |->
               IF k = key THEN id ELSE IF signers[n][k] = id THEN None ELSE signers[n][k]]]
          /\ late' = IF cache[n][id] = g THEN late ELSE late \cup {g}
  /\ UNCHANGED <<records, now, op, floor, provisioned>>

\* A get that trusted an entry waits for it.
Share(g) ==
  LET e == get[g].entry IN
  /\ get[g].pc = "wait" /\ Resolved(e)
  /\ get' = [get EXCEPT ![g] = IF get[e].pc # "built" THEN get[e]
                 ELSE [@ EXCEPT !.pc = "built", !.record = get[e].record, !.entry = None]]
  /\ UNCHANGED <<records, cache, signers, now, op, ghosts>>

-----------------------------------------------------------------------------
(* Management. *)

\* store.upsert and store.destroy; the versions are the properties'.
Put(id, record) ==
  /\ version' = [version EXCEPT ![id] = @ + 1]
  /\ store' = [store EXCEPT ![id] = IF record = None THEN None
                                    ELSE [record EXCEPT !.version = version[id] + 1]]
  /\ replaced' = replaced \cup {<<id, version[id], now>>}

Resting == [pc |-> "idle", kind |-> None, node |-> None, realm |-> None, record |-> None]
Ended == [Resting EXCEPT !.pc = "done"]
Begin(m, kind) == op[m].pc = "idle" /\ kind \in Kinds
Call(m, kind, n, id, realm, pc) ==
  op' = [op EXCEPT ![m] = [pc |-> pc, kind |-> kind, node |-> n, realm |-> id, record |-> realm]]

\* Mutant: the record is enabled from the start.
CreateEnabled(m) == \E n \in Nodes, id \in RealmIds, s \in Settings :
  LET realm == [settings |-> s, enabled |-> TRUE, updatedAt |-> now, version |-> 0] IN
  /\ Begin(m, "create") /\ store[id] = None
  /\ Put(id, realm)
  /\ Call(m, "create", n, id, realm, "provision")
  /\ provisioned' = provisioned \ {id}
  /\ UNCHANGED <<cache, signers, now, get, floor, late>>

\* store.create takes a free id; the realm is disabled until it is provisioned.
Create(m) == \E n \in Nodes, id \in RealmIds, s \in Settings :
  LET realm == [settings |-> s, enabled |-> FALSE, updatedAt |-> now, version |-> 0] IN
  /\ Begin(m, "create") /\ store[id] = None
  /\ Put(id, realm)
  /\ Call(m, "create", n, id, realm, "provision")
  /\ provisioned' = provisioned \ {id}
  /\ UNCHANGED <<cache, signers, now, get, floor, late>>

Provision(m) ==
  LET id == op[m].realm IN
  /\ op[m].pc = "provision"
  /\ op' = [op EXCEPT ![m].pc = "save", ![m].record.enabled = TRUE]
  /\ provisioned' = provisioned \cup {id}
  /\ UNCHANGED <<records, cache, signers, now, get, floor, late>>

\* A throw undoes the create.
ProvisionFails(m) ==
  /\ op[m].pc = "provision"
  /\ Put(op[m].realm, None)
  /\ op' = [op EXCEPT ![m] = Ended]
  /\ UNCHANGED <<cache, signers, now, get, ghosts>>

\* update, enable, disable and remove read the record they write back.
ReadRealm(m) == \E n \in Nodes, id \in RealmIds, kind \in {"update", "enable", "disable", "remove"} :
  LET realm == store[id] IN
  /\ Begin(m, kind) /\ realm # None
  /\ \E s \in IF kind = "update" THEN Settings \ {realm.settings} ELSE {realm.settings} :
       Call(m, kind, n, id,
            [realm EXCEPT !.settings = s,
                          !.enabled = IF kind = "update" THEN @ ELSE kind = "enable"], "save")
  /\ UNCHANGED <<records, cache, signers, now, get, ghosts>>

Save(m) ==
  LET id == op[m].realm IN
  /\ op[m].pc = "save"
  /\ Put(id, [op[m].record EXCEPT !.updatedAt = now])
  /\ op' = [op EXCEPT ![m].pc = "forget", ![m].record = store'[id]]
  /\ provisioned' = IF op[m].kind = "enable" THEN provisioned \cup {id} ELSE provisioned
  /\ UNCHANGED <<cache, signers, now, get, floor, late>>

\* forget, in the operator's process only
Forget(m) ==
  LET n == op[m].node  id == op[m].realm IN
  /\ op[m].pc = "forget"
  /\ cache' = [cache EXCEPT ![n][id] = None]
  /\ signers' = [signers EXCEPT ![n] = [k \in Keys |->
                  IF signers[n][k] = id THEN None ELSE signers[n][k]]]
  /\ floor' = [floor EXCEPT ![n][id] = IF op[m].record.version > @ THEN op[m].record.version ELSE @]
  /\ op' = [op EXCEPT ![m] = IF @.kind = "remove" THEN [@ EXCEPT !.pc = "retire"] ELSE Ended]
  /\ UNCHANGED <<records, now, get, late, provisioned>>

\* A retire that fails leaves the realm disabled: the call takes no further step.
Retire(m) ==
  /\ op[m].pc = "retire"
  /\ Put(op[m].realm, None)
  /\ op' = [op EXCEPT ![m] = Ended]
  /\ provisioned' = provisioned \ {op[m].realm}
  /\ UNCHANGED <<cache, signers, now, get, floor, late>>

-----------------------------------------------------------------------------
Tick ==
  /\ now < MaxTime /\ now' = now + 1
  /\ UNCHANGED <<records, cache, signers, get, op, ghosts>>

Init ==
  /\ store \in [RealmIds -> {None, [settings |-> Original, enabled |-> TRUE,
                                   updatedAt |-> 0, version |-> 0]}]
  /\ replaced = {} /\ version = [id \in RealmIds |-> 0]
  /\ cache = [n \in Nodes |-> [id \in RealmIds |-> None]]
  /\ signers = [n \in Nodes |-> [k \in Keys |-> None]]
  /\ now = 0 /\ get = [g \in Gets |-> Idle]
  /\ op = [m \in Operators |-> Resting]
  /\ floor = [n \in Nodes |-> [id \in RealmIds |-> 0]] /\ late = {}
  /\ provisioned = {id \in RealmIds : store[id] # None}

Load(g) == FindRealm(g) \/ FailLoad(g) \/ AwaitPrevious(g) \/ ClaimKeys(g) \/ Share(g)
Manage(m) == Provision(m) \/ ProvisionFails(m) \/ Save(m) \/ Forget(m) \/ Retire(m)

Next ==
  \/ Tick
  \/ \E g \in Gets : Arrive(g) \/ Load(g)
  \/ \E m \in Operators : Create(m) \/ ReadRealm(m) \/ Manage(m)

Spec == Init /\ [][Next]_vars

-----------------------------------------------------------------------------
(* Properties. *)

Built(n, id) == cache[n][id] # None /\ get[cache[n][id]].pc = "built"

\* The cache holds entries of their own realm and process, and never one that
\* resolved to nothing or failed: a realm that appears is seen by the next request.
TypeOK ==
  /\ store \in [RealmIds -> Realm \cup {None}]
  /\ cache \in [Nodes -> [RealmIds -> Gets \cup {None}]]
  /\ signers \in [Nodes -> [Keys -> RealmIds \cup {None}]]
  /\ \A n \in Nodes, id \in RealmIds :
       LET e == cache[n][id] IN
       e # None => get[e].node = n /\ get[e].realm = id /\ get[e].pc \notin {"nothing", "failed"}

\* What a request is served was the enabled record less than `revalidate` before
\* it came, whichever process changed it since (realms.ts:76-79).
Fresh ==
  \A g \in Gets : get[g].pc = "built" =>
    /\ get[g].record.enabled
    /\ \A r \in replaced :
         r[1] = get[g].realm /\ r[2] = get[g].record.version => r[3] + Revalidate > get[g].at

\* Once an operator's call has forgotten a realm, its process serves nothing older
\* than what the call wrote to requests that come later, also when a build was in
\* flight at the time (realms.ts:79-80, 103-105).
ServedNotOlder ==
  \A g \in Gets : get[g].pc = "built" => get[g].record.version >= get[g].floor

\* Two realms a process has cached share no signing key, unless a build that was in
\* flight when its entry left the cache (forgotten, or replaced) claimed its keys afterwards.
KeysApart ==
  \A n \in Nodes, a \in RealmIds, b \in RealmIds :
    /\ a # b /\ Built(n, a) /\ Built(n, b) /\ (\A g \in late : get[g].node # n)
    => KeyOf[a][get[cache[n][a]].record.settings] # KeyOf[b][get[cache[n][b]].record.settings]

\* A realm is served only when its provisioning has ended, unless an operator
\* enabled it before that (realms.ts:121, 128-133).
ServedProvisioned ==
  \A n \in Nodes, id \in RealmIds :
    Built(n, id) /\ store[id] # None /\ get[cache[n][id]].record.version = store[id].version
    => id \in provisioned

\* A request is served the realm as it is, or lately was: enabled, provisioned, not older than
\* what its own process has written (realms.ts:76-80, 103-105, 121-133).
ServedCurrent == Fresh /\ ServedNotOlder /\ ServedProvisioned
================================================================================
