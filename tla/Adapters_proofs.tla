----------------------------- MODULE Adapters_proofs -----------------------------
(* That the adapters implement SingleUse, for every value of the constants, *)
(* and what they keep of the tables SingleUse says nothing of.              *)
EXTENDS Adapters, FiniteSetTheorems, TLAPS

-----------------------------------------------------------------------------
(* The inductive invariant. *)

Sql == backend # "kv"
Row == store[<<scenario>>]
Asking == {"consume", "claim", "create"}

\* What is stored of the thing the calls contend for.
SqlArtifact == [expires : {Expiry}, consumed : BOOLEAN]
KvArtifact == [expires : {Expiry}]
Rows ==
  /\ DOMAIN store = Keys
  /\ scenario = "artifact" /\ Sql => Row \in SqlArtifact \cup {None}
  /\ scenario = "artifact" /\ ~Sql =>
       /\ Row \in [value : KvArtifact, expires : Nat] \cup {None}
       /\ store[<<"consumed">>] \in [value : {None}, expires : Nat] \cup {None}
       /\ store[<<"consumed">>] # None => Expiry <= store[<<"consumed">>].expires
  /\ scenario = "claim" /\ Sql => Row \in [expires : Nat] \cup {None}
  /\ scenario = "claim" /\ ~Sql => Row \in [value : {None}, expires : Nat] \cup {None}
  /\ scenario = "realm" /\ Sql => Row \in [by : Calls] \cup {None}
  /\ scenario = "realm" /\ ~Sql => Row \in [value : Calls, expires : {Kv!Forever}] \cup {None}

CallState ==
  [pc : {"idle", "sent", "insert", "upsert", "index", "artifact", "entry", "sweep", "collided", "done", "threw", "dead"},
   op : {None, "consume", "save", "destroy", "revoke", "prune", "claim", "create"},
   at : Nat, seen : SqlArtifact \cup KvArtifact \cup {None}, account : Accounts \cup {None},
   username : Usernames \cup {None}, tries : {0}, answer : BOOLEAN \cup {None}]

\* What the call x knows at each of its places: a table's statement is at most a tick late.
Knows(x) ==
  /\ x.pc = "idle" => x.op = None
  /\ x.pc # "idle" => x.op \in Operations[scenario]
  /\ x.op \in Asking /\ x.pc = "done" => x.answer \in BOOLEAN
  /\ x.pc \in {"upsert", "index"} => x.seen \in IF Sql THEN SqlArtifact ELSE KvArtifact
  /\ x.pc = "insert" /\ x.op = "consume" => ~Sql /\ x.seen \in KvArtifact
  /\ x.pc \notin {"idle", "done", "threw", "dead"} => x.at <= now /\ (Sql => now <= x.at + 1)
Known == call \in [Calls -> CallState] /\ \A c \in Calls : Knows(call[c])

\* The history has the lives an open call has met, the current one among them.
Lives == {"absent", "free", "expiring", "taken"}
Meets ==
  \A c \in Calls : IF Outcome(c) = "open" THEN Life \in met[c] ELSE met[c] = {}

\* A call that finds a claim which was live when it looked at the clock has met it taken, and
\* so has one of TypeORM's that left such a row behind before its insert.  A key-value store's
\* consume that read the artifact inserts before the expiry, and met it free unless it is consumed.
Late ==
  \A c \in Calls : Outcome(c) = "open" =>
    /\ scenario = "claim" /\ Sql /\ Row # None /\ (Row.expires > call[c].at \/ call[c].pc \in {"insert", "collided"}) =>
         "taken" \in met[c]
    /\ scenario = "artifact" /\ call[c].pc = "insert" =>
         now < Expiry /\ ("free" \in met[c] \/ Kv!Held(<<"consumed">>))

Typed == backend \in Backends /\ now \in 0..MaxTime /\ met \in [Calls -> SUBSET Lives]
IInv == Typed /\ Meets /\ (Once => Rows /\ Known /\ Late)

-----------------------------------------------------------------------------
(* What a step does to a thing that can be had once, in plain terms. *)

\* The call c is told whether it has it; it failed; it goes on to another place.
Told(c, value) ==
  call' = [call EXCEPT ![c].pc = "done", ![c].answer = value, ![c].seen = None, ![c].at = 0, ![c].tries = 0]
Fails(c, pc) ==
  call' = [call EXCEPT ![c].pc = pc, ![c].answer = None, ![c].seen = None, ![c].at = 0, ![c].tries = 0]
GoesOn(c, pc, seen) == call' = [call EXCEPT ![c].pc = pc, ![c].seen = seen, ![c].at = now]
Puts(row) == store' = [store EXCEPT ![<<scenario>>] = row]
Had(row, at) == row # None /\ row.expires > at

\* The statements of the three tables' adapters.
SqlArtifactStep(c) ==
  \/ /\ In(c, "consume", "sent") /\ Had(Row, call[c].at) /\ ~Row.consumed
     /\ Puts([Row EXCEPT !.consumed = TRUE]) /\ Told(c, TRUE)
  \/ /\ In(c, "consume", "sent") /\ ~(Had(Row, call[c].at) /\ ~Row.consumed)
     /\ store' = store /\ Told(c, FALSE)
  \/ In(c, "save", "sent") /\ Row # None /\ store' = store /\ GoesOn(c, "upsert", Row)
  \/ /\ In(c, "save", "upsert") /\ Told(c, None)
     /\ Puts(IF Row = None THEN call[c].seen ELSE [call[c].seen EXCEPT !.consumed = Row.consumed])
  \/ /\ call[c].op \in {"save", "destroy", "revoke", "prune"} /\ call[c].pc \in {"sent", "sweep"}
     /\ store' = store \/ (call[c].op # "save" /\ Puts(None))
     /\ Told(c, None) \/ GoesOn(c, "sweep", None)
SqlClaimStep(c) ==
  /\ call[c].op = "claim"
  /\ \/ call[c].pc = "sent" /\ Had(Row, call[c].at) /\ store' = store /\ Told(c, FALSE)
     \/ /\ call[c].pc \in {"sent", "insert"} /\ ~Had(Row, call[c].at)
        /\ Puts([expires |-> call[c].at + Ttl]) /\ Told(c, TRUE)
     \/ /\ call[c].pc = "sent" /\ GoesOn(c, "insert", None)
        /\ \/ Row # None /\ Row.expires <= call[c].at /\ Puts(None)
           \/ ~(Row # None /\ Row.expires <= call[c].at) /\ store' = store
     \/ call[c].pc = "insert" /\ Row # None /\ store' = store /\ GoesOn(c, "collided", None)
     \/ /\ call[c].pc = "collided" /\ store' = store
        /\ (Row # None /\ Told(c, FALSE)) \/ Fails(c, "threw")
SqlRealmStep(c) ==
  \/ /\ In(c, "create", "sent") /\ Row # None /\ store' = store
     /\ Told(c, FALSE) \/ GoesOn(c, "collided", None)
  \/ In(c, "create", "sent") /\ Row = None /\ Puts([by |-> c]) /\ Told(c, TRUE)
  \/ /\ In(c, "create", "collided") /\ store' = store
     /\ (Row # None /\ Told(c, FALSE)) \/ Fails(c, "threw")
  \/ In(c, "destroy", "sent") /\ Puts(None) /\ Told(c, None)

\* The commands of the key-value store's.
KvPuts(key, value, ttl) == store' = [store EXCEPT ![key] = [value |-> value, expires |-> now + ttl]]
KvArtifactStep(c) ==
  \/ /\ In(c, "consume", "sent") /\ store' = store
     /\ \/ Had(Row, now) /\ Row.value.expires > now /\ GoesOn(c, "insert", Row.value)
        \/ ~(Had(Row, now) /\ Row.value.expires > now) /\ Told(c, FALSE)
  \/ /\ In(c, "consume", "insert")
     /\ \/ /\ ~Had(store[<<"consumed">>], now) /\ Told(c, TRUE)
           /\ KvPuts(<<"consumed">>, None, Kv!TtlFrom(call[c].seen.expires, call[c].at))
        \/ Had(store[<<"consumed">>], now) /\ store' = store /\ Told(c, FALSE)
  \/ /\ In(c, "save", "sent") /\ store' = store
     /\ \/ Had(Row, now) /\ GoesOn(c, "upsert", Row.value)
        \/ Told(c, None)
  \/ /\ In(c, "save", "upsert") /\ call' = [call EXCEPT ![c].pc = "index"]
     /\ KvPuts(<<"artifact">>, call[c].seen, Kv!TtlFrom(call[c].seen.expires, call[c].at))
  \/ /\ In(c, "save", "index") /\ Told(c, None)
     /\ KvPuts(<<"index">>, None, Kv!TtlFrom(call[c].seen.expires, call[c].at))
  \/ /\ call[c].op \in {"destroy", "revoke"} /\ call[c].pc \in {"sent", "artifact", "entry"}
     /\ store' = store \/ Puts(None) \/ store' = [store EXCEPT ![<<"index">>] = None]
     /\ Told(c, None) \/ GoesOn(c, "artifact", None) \/ GoesOn(c, "entry", None)
KvClaimStep(c) ==
  /\ In(c, "claim", "sent")
  /\ \/ ~Had(Row, now) /\ KvPuts(<<"claim">>, None, Ttl) /\ Told(c, TRUE)
     \/ Had(Row, now) /\ store' = store /\ Told(c, FALSE)
KvRealmStep(c) ==
  \/ /\ In(c, "create", "sent") /\ ~Had(Row, now) /\ Told(c, TRUE)
     /\ Puts([value |-> c, expires |-> Kv!Forever])
  \/ In(c, "create", "sent") /\ Had(Row, now) /\ store' = store /\ Told(c, FALSE)
  \/ In(c, "destroy", "sent") /\ Puts(None) /\ Told(c, None)

CallStep(c) ==
  \/ scenario = "artifact" /\ IF Sql THEN SqlArtifactStep(c) ELSE KvArtifactStep(c)
  \/ scenario = "claim" /\ IF Sql THEN SqlClaimStep(c) ELSE KvClaimStep(c)
  \/ scenario = "realm" /\ IF Sql THEN SqlRealmStep(c) ELSE KvRealmStep(c)

\* The operations there are on the three.
LEMMA OperationsOnce ==
  /\ Operations["artifact"] = {"consume", "save", "destroy", "revoke", "prune"}
  /\ Operations["claim"] = {"claim"}
  /\ Operations["realm"] = {"create", "destroy"}
BY DEF Operations

LEMMA DrizzleSteps ==
  ASSUME Once, Rows, Known, backend = "drizzle", Drizzle!Next
  PROVE  \E c \in Calls : CallStep(c)
<1>1. PICK c \in Calls :
        \/ Drizzle!Consume(c) \/ Drizzle!FindArtifact(c) \/ Drizzle!UpsertArtifact(c)
        \/ Drizzle!DestroyArtifact(c) \/ Drizzle!RevokeByGrantId(c) \/ Drizzle!Prune(c) \/ Drizzle!Sweep(c)
        \/ Drizzle!ReadClients(c) \/ Drizzle!SwapClients(c) \/ Drizzle!FindSession(c)
        \/ Drizzle!UpsertSession(c) \/ Drizzle!EndSession(c) \/ Drizzle!Claim(c)
        \/ Drizzle!CreateCredential(c) \/ Drizzle!FindCredential(c) \/ Drizzle!UpsertCredential(c)
        \/ Drizzle!DestroyCredential(c) \/ Drizzle!CreateRealm(c) \/ Drizzle!DestroyRealm(c)
        \/ Drizzle!FindGrant(c) \/ Drizzle!UpsertGrant(c) \/ Drizzle!DestroyGrant(c)
        \/ Drizzle!FindClient(c) \/ Drizzle!UpsertClient(c) \/ Drizzle!DestroyClient(c)
        \/ Drizzle!FindIdentity(c) \/ Drizzle!UpsertIdentity(c) \/ Drizzle!DestroyIdentity(c)
  BY DEF Drizzle!Next
<1>2. Sql /\ (call[c].pc # "idle" => call[c].op \in Operations[scenario])
  BY DEF Sql, Known, Knows
<1>3. CASE scenario = "artifact"
  <2>1. call[c].op \in {"consume", "save", "destroy", "revoke", "prune"} \/ call[c].pc = "idle"
    BY <1>2, <1>3, OperationsOnce
  <2>2. \/ Drizzle!Consume(c) \/ Drizzle!FindArtifact(c) \/ Drizzle!UpsertArtifact(c)
        \/ Drizzle!DestroyArtifact(c) \/ Drizzle!RevokeByGrantId(c) \/ Drizzle!Prune(c) \/ Drizzle!Sweep(c)
    BY <1>1, <1>3, <2>1
       DEF Drizzle!ReadClients, Drizzle!SwapClients, Drizzle!FindSession, Drizzle!UpsertSession,
           Drizzle!EndSession, Drizzle!Claim, Drizzle!CreateCredential, Drizzle!FindCredential,
           Drizzle!UpsertCredential, Drizzle!DestroyCredential, Drizzle!CreateRealm, Drizzle!DestroyRealm,
           Drizzle!FindGrant, Drizzle!UpsertGrant, Drizzle!DestroyGrant, Drizzle!FindClient,
           Drizzle!UpsertClient, Drizzle!DestroyClient, Drizzle!FindIdentity, Drizzle!UpsertIdentity,
           Drizzle!DestroyIdentity, Drizzle!In
  <2>3. SqlArtifactStep(c)
    <3>1. CASE Drizzle!Consume(c)
      BY <3>1, <1>3
         DEF Drizzle!Consume, Drizzle!In, Drizzle!Put, Drizzle!Delete, Drizzle!Keep, Drizzle!To, Drizzle!End, Drizzle!Answer, Drizzle!Artifact, Drizzle!Live,
             SqlArtifactStep, In, Told, GoesOn, Puts, Had, Row
    <3>2. CASE Drizzle!FindArtifact(c)
      BY <3>2, <1>3
         DEF Drizzle!FindArtifact, Drizzle!In, Drizzle!Put, Drizzle!Delete, Drizzle!Keep, Drizzle!To, Drizzle!End, Drizzle!Answer, Drizzle!Artifact, Drizzle!Live,
             SqlArtifactStep, In, Told, GoesOn, Puts, Had, Row
    <3>3. CASE Drizzle!UpsertArtifact(c)
      BY <3>3, <1>3
         DEF Drizzle!UpsertArtifact, Drizzle!In, Drizzle!Put, Drizzle!Delete, Drizzle!Keep, Drizzle!To, Drizzle!End, Drizzle!Answer, Drizzle!Artifact, Drizzle!Live,
             SqlArtifactStep, In, Told, GoesOn, Puts, Had, Row
    <3>4. CASE Drizzle!DestroyArtifact(c)
      BY <3>4, <1>3
         DEF Drizzle!DestroyArtifact, Drizzle!In, Drizzle!Put, Drizzle!Delete, Drizzle!Keep, Drizzle!To, Drizzle!End, Drizzle!Answer, Drizzle!Artifact, Drizzle!Live,
             SqlArtifactStep, In, Told, GoesOn, Puts, Had, Row
    <3>5. CASE Drizzle!RevokeByGrantId(c)
      BY <3>5, <1>3
         DEF Drizzle!RevokeByGrantId, Drizzle!In, Drizzle!Put, Drizzle!Delete, Drizzle!Keep, Drizzle!To, Drizzle!End, Drizzle!Answer, Drizzle!Artifact, Drizzle!Live,
             SqlArtifactStep, In, Told, GoesOn, Puts, Had, Row
    <3>6. CASE Drizzle!Prune(c)
      BY <3>6, <1>3
         DEF Drizzle!Prune, Drizzle!In, Drizzle!Put, Drizzle!Delete, Drizzle!Keep, Drizzle!To, Drizzle!End, Drizzle!Answer, Drizzle!Artifact, Drizzle!Live,
             SqlArtifactStep, In, Told, GoesOn, Puts, Had, Row
    <3>7. CASE Drizzle!Sweep(c)
      BY <3>7, <1>3
         DEF Drizzle!Sweep, Drizzle!In, Drizzle!Put, Drizzle!Delete, Drizzle!Keep, Drizzle!To, Drizzle!End, Drizzle!Answer, Drizzle!Artifact, Drizzle!Live,
             SqlArtifactStep, In, Told, GoesOn, Puts, Had, Row
    <3>. QED BY <2>2, <3>1, <3>2, <3>3, <3>4, <3>5, <3>6, <3>7
  <2>. QED BY <1>2, <1>3, <2>3 DEF CallStep
<1>4. CASE scenario = "claim"
  <2>1. call[c].op = "claim" \/ call[c].pc = "idle"
    BY <1>2, <1>4, OperationsOnce
  <2>2. Drizzle!Claim(c)
    BY <1>1, <1>4, <2>1
       DEF Drizzle!Consume, Drizzle!FindArtifact, Drizzle!UpsertArtifact, Drizzle!DestroyArtifact,
           Drizzle!RevokeByGrantId, Drizzle!Prune, Drizzle!Sweep,
           Drizzle!ReadClients, Drizzle!SwapClients, Drizzle!FindSession, Drizzle!UpsertSession,
           Drizzle!EndSession, Drizzle!CreateCredential, Drizzle!FindCredential,
           Drizzle!UpsertCredential, Drizzle!DestroyCredential, Drizzle!CreateRealm, Drizzle!DestroyRealm,
           Drizzle!FindGrant, Drizzle!UpsertGrant, Drizzle!DestroyGrant, Drizzle!FindClient,
           Drizzle!UpsertClient, Drizzle!DestroyClient, Drizzle!FindIdentity, Drizzle!UpsertIdentity,
           Drizzle!DestroyIdentity, Drizzle!In
  <2>3. SqlClaimStep(c)
    BY <2>2, <1>4
       DEF Drizzle!Claim, Drizzle!In, Drizzle!Put, Drizzle!Keep, Drizzle!End, Drizzle!Answer, Drizzle!Live,
           SqlClaimStep, Told, Puts, Had, Row
  <2>. QED BY <1>2, <1>4, <2>3 DEF CallStep
<1>5. CASE scenario = "realm"
  <2>1. call[c].op \in {"create", "destroy"} \/ call[c].pc = "idle"
    BY <1>2, <1>5, OperationsOnce
  <2>2. Drizzle!CreateRealm(c) \/ Drizzle!DestroyRealm(c)
    BY <1>1, <1>5, <2>1
       DEF Drizzle!Consume, Drizzle!FindArtifact, Drizzle!UpsertArtifact, Drizzle!DestroyArtifact,
           Drizzle!RevokeByGrantId, Drizzle!Prune, Drizzle!Sweep,
           Drizzle!ReadClients, Drizzle!SwapClients, Drizzle!FindSession, Drizzle!UpsertSession,
           Drizzle!EndSession, Drizzle!Claim, Drizzle!CreateCredential, Drizzle!FindCredential,
           Drizzle!UpsertCredential, Drizzle!DestroyCredential,
           Drizzle!FindGrant, Drizzle!UpsertGrant, Drizzle!DestroyGrant, Drizzle!FindClient,
           Drizzle!UpsertClient, Drizzle!DestroyClient, Drizzle!FindIdentity, Drizzle!UpsertIdentity,
           Drizzle!DestroyIdentity, Drizzle!In
  <2>3. SqlRealmStep(c)
    BY <2>2, <1>5
       DEF Drizzle!CreateRealm, Drizzle!DestroyRealm, Drizzle!In, Drizzle!Put, Drizzle!Delete, Drizzle!Keep,
           Drizzle!End, Drizzle!Answer, SqlRealmStep, In, Told, GoesOn, Puts, Row
  <2>. QED BY <1>2, <1>5, <2>3 DEF CallStep
<1>. QED BY <1>3, <1>4, <1>5 DEF Once

LEMMA KyselySteps ==
  ASSUME Once, Rows, Known, backend = "kysely", Kysely!Next
  PROVE  \E c \in Calls : CallStep(c)
<1>1. PICK c \in Calls :
        \/ Kysely!Consume(c) \/ Kysely!FindArtifact(c) \/ Kysely!UpsertArtifact(c)
        \/ Kysely!DestroyArtifact(c) \/ Kysely!RevokeByGrantId(c) \/ Kysely!Prune(c) \/ Kysely!Sweep(c)
        \/ Kysely!ReadClients(c) \/ Kysely!SwapClients(c) \/ Kysely!FindSession(c)
        \/ Kysely!UpsertSession(c) \/ Kysely!EndSession(c) \/ Kysely!Claim(c)
        \/ Kysely!CreateCredential(c) \/ Kysely!FindCredential(c) \/ Kysely!UpsertCredential(c)
        \/ Kysely!DestroyCredential(c) \/ Kysely!CreateRealm(c) \/ Kysely!DestroyRealm(c)
        \/ Kysely!FindGrant(c) \/ Kysely!UpsertGrant(c) \/ Kysely!DestroyGrant(c)
        \/ Kysely!FindClient(c) \/ Kysely!UpsertClient(c) \/ Kysely!DestroyClient(c)
        \/ Kysely!FindIdentity(c) \/ Kysely!UpsertIdentity(c) \/ Kysely!DestroyIdentity(c)
  BY DEF Kysely!Next
<1>2. Sql /\ (call[c].pc # "idle" => call[c].op \in Operations[scenario])
  BY DEF Sql, Known, Knows
<1>3. CASE scenario = "artifact"
  <2>1. call[c].op \in {"consume", "save", "destroy", "revoke", "prune"} \/ call[c].pc = "idle"
    BY <1>2, <1>3, OperationsOnce
  <2>2. \/ Kysely!Consume(c) \/ Kysely!FindArtifact(c) \/ Kysely!UpsertArtifact(c)
        \/ Kysely!DestroyArtifact(c) \/ Kysely!RevokeByGrantId(c) \/ Kysely!Prune(c) \/ Kysely!Sweep(c)
    BY <1>1, <1>3, <2>1
       DEF Kysely!ReadClients, Kysely!SwapClients, Kysely!FindSession, Kysely!UpsertSession,
           Kysely!EndSession, Kysely!Claim, Kysely!CreateCredential, Kysely!FindCredential,
           Kysely!UpsertCredential, Kysely!DestroyCredential, Kysely!CreateRealm, Kysely!DestroyRealm,
           Kysely!FindGrant, Kysely!UpsertGrant, Kysely!DestroyGrant, Kysely!FindClient,
           Kysely!UpsertClient, Kysely!DestroyClient, Kysely!FindIdentity, Kysely!UpsertIdentity,
           Kysely!DestroyIdentity, Kysely!In
  <2>3. SqlArtifactStep(c)
    <3>1. CASE Kysely!Consume(c)
      BY <3>1, <1>3
         DEF Kysely!Consume, Kysely!In, Kysely!Put, Kysely!Delete, Kysely!Keep, Kysely!To, Kysely!End, Kysely!Answer, Kysely!Artifact, Kysely!Live,
             SqlArtifactStep, In, Told, GoesOn, Puts, Had, Row
    <3>2. CASE Kysely!FindArtifact(c)
      BY <3>2, <1>3
         DEF Kysely!FindArtifact, Kysely!In, Kysely!Put, Kysely!Delete, Kysely!Keep, Kysely!To, Kysely!End, Kysely!Answer, Kysely!Artifact, Kysely!Live,
             SqlArtifactStep, In, Told, GoesOn, Puts, Had, Row
    <3>3. CASE Kysely!UpsertArtifact(c)
      BY <3>3, <1>3
         DEF Kysely!UpsertArtifact, Kysely!In, Kysely!Put, Kysely!Delete, Kysely!Keep, Kysely!To, Kysely!End, Kysely!Answer, Kysely!Artifact, Kysely!Live,
             SqlArtifactStep, In, Told, GoesOn, Puts, Had, Row
    <3>4. CASE Kysely!DestroyArtifact(c)
      BY <3>4, <1>3
         DEF Kysely!DestroyArtifact, Kysely!In, Kysely!Put, Kysely!Delete, Kysely!Keep, Kysely!To, Kysely!End, Kysely!Answer, Kysely!Artifact, Kysely!Live,
             SqlArtifactStep, In, Told, GoesOn, Puts, Had, Row
    <3>5. CASE Kysely!RevokeByGrantId(c)
      BY <3>5, <1>3
         DEF Kysely!RevokeByGrantId, Kysely!In, Kysely!Put, Kysely!Delete, Kysely!Keep, Kysely!To, Kysely!End, Kysely!Answer, Kysely!Artifact, Kysely!Live,
             SqlArtifactStep, In, Told, GoesOn, Puts, Had, Row
    <3>6. CASE Kysely!Prune(c)
      BY <3>6, <1>3
         DEF Kysely!Prune, Kysely!In, Kysely!Put, Kysely!Delete, Kysely!Keep, Kysely!To, Kysely!End, Kysely!Answer, Kysely!Artifact, Kysely!Live,
             SqlArtifactStep, In, Told, GoesOn, Puts, Had, Row
    <3>7. CASE Kysely!Sweep(c)
      BY <3>7, <1>3
         DEF Kysely!Sweep, Kysely!In, Kysely!Put, Kysely!Delete, Kysely!Keep, Kysely!To, Kysely!End, Kysely!Answer, Kysely!Artifact, Kysely!Live,
             SqlArtifactStep, In, Told, GoesOn, Puts, Had, Row
    <3>. QED BY <2>2, <3>1, <3>2, <3>3, <3>4, <3>5, <3>6, <3>7
  <2>. QED BY <1>2, <1>3, <2>3 DEF CallStep
<1>4. CASE scenario = "claim"
  <2>1. call[c].op = "claim" \/ call[c].pc = "idle"
    BY <1>2, <1>4, OperationsOnce
  <2>2. Kysely!Claim(c)
    BY <1>1, <1>4, <2>1
       DEF Kysely!Consume, Kysely!FindArtifact, Kysely!UpsertArtifact, Kysely!DestroyArtifact,
           Kysely!RevokeByGrantId, Kysely!Prune, Kysely!Sweep,
           Kysely!ReadClients, Kysely!SwapClients, Kysely!FindSession, Kysely!UpsertSession,
           Kysely!EndSession, Kysely!CreateCredential, Kysely!FindCredential,
           Kysely!UpsertCredential, Kysely!DestroyCredential, Kysely!CreateRealm, Kysely!DestroyRealm,
           Kysely!FindGrant, Kysely!UpsertGrant, Kysely!DestroyGrant, Kysely!FindClient,
           Kysely!UpsertClient, Kysely!DestroyClient, Kysely!FindIdentity, Kysely!UpsertIdentity,
           Kysely!DestroyIdentity, Kysely!In
  <2>3. SqlClaimStep(c)
    BY <2>2, <1>4
       DEF Kysely!Claim, Kysely!In, Kysely!Put, Kysely!Keep, Kysely!End, Kysely!Answer, Kysely!Live,
           SqlClaimStep, Told, Puts, Had, Row
  <2>. QED BY <1>2, <1>4, <2>3 DEF CallStep
<1>5. CASE scenario = "realm"
  <2>1. call[c].op \in {"create", "destroy"} \/ call[c].pc = "idle"
    BY <1>2, <1>5, OperationsOnce
  <2>2. Kysely!CreateRealm(c) \/ Kysely!DestroyRealm(c)
    BY <1>1, <1>5, <2>1
       DEF Kysely!Consume, Kysely!FindArtifact, Kysely!UpsertArtifact, Kysely!DestroyArtifact,
           Kysely!RevokeByGrantId, Kysely!Prune, Kysely!Sweep,
           Kysely!ReadClients, Kysely!SwapClients, Kysely!FindSession, Kysely!UpsertSession,
           Kysely!EndSession, Kysely!Claim, Kysely!CreateCredential, Kysely!FindCredential,
           Kysely!UpsertCredential, Kysely!DestroyCredential,
           Kysely!FindGrant, Kysely!UpsertGrant, Kysely!DestroyGrant, Kysely!FindClient,
           Kysely!UpsertClient, Kysely!DestroyClient, Kysely!FindIdentity, Kysely!UpsertIdentity,
           Kysely!DestroyIdentity, Kysely!In
  <2>3. SqlRealmStep(c)
    BY <2>2, <1>5
       DEF Kysely!CreateRealm, Kysely!DestroyRealm, Kysely!In, Kysely!Put, Kysely!Delete, Kysely!Keep,
           Kysely!End, Kysely!Answer, SqlRealmStep, In, Told, GoesOn, Puts, Row
  <2>. QED BY <1>2, <1>5, <2>3 DEF CallStep
<1>. QED BY <1>3, <1>4, <1>5 DEF Once

LEMMA TypeormSteps ==
  ASSUME Once, Rows, Known, backend = "typeorm", Typeorm!Next
  PROVE  \E c \in Calls : CallStep(c)
<1>1. PICK c \in Calls :
        \/ Typeorm!Consume(c) \/ Typeorm!FindArtifact(c) \/ Typeorm!UpsertArtifact(c)
        \/ Typeorm!DestroyArtifact(c) \/ Typeorm!RevokeByGrantId(c) \/ Typeorm!Prune(c) \/ Typeorm!Sweep(c)
        \/ Typeorm!ReadClients(c) \/ Typeorm!SwapClients(c) \/ Typeorm!FindSession(c)
        \/ Typeorm!UpsertSession(c) \/ Typeorm!EndSession(c)
        \/ Typeorm!ClearLapsed(c) \/ Typeorm!Claim(c) \/ Typeorm!ClaimCollided(c)
        \/ Typeorm!CreateCredential(c) \/ Typeorm!FindCredential(c) \/ Typeorm!UpsertCredential(c)
        \/ Typeorm!DestroyCredential(c) \/ Typeorm!CreateRealm(c) \/ Typeorm!DestroyRealm(c)
        \/ Typeorm!FindGrant(c) \/ Typeorm!UpsertGrant(c) \/ Typeorm!DestroyGrant(c)
        \/ Typeorm!FindClient(c) \/ Typeorm!UpsertClient(c) \/ Typeorm!DestroyClient(c)
        \/ Typeorm!FindIdentity(c) \/ Typeorm!UpsertIdentity(c) \/ Typeorm!DestroyIdentity(c)
  BY DEF Typeorm!Next
<1>2. Sql /\ (call[c].pc # "idle" => call[c].op \in Operations[scenario])
  BY DEF Sql, Known, Knows
<1>3. CASE scenario = "artifact"
  <2>1. call[c].op \in {"consume", "save", "destroy", "revoke", "prune"} \/ call[c].pc = "idle"
    BY <1>2, <1>3, OperationsOnce
  <2>2. \/ Typeorm!Consume(c) \/ Typeorm!FindArtifact(c) \/ Typeorm!UpsertArtifact(c)
        \/ Typeorm!DestroyArtifact(c) \/ Typeorm!RevokeByGrantId(c) \/ Typeorm!Prune(c) \/ Typeorm!Sweep(c)
    BY <1>1, <1>3, <2>1
       DEF Typeorm!ReadClients, Typeorm!SwapClients, Typeorm!FindSession, Typeorm!UpsertSession,
           Typeorm!EndSession, Typeorm!ClearLapsed, Typeorm!Claim, Typeorm!ClaimCollided, Typeorm!CreateCredential, Typeorm!FindCredential,
           Typeorm!UpsertCredential, Typeorm!DestroyCredential, Typeorm!CreateRealm, Typeorm!DestroyRealm,
           Typeorm!FindGrant, Typeorm!UpsertGrant, Typeorm!DestroyGrant, Typeorm!FindClient,
           Typeorm!UpsertClient, Typeorm!DestroyClient, Typeorm!FindIdentity, Typeorm!UpsertIdentity,
           Typeorm!DestroyIdentity, Typeorm!In
  <2>3. SqlArtifactStep(c)
    <3>1. CASE Typeorm!Consume(c)
      BY <3>1, <1>3
         DEF Typeorm!Consume, Typeorm!In, Typeorm!Put, Typeorm!Delete, Typeorm!Keep, Typeorm!To, Typeorm!End, Typeorm!Answer, Typeorm!Artifact, Typeorm!Live,
             SqlArtifactStep, In, Told, GoesOn, Puts, Had, Row
    <3>2. CASE Typeorm!FindArtifact(c)
      BY <3>2, <1>3
         DEF Typeorm!FindArtifact, Typeorm!In, Typeorm!Put, Typeorm!Delete, Typeorm!Keep, Typeorm!To, Typeorm!End, Typeorm!Answer, Typeorm!Artifact, Typeorm!Live,
             SqlArtifactStep, In, Told, GoesOn, Puts, Had, Row
    <3>3. CASE Typeorm!UpsertArtifact(c)
      BY <3>3, <1>3
         DEF Typeorm!UpsertArtifact, Typeorm!In, Typeorm!Put, Typeorm!Delete, Typeorm!Keep, Typeorm!To, Typeorm!End, Typeorm!Answer, Typeorm!Artifact, Typeorm!Live,
             SqlArtifactStep, In, Told, GoesOn, Puts, Had, Row
    <3>4. CASE Typeorm!DestroyArtifact(c)
      BY <3>4, <1>3
         DEF Typeorm!DestroyArtifact, Typeorm!In, Typeorm!Put, Typeorm!Delete, Typeorm!Keep, Typeorm!To, Typeorm!End, Typeorm!Answer, Typeorm!Artifact, Typeorm!Live,
             SqlArtifactStep, In, Told, GoesOn, Puts, Had, Row
    <3>5. CASE Typeorm!RevokeByGrantId(c)
      BY <3>5, <1>3
         DEF Typeorm!RevokeByGrantId, Typeorm!In, Typeorm!Put, Typeorm!Delete, Typeorm!Keep, Typeorm!To, Typeorm!End, Typeorm!Answer, Typeorm!Artifact, Typeorm!Live,
             SqlArtifactStep, In, Told, GoesOn, Puts, Had, Row
    <3>6. CASE Typeorm!Prune(c)
      BY <3>6, <1>3
         DEF Typeorm!Prune, Typeorm!In, Typeorm!Put, Typeorm!Delete, Typeorm!Keep, Typeorm!To, Typeorm!End, Typeorm!Answer, Typeorm!Artifact, Typeorm!Live,
             SqlArtifactStep, In, Told, GoesOn, Puts, Had, Row
    <3>7. CASE Typeorm!Sweep(c)
      BY <3>7, <1>3
         DEF Typeorm!Sweep, Typeorm!In, Typeorm!Put, Typeorm!Delete, Typeorm!Keep, Typeorm!To, Typeorm!End, Typeorm!Answer, Typeorm!Artifact, Typeorm!Live,
             SqlArtifactStep, In, Told, GoesOn, Puts, Had, Row
    <3>. QED BY <2>2, <3>1, <3>2, <3>3, <3>4, <3>5, <3>6, <3>7
  <2>. QED BY <1>2, <1>3, <2>3 DEF CallStep
<1>4. CASE scenario = "claim"
  <2>1. call[c].op = "claim" \/ call[c].pc = "idle"
    BY <1>2, <1>4, OperationsOnce
  <2>2. Typeorm!ClearLapsed(c) \/ Typeorm!Claim(c) \/ Typeorm!ClaimCollided(c)
    BY <1>1, <1>4, <2>1
       DEF Typeorm!Consume, Typeorm!FindArtifact, Typeorm!UpsertArtifact, Typeorm!DestroyArtifact,
           Typeorm!RevokeByGrantId, Typeorm!Prune, Typeorm!Sweep,
           Typeorm!ReadClients, Typeorm!SwapClients, Typeorm!FindSession, Typeorm!UpsertSession,
           Typeorm!EndSession, Typeorm!CreateCredential, Typeorm!FindCredential,
           Typeorm!UpsertCredential, Typeorm!DestroyCredential, Typeorm!CreateRealm, Typeorm!DestroyRealm,
           Typeorm!FindGrant, Typeorm!UpsertGrant, Typeorm!DestroyGrant, Typeorm!FindClient,
           Typeorm!UpsertClient, Typeorm!DestroyClient, Typeorm!FindIdentity, Typeorm!UpsertIdentity,
           Typeorm!DestroyIdentity, Typeorm!In
  <2>3. SqlClaimStep(c)
    BY <2>2, <1>4
       DEF Typeorm!ClearLapsed, Typeorm!Claim, Typeorm!ClaimCollided, Typeorm!Insert, Typeorm!Collided, Typeorm!In,
           Typeorm!Put, Typeorm!Delete, Typeorm!Keep, Typeorm!To, Typeorm!End, Typeorm!Answer, Typeorm!Throw,
           SqlClaimStep, Told, Fails, GoesOn, Puts, Had, Row
  <2>. QED BY <1>2, <1>4, <2>3 DEF CallStep
<1>5. CASE scenario = "realm"
  <2>1. call[c].op \in {"create", "destroy"} \/ call[c].pc = "idle"
    BY <1>2, <1>5, OperationsOnce
  <2>2. Typeorm!CreateRealm(c) \/ Typeorm!DestroyRealm(c)
    BY <1>1, <1>5, <2>1
       DEF Typeorm!Consume, Typeorm!FindArtifact, Typeorm!UpsertArtifact, Typeorm!DestroyArtifact,
           Typeorm!RevokeByGrantId, Typeorm!Prune, Typeorm!Sweep,
           Typeorm!ReadClients, Typeorm!SwapClients, Typeorm!FindSession, Typeorm!UpsertSession,
           Typeorm!EndSession, Typeorm!ClearLapsed, Typeorm!Claim, Typeorm!ClaimCollided, Typeorm!CreateCredential, Typeorm!FindCredential,
           Typeorm!UpsertCredential, Typeorm!DestroyCredential,
           Typeorm!FindGrant, Typeorm!UpsertGrant, Typeorm!DestroyGrant, Typeorm!FindClient,
           Typeorm!UpsertClient, Typeorm!DestroyClient, Typeorm!FindIdentity, Typeorm!UpsertIdentity,
           Typeorm!DestroyIdentity, Typeorm!In
  <2>3. SqlRealmStep(c)
    BY <2>2, <1>5
       DEF Typeorm!CreateRealm, Typeorm!DestroyRealm, Typeorm!Insert, Typeorm!Collided, Typeorm!In, Typeorm!Put,
           Typeorm!Delete, Typeorm!Keep, Typeorm!To, Typeorm!End, Typeorm!Answer, Typeorm!Throw,
           SqlRealmStep, In, Told, Fails, GoesOn, Puts, Row
  <2>. QED BY <1>2, <1>5, <2>3 DEF CallStep
<1>. QED BY <1>3, <1>4, <1>5 DEF Once

\* What is left in whole seconds is more than nothing, and no less than what is left.
LEMMA TtlFromReaches ==
  ASSUME NEW e \in Nat, NEW t \in Nat
  PROVE  Kv!TtlFrom(e, t) \in Nat /\ Kv!TtlFrom(e, t) > 0 /\ e <= t + Kv!TtlFrom(e, t)
BY DEF Kv!TtlFrom, Kv!Second

LEMMA KvSteps ==
  ASSUME Once, Rows, Known, backend = "kv", Kv!Next
  PROVE  \E c \in Calls : CallStep(c)
<1>1. PICK c \in Calls :
        \/ Kv!ReadForConsume(c) \/ Kv!Consume(c) \/ Kv!FindArtifact(c) \/ Kv!UpsertArtifact(c)
        \/ Kv!DestroyArtifact(c) \/ Kv!RevokeByGrantId(c) \/ Kv!AddClient(c) \/ Kv!FindSession(c)
        \/ Kv!UpsertSession(c) \/ Kv!EndSession(c) \/ Kv!Claim(c) \/ Kv!CreateCredential(c)
        \/ Kv!FindCredential(c) \/ Kv!UpsertCredential(c) \/ Kv!DestroyCredential(c) \/ Kv!CreateRealm(c)
        \/ Kv!DestroyRealm(c) \/ Kv!FindGrant(c) \/ Kv!UpsertGrant(c) \/ Kv!DestroyGrant(c)
        \/ Kv!FindClient(c) \/ Kv!UpsertClient(c) \/ Kv!DestroyClient(c) \/ Kv!FindIdentity(c)
        \/ Kv!UpsertIdentity(c) \/ Kv!DestroyIdentity(c)
  BY DEF Kv!Next
<1>2. ~Sql /\ (call[c].pc # "idle" => call[c].op \in Operations[scenario])
  BY DEF Sql, Known, Knows
<1>3. CASE scenario = "artifact"
  <2>1. call[c].op \in {"consume", "save", "destroy", "revoke", "prune"} \/ call[c].pc = "idle"
    BY <1>2, <1>3, OperationsOnce
  <2>2. \/ Kv!ReadForConsume(c) \/ Kv!Consume(c) \/ Kv!FindArtifact(c) \/ Kv!UpsertArtifact(c)
        \/ Kv!DestroyArtifact(c) \/ Kv!RevokeByGrantId(c)
    BY <1>1, <1>3, <2>1
       DEF Kv!AddClient, Kv!FindSession, Kv!UpsertSession, Kv!EndSession, Kv!Claim,
           Kv!CreateCredential, Kv!FindCredential, Kv!UpsertCredential, Kv!DestroyCredential,
           Kv!CreateRealm, Kv!DestroyRealm, Kv!FindGrant, Kv!UpsertGrant, Kv!DestroyGrant,
           Kv!FindClient, Kv!UpsertClient, Kv!DestroyClient, Kv!FindIdentity, Kv!UpsertIdentity,
           Kv!DestroyIdentity, Kv!In
  <2>4. call[c].pc \in {"insert", "upsert", "index"} /\ call[c].op \in {"consume", "save"} =>
          Kv!TtlFrom(call[c].seen.expires, call[c].at) # None
    <3>1. SUFFICES ASSUME call[c].pc \in {"insert", "upsert", "index"}, call[c].op \in {"consume", "save"}
                   PROVE  Kv!TtlFrom(call[c].seen.expires, call[c].at) # None
      OBVIOUS
    <3>2. call[c].op = "save" => call[c].pc \in {"upsert", "index"}
      BY <2>2, <3>1 DEF Kv!ReadForConsume, Kv!Consume, Kv!FindArtifact, Kv!UpsertArtifact, Kv!DestroyArtifact,
           Kv!RevokeByGrantId, Kv!In
    <3>3. call[c].op = "consume" => call[c].pc = "insert"
      BY <2>2, <3>1 DEF Kv!ReadForConsume, Kv!Consume, Kv!FindArtifact, Kv!UpsertArtifact, Kv!DestroyArtifact,
           Kv!RevokeByGrantId, Kv!In
    <3>4. call[c].seen.expires \in Nat /\ call[c].at \in Nat
      BY <3>1, <3>2, <3>3, <1>2, AdapterAssumption DEF Known, Knows, KvArtifact, CallState
    <3>. QED BY <3>4, TtlFromReaches, NoneAssumption
  <2>3. KvArtifactStep(c)
    <3>1. CASE Kv!ReadForConsume(c)
      BY <3>1, <1>3, <2>4
         DEF Kv!ReadForConsume, Kv!In, Kv!Put, Kv!Delete, Kv!Keep, Kv!To, Kv!End, Kv!Answer, Kv!Set, Kv!Insert, Kv!Held,
             Kv!Artifact, In, Told, GoesOn, Puts, KvPuts, Had, Row, KvArtifactStep
    <3>2. CASE Kv!Consume(c)
      BY <3>2, <1>3, <2>4
         DEF Kv!Consume, Kv!In, Kv!Put, Kv!Delete, Kv!Keep, Kv!To, Kv!End, Kv!Answer, Kv!Set, Kv!Insert, Kv!Held,
             Kv!Artifact, In, Told, GoesOn, Puts, KvPuts, Had, Row, KvArtifactStep
    <3>3. CASE Kv!FindArtifact(c)
      BY <3>3, <1>3, <2>4
         DEF Kv!FindArtifact, Kv!In, Kv!Put, Kv!Delete, Kv!Keep, Kv!To, Kv!End, Kv!Answer, Kv!Set, Kv!Insert, Kv!Held,
             Kv!Artifact, In, Told, GoesOn, Puts, KvPuts, Had, Row, KvArtifactStep
    <3>4. CASE Kv!UpsertArtifact(c)
      BY <3>4, <1>3, <2>4
         DEF Kv!UpsertArtifact, Kv!In, Kv!Put, Kv!Delete, Kv!Keep, Kv!To, Kv!End, Kv!Answer, Kv!Set, Kv!Insert, Kv!Held,
             Kv!Artifact, In, Told, GoesOn, Puts, KvPuts, Had, Row, KvArtifactStep
    <3>5. CASE Kv!DestroyArtifact(c)
      BY <3>5, <1>3, <2>4
         DEF Kv!DestroyArtifact, Kv!In, Kv!Put, Kv!Delete, Kv!Keep, Kv!To, Kv!End, Kv!Answer, Kv!Set, Kv!Insert, Kv!Held,
             Kv!Artifact, In, Told, GoesOn, Puts, KvPuts, Had, Row, KvArtifactStep
    <3>6. CASE Kv!RevokeByGrantId(c)
      BY <3>6, <1>3, <2>4
         DEF Kv!RevokeByGrantId, Kv!In, Kv!Put, Kv!Delete, Kv!Keep, Kv!To, Kv!End, Kv!Answer, Kv!Set, Kv!Insert, Kv!Held,
             Kv!Artifact, In, Told, GoesOn, Puts, KvPuts, Had, Row, KvArtifactStep
    <3>. QED BY <2>2, <3>1, <3>2, <3>3, <3>4, <3>5, <3>6
  <2>. QED BY <1>2, <1>3, <2>3 DEF CallStep
<1>4. CASE scenario = "claim"
  <2>1. call[c].op = "claim" \/ call[c].pc = "idle"
    BY <1>2, <1>4, OperationsOnce
  <2>2. Kv!Claim(c)
    BY <1>1, <1>4, <2>1
       DEF Kv!ReadForConsume, Kv!Consume, Kv!FindArtifact, Kv!UpsertArtifact, Kv!DestroyArtifact,
           Kv!RevokeByGrantId, Kv!AddClient, Kv!FindSession, Kv!UpsertSession, Kv!EndSession,
           Kv!CreateCredential, Kv!FindCredential, Kv!UpsertCredential, Kv!DestroyCredential,
           Kv!CreateRealm, Kv!DestroyRealm, Kv!FindGrant, Kv!UpsertGrant, Kv!DestroyGrant,
           Kv!FindClient, Kv!UpsertClient, Kv!DestroyClient, Kv!FindIdentity, Kv!UpsertIdentity,
           Kv!DestroyIdentity, Kv!In
  <2>3. KvClaimStep(c)
    BY <2>2, <1>4, NoneAssumption, AdapterAssumption
       DEF Kv!Claim, Kv!In, Kv!Put, Kv!Delete, Kv!Keep, Kv!To, Kv!End, Kv!Answer, Kv!Set, Kv!Insert, Kv!Held, Kv!Artifact,
           In, Told, GoesOn, Puts, KvPuts, Had, Row, KvClaimStep
  <2>. QED BY <1>2, <1>4, <2>3 DEF CallStep
<1>5. CASE scenario = "realm"
  <2>1. call[c].op \in {"create", "destroy"} \/ call[c].pc = "idle"
    BY <1>2, <1>5, OperationsOnce
  <2>2. \/ Kv!CreateRealm(c) \/ Kv!DestroyRealm(c)
    BY <1>1, <1>5, <2>1
       DEF Kv!ReadForConsume, Kv!Consume, Kv!FindArtifact, Kv!UpsertArtifact, Kv!DestroyArtifact,
           Kv!RevokeByGrantId, Kv!AddClient, Kv!FindSession, Kv!UpsertSession, Kv!EndSession,
           Kv!Claim, Kv!CreateCredential, Kv!FindCredential, Kv!UpsertCredential,
           Kv!DestroyCredential, Kv!FindGrant, Kv!UpsertGrant, Kv!DestroyGrant, Kv!FindClient,
           Kv!UpsertClient, Kv!DestroyClient, Kv!FindIdentity, Kv!UpsertIdentity, Kv!DestroyIdentity, Kv!In
  <2>3. KvRealmStep(c)
    BY <2>2, <1>5, NoneAssumption, AdapterAssumption
       DEF Kv!CreateRealm, Kv!DestroyRealm, Kv!In, Kv!Put, Kv!Delete, Kv!Keep, Kv!To, Kv!End, Kv!Answer, Kv!Set, Kv!Insert, Kv!Held, Kv!Artifact,
           In, Told, GoesOn, Puts, KvPuts, Had, Row, KvRealmStep
  <2>. QED BY <1>2, <1>5, <2>3 DEF CallStep
<1>. QED BY <1>3, <1>4, <1>5 DEF Once

-----------------------------------------------------------------------------
(* What the contract sees of a step. *)

\* The life of the thing, from what is stored of it.
Thing ==
  IF scenario = "artifact"
  THEN IF Sql
       THEN IF Row # None /\ Row.consumed THEN "taken"
            ELSE IF Had(Row, now) THEN "free" ELSE IF Had(Row, now - 1) THEN "expiring" ELSE "absent"
       ELSE IF Had(store[<<"consumed">>], now) THEN "taken"
            ELSE IF Had(Row, now) /\ Row.value.expires > now THEN "free" ELSE "absent"
  ELSE IF scenario = "realm" /\ Sql THEN IF Row # None THEN "taken" ELSE "free"
  ELSE IF Had(Row, now) THEN "taken" ELSE "free"

LEMMA LifeIs ==
  /\ Once => Life = Thing
  /\ Once' => Life' = Thing'
<1>1. Once => Life = Thing
  BY DEF Once, Life, KvLife, SqlLife, Thing, Sql, Row, Had, Kv!Held, Kv!Artifact, Drizzle!Live
<1>2. Once' => Life' = Thing'
  BY DEF Once, Life, KvLife, SqlLife, Thing, Sql, Row, Had, Kv!Held, Kv!Artifact, Drizzle!Live
<1>. QED BY <1>1, <1>2

LEMMA LifeIsALife == Life \in Lives /\ Life' \in Lives
<1>1. Life \in Lives
  BY DEF Life, KvLife, SqlLife, Lives
<1>2. Life' \in Lives
  BY DEF Life, KvLife, SqlLife, Lives
<1>. QED BY <1>1, <1>2

\* The keys of the three, which are not one another's.
LEMMA KeysOnce ==
  /\ Once => <<scenario>> \in Keys
  /\ <<"artifact">> \in Keys /\ <<"consumed">> \in Keys /\ <<"index">> \in Keys
  /\ <<"artifact">> # <<"consumed">> /\ <<"artifact">> # <<"index">> /\ <<"consumed">> # <<"index">>
BY DEF Once, Keys

\* No row is None.
LEMMA RowsAreNot ==
  /\ None \notin SqlArtifact /\ None \notin [expires : Nat] /\ None \notin [by : Calls]
  /\ None \notin [value : KvArtifact, expires : Nat] /\ None \notin [value : {None}, expires : Nat]
  /\ None \notin [value : Calls, expires : Nat]
<1>1. SqlArtifact \subseteq [expires : Nat, consumed : BOOLEAN]
  BY AdapterAssumption DEF SqlArtifact
<1>2. KvArtifact \subseteq [expires : Nat]
  BY AdapterAssumption DEF KvArtifact
<1>3. \A row : \/ row \in [value : KvArtifact, expires : Nat] \/ row \in [value : {None}, expires : Nat]
              \/ row \in [value : Calls, expires : Nat]
              => row \in [value : {None} \cup Calls \cup [expires : Nat], expires : Nat]
  BY <1>2
<1>. QED BY <1>1, <1>3, NoneAssumption

LEMMA RowAfter ==
  ASSUME Once, DOMAIN store = Keys, scenario' = scenario
  PROVE  /\ \A row : Puts(row) => Row' = row /\ DOMAIN store' = Keys
         /\ store' = store => Row' = Row
BY KeysOnce DEF Puts, Row

\* What a call has been told so far.
OthersOutcome(c) == \A d \in Calls : d # c => Outcome(d)' = Outcome(d)
LEMMA Outcomes ==
  ASSUME Once, scenario' = scenario, call \in [Calls -> CallState], NEW c \in Calls
  PROVE  /\ \A value \in BOOLEAN : Told(c, value) /\ call[c].op \in Asking =>
              Outcome(c)' = (IF value THEN "won" ELSE "lost") /\ OthersOutcome(c)
         /\ \A value : Told(c, value) /\ call[c].op \notin Asking => Outcome(c)' = "none" /\ OthersOutcome(c)
         /\ \A pc, seen : GoesOn(c, pc, seen) /\ pc \notin {"done", "threw", "dead"} =>
              Outcome(c)' = (IF call[c].op \in Asking THEN "open" ELSE "none") /\ OthersOutcome(c)
         /\ \A pc \in {"threw", "dead"} : Fails(c, pc) =>
              Outcome(c)' = (IF call[c].op \in Asking THEN "threw" ELSE "none") /\ OthersOutcome(c)
<1>1. Once'
  BY DEF Once
<1>2. ASSUME NEW value, Told(c, value)
      PROVE  /\ call'[c].pc = "done" /\ call'[c].op = call[c].op /\ call'[c].answer = value
             /\ \A d \in Calls : d # c => call'[d] = call[d]
  BY <1>2 DEF Told, CallState
<1>3. ASSUME NEW pc, NEW seen, GoesOn(c, pc, seen)
      PROVE  /\ call'[c].pc = pc /\ call'[c].op = call[c].op
             /\ \A d \in Calls : d # c => call'[d] = call[d]
  BY <1>3 DEF GoesOn, CallState
<1>4. ASSUME NEW pc, Fails(c, pc)
      PROVE  /\ call'[c].pc = pc /\ call'[c].op = call[c].op
             /\ \A d \in Calls : d # c => call'[d] = call[d]
  BY <1>4 DEF Fails, CallState
<1>5. (\A d \in Calls : d # c => call'[d] = call[d]) => OthersOutcome(c)
  BY <1>1 DEF OthersOutcome, Outcome
<1>. QED BY <1>1, <1>2, <1>3, <1>4, <1>5 DEF Outcome, Asking

\* A change that no call's answer tells of.
Changes ==
  /\ Life = "taken" => Life' \in {"taken", "absent"} \/ scenario \in {"claim", "realm"}
  /\ Life' = "taken" => Life \in {"taken", "absent"}

Effect(c) ==
  /\ OthersOutcome(c)
  /\ \/ /\ Outcome(c) = "open" /\ Outcome(c)' = "won" /\ Life # "taken" /\ Life' = "taken"
        /\ met[c] \cap {"free", "expiring"} # {}
     \/ Outcome(c) = "open" /\ Outcome(c)' = "lost" /\ met[c] # {"free"} /\ Life' = Life
     \/ Outcome(c) = "open" /\ Outcome(c)' = "threw" /\ Life' = Life
     \/ Outcome(c) = "none" /\ Outcome(c)' = "open" /\ Life' = Life
     \/ Outcome(c)' = Outcome(c) /\ Changes

\* The steps of one call, in one scenario of those, and the rest of what Next says.
Same == scenario' = scenario /\ backend' = backend /\ now' = now
Before == Once /\ Typed /\ Rows /\ Known /\ Meets /\ Late

LEMMA SqlArtifactEffect ==
  ASSUME Before, Same, scenario = "artifact", Sql, NEW c \in Calls, SqlArtifactStep(c)
  PROVE  Effect(c)
<1> USE DEF Before, Same
<1>0. Once' /\ Sql' /\ scenario' = "artifact"
  BY DEF Once, Sql
<1>1. /\ Life = Thing /\ Life' = Thing'
      /\ call[c].op \in Asking /\ call[c].pc \notin {"idle", "done", "threw", "dead"} => Outcome(c) = "open" /\ Life \in met[c]
      /\ call[c].op \notin Asking => Outcome(c) = "none"
  BY <1>0, LifeIs DEF Outcome, Asking, Meets
<1>2. Row \in SqlArtifact \cup {None}
  BY DEF Rows
<1>3. call[c].pc \in {"sent", "upsert", "sweep"} => call[c].at \in Nat /\ call[c].at <= now /\ now <= call[c].at + 1
  BY DEF Known, Knows, CallState
<1>4. now \in Nat
  BY AdapterAssumption DEF Typed
<1>5. CASE In(c, "consume", "sent") /\ Had(Row, call[c].at) /\ ~Row.consumed
           /\ Puts([Row EXCEPT !.consumed = TRUE]) /\ Told(c, TRUE)
  <2>1. Outcome(c)' = "won" /\ OthersOutcome(c) /\ Outcome(c) = "open" /\ Life \in met[c]
    BY <1>1, <1>5, Outcomes DEF Known, Asking, In
  <2>2. Row' = [Row EXCEPT !.consumed = TRUE] /\ Row \in SqlArtifact
    BY <1>2, <1>5, RowAfter DEF Rows, Had
  <2>3. Row' \in SqlArtifact /\ Row'.consumed
    BY <2>2 DEF SqlArtifact
  <2>4. Life' = "taken"
    BY <1>0, <1>1, <2>3, RowsAreNot DEF Thing
  <2>5. Life \in {"free", "expiring"}
    BY <1>0, <1>1, <1>3, <1>4, <1>5, <2>2 DEF Thing, Had, In, SqlArtifact
  <2>. QED BY <2>1, <2>4, <2>5 DEF Effect
<1>6. CASE In(c, "consume", "sent") /\ ~(Had(Row, call[c].at) /\ ~Row.consumed) /\ store' = store /\ Told(c, FALSE)
  <2>1. Outcome(c)' = "lost" /\ OthersOutcome(c) /\ Outcome(c) = "open" /\ Life \in met[c]
    BY <1>1, <1>6, Outcomes DEF Known, Asking, In
  <2>2. Life' = Life
    BY <1>0, <1>1, <1>6, RowAfter DEF Thing, Rows
  <2>3. Life # "free"
    <3>1. CASE Row = None
      BY <1>1, <3>1 DEF Thing, Had
    <3>2. CASE Row \in SqlArtifact /\ Row # None /\ Row.consumed
      BY <1>1, <3>2 DEF Thing
    <3>3. CASE Row \in SqlArtifact /\ Row # None /\ ~Row.consumed
      <4>1. ~(Row.expires > call[c].at) /\ Row.expires \in Nat /\ call[c].at \in Nat /\ call[c].at <= now
        BY <3>3, <1>6, <1>3, AdapterAssumption DEF SqlArtifact, Had, In
      <4>2. ~(Row.expires > now)
        BY <4>1, <1>4
      <4>. QED BY <1>1, <3>3, <4>2 DEF Thing, Had
    <3>. QED BY <1>2, <3>1, <3>2, <3>3
  <2>. QED BY <2>1, <2>2, <2>3 DEF Effect
<1>7. CASE call[c].op \notin Asking /\ store' = store
           /\ ((\E value : Told(c, value)) \/ (\E seen : GoesOn(c, "upsert", seen) \/ GoesOn(c, "sweep", seen)))
  <2>1. Outcome(c)' = "none" /\ OthersOutcome(c) /\ Outcome(c) = "none"
    BY <1>1, <1>7, Outcomes DEF Known
  <2>2. Life' = Life
    BY <1>0, <1>1, <1>7, RowAfter DEF Thing, Rows
  <2>. QED BY <2>1, <2>2 DEF Effect, Changes
<1>8. CASE In(c, "save", "upsert") /\ Told(c, None)
           /\ Puts(IF Row = None THEN call[c].seen ELSE [call[c].seen EXCEPT !.consumed = Row.consumed])
  <2>1. Outcome(c)' = "none" /\ OthersOutcome(c) /\ Outcome(c) = "none"
    BY <1>1, <1>8, Outcomes DEF Known, Asking, In
  <2>2. call[c].seen \in SqlArtifact
    BY <1>8 DEF Known, Knows, In
  <2>3. CASE Row = None
    BY <1>1, <2>1, <2>3 DEF Effect, Changes, Thing, Had
  <2>4. CASE Row # None
    <3>1. Row' = Row
      BY <1>2, <1>8, <2>2, <2>4, RowAfter DEF Rows, SqlArtifact
    <3>2. Life' = Life
      BY <1>0, <1>1, <3>1 DEF Thing
    <3>. QED BY <2>1, <3>2 DEF Effect, Changes
  <2>. QED BY <2>3, <2>4
<1>9. CASE call[c].op \notin Asking /\ Puts(None) /\ (Told(c, None) \/ GoesOn(c, "sweep", None))
  <2>1. Outcome(c)' = "none" /\ OthersOutcome(c) /\ Outcome(c) = "none"
    BY <1>1, <1>9, Outcomes DEF Known
  <2>2. Row' = None
    BY <1>9, RowAfter DEF Rows
  <2>3. Life' = "absent"
    BY <1>0, <1>1, <2>2 DEF Thing, Had
  <2>. QED BY <2>1, <2>3 DEF Effect, Changes
<1>. QED BY <1>5, <1>6, <1>7, <1>8, <1>9 DEF SqlArtifactStep, In, Asking

\* What the others use of the invariant.
LEMMA Standing ==
  ASSUME Before, Same, NEW c \in Calls, call[c].pc \notin {"idle", "done", "threw", "dead"}
  PROVE  /\ Once' /\ (Sql' <=> Sql) /\ Life = Thing /\ Life' = Thing'
         /\ call[c].op \in Asking => Outcome(c) = "open" /\ Life \in met[c]
         /\ call[c].op \notin Asking => Outcome(c) = "none"
         /\ now \in Nat /\ call[c].at \in Nat /\ call[c].at <= now
<1>1. Once'
  BY DEF Before, Same, Once
<1>2. call[c].op \in Asking => Outcome(c) = "open" /\ Life \in met[c]
  BY DEF Before, Meets, Outcome, Asking
<1>3. call[c].op \notin Asking => Outcome(c) = "none"
  BY DEF Before, Outcome, Asking
<1>4. now \in Nat /\ call[c].at \in Nat /\ call[c].at <= now
  BY AdapterAssumption DEF Before, Typed, Known, Knows, CallState
<1>. QED BY <1>1, <1>2, <1>3, <1>4, LifeIs DEF Before, Same, Sql

\* A step that leaves the store as it is and tells its call nothing that it asks.
LEMMA QuietEffect ==
  ASSUME Before, Same, NEW c \in Calls, call[c].pc \notin {"idle", "done", "threw", "dead"}, Life' = Life,
         \/ \E pc, seen : GoesOn(c, pc, seen) /\ pc \notin {"done", "threw", "dead"}
         \/ Fails(c, "threw") \/ Fails(c, "dead")
         \/ call[c].op \notin Asking /\ \E value : Told(c, value)
  PROVE  Effect(c)
<1>1. OthersOutcome(c) /\ Outcome(c)' \in {Outcome(c), "threw"} /\ Outcome(c) \in {"open", "none"}
      /\ (Outcome(c) = "none" => Outcome(c)' = "none")
  BY Standing, Outcomes DEF Before, Same, Known
<1>. QED BY <1>1 DEF Effect, Changes

LEMMA SqlClaimEffect ==
  ASSUME Before, Same, scenario = "claim", Sql, NEW c \in Calls, SqlClaimStep(c)
  PROVE  Effect(c)
<1>1. call[c].pc \notin {"idle", "done", "threw", "dead"} /\ call[c].op \in Asking
  BY DEF SqlClaimStep, Asking
<1>2. /\ Life = Thing /\ Life' = Thing' /\ Sql' /\ scenario' = "claim"
      /\ Outcome(c) = "open" /\ Life \in met[c]
      /\ now \in Nat /\ call[c].at \in Nat /\ call[c].at <= now /\ now <= call[c].at + 1
  BY <1>1, Standing DEF Before, Same, Known, Knows
<1>3. Row \in [expires : Nat] \cup {None}
  BY DEF Before, Rows
<1>4. store' = store => Life' = Life
  BY <1>2, RowAfter DEF Before, Same, Rows, Thing, Had
<1>5. CASE store' = store /\ Told(c, FALSE) /\ Row # None /\ (Had(Row, call[c].at) \/ call[c].pc = "collided")
  <2>1. "taken" \in met[c]
    BY <1>2, <1>5 DEF Before, Late, Had
  <2>2. Outcome(c)' = "lost" /\ OthersOutcome(c)
    BY <1>1, <1>5, Outcomes DEF Before, Same, Known
  <2>. QED BY <1>2, <1>4, <1>5, <2>1, <2>2 DEF Effect
<1>6. CASE ~Had(Row, call[c].at) /\ Puts([expires |-> call[c].at + Ttl]) /\ Told(c, TRUE)
  <2>1. Outcome(c)' = "won" /\ OthersOutcome(c)
    BY <1>1, <1>6, Outcomes DEF Before, Same, Known
  <2>2. Row' = [expires |-> call[c].at + Ttl]
    BY <1>6, RowAfter DEF Before, Same, Rows
  <2>3. Row' \in [expires : Nat] /\ Row'.expires > now /\ now' = now
    BY <1>2, <2>2, AdapterAssumption DEF Same
  <2>4. Life' = "taken"
    BY <1>2, <2>3, RowsAreNot DEF Thing, Had
  <2>5. ~Had(Row, now)
    BY <1>2, <1>3, <1>6 DEF Had
  <2>6. Life = "free"
    BY <1>2, <2>5 DEF Thing
  <2>. QED BY <1>2, <2>1, <2>4, <2>6 DEF Effect
<1>7. CASE /\ call[c].pc = "sent" /\ GoesOn(c, "insert", None)
           /\ Row # None /\ Row.expires <= call[c].at /\ Puts(None)
  <2>1. Row' = None
    BY <1>7, RowAfter DEF Before, Same, Rows
  <2>2. Life' = "free"
    BY <1>2, <2>1 DEF Thing, Had
  <2>3. ~Had(Row, now)
    BY <1>2, <1>3, <1>7 DEF Had
  <2>4. Life' = Life
    BY <1>2, <2>2, <2>3 DEF Thing
  <2>. QED BY <1>1, <1>7, <2>4, QuietEffect
<1>8. CASE store' = store /\ (GoesOn(c, "insert", None) \/ GoesOn(c, "collided", None) \/ Fails(c, "threw"))
  BY <1>1, <1>4, <1>8, QuietEffect
<1>. QED BY <1>5, <1>6, <1>7, <1>8 DEF SqlClaimStep, Had

LEMMA SqlRealmEffect ==
  ASSUME Before, Same, scenario = "realm", Sql, NEW c \in Calls, SqlRealmStep(c)
  PROVE  Effect(c)
<1>1. call[c].pc \notin {"idle", "done", "threw", "dead"}
  BY DEF SqlRealmStep, In
<1>2. /\ Life = Thing /\ Life' = Thing' /\ Sql' /\ scenario' = "realm"
      /\ call[c].op = "create" => Outcome(c) = "open" /\ Life \in met[c]
      /\ call[c].op = "destroy" => Outcome(c) = "none"
  BY <1>1, Standing DEF Before, Same, Asking
<1>3. store' = store => Life' = Life
  BY <1>2, RowAfter DEF Before, Same, Rows, Thing
<1>4. CASE call[c].op = "create" /\ Row # None /\ store' = store /\ Told(c, FALSE)
  <2>1. Outcome(c)' = "lost" /\ OthersOutcome(c)
    BY <1>4, Outcomes DEF Before, Same, Known, Asking
  <2>2. Life = "taken"
    BY <1>2, <1>4 DEF Thing
  <2>. QED BY <1>2, <1>3, <1>4, <2>1, <2>2 DEF Effect
<1>5. CASE In(c, "create", "sent") /\ Row = None /\ Puts([by |-> c]) /\ Told(c, TRUE)
  <2>1. Outcome(c)' = "won" /\ OthersOutcome(c)
    BY <1>5, Outcomes DEF Before, Same, Known, Asking, In
  <2>2. Row' \in [by : Calls]
    BY <1>5, RowAfter DEF Before, Same, Rows
  <2>3. Life' = "taken" /\ Life = "free"
    BY <1>2, <1>5, <2>2, RowsAreNot DEF Thing
  <2>. QED BY <1>2, <1>5, <2>1, <2>3 DEF Effect, In
<1>6. CASE In(c, "destroy", "sent") /\ Puts(None) /\ Told(c, None)
  <2>1. Outcome(c)' = "none" /\ OthersOutcome(c) /\ Outcome(c) = "none"
    BY <1>2, <1>6, Outcomes DEF Before, Same, Known, Asking, In
  <2>2. Life' = "free"
    BY <1>2, <1>6, RowAfter DEF Before, Same, Rows, Thing
  <2>. QED BY <2>1, <2>2 DEF Effect, Changes
<1>7. CASE store' = store /\ (GoesOn(c, "collided", None) \/ Fails(c, "threw"))
  BY <1>1, <1>3, <1>7, QuietEffect
<1>. QED BY <1>4, <1>5, <1>6, <1>7 DEF SqlRealmStep, In

LEMMA KvArtifactEffect ==
  ASSUME Before, Same, scenario = "artifact", ~Sql, NEW c \in Calls, KvArtifactStep(c)
  PROVE  Effect(c)
<1>1. call[c].pc \notin {"idle", "done", "threw", "dead"}
  BY DEF KvArtifactStep, In
<1>2. /\ Life = Thing /\ Life' = Thing' /\ ~Sql' /\ scenario' = "artifact"
      /\ call[c].op = "consume" => Outcome(c) = "open" /\ Life \in met[c]
      /\ call[c].op \in {"save", "destroy", "revoke"} => Outcome(c) = "none"
      /\ now \in Nat /\ call[c].at \in Nat /\ call[c].at <= now
  BY <1>1, Standing DEF Before, Same, Asking
<1>3. Expiry \in Nat
  BY AdapterAssumption
<1>4. store' = store => Life' = Life
  BY <1>2, RowAfter DEF Before, Same, Rows, Thing, Had
<1>5. CASE /\ In(c, "consume", "sent") /\ store' = store
           /\ ~(Had(Row, now) /\ Row.value.expires > now) /\ Told(c, FALSE)
  <2>1. Outcome(c)' = "lost" /\ OthersOutcome(c)
    BY <1>5, Outcomes DEF Before, Same, Known, Asking, In
  <2>2. Life # "free"
    BY <1>2, <1>5 DEF Thing
  <2>. QED BY <1>2, <1>4, <1>5, <2>1, <2>2 DEF Effect, In
<1>6. CASE /\ In(c, "consume", "insert") /\ ~Had(store[<<"consumed">>], now) /\ Told(c, TRUE)
           /\ KvPuts(<<"consumed">>, None, Kv!TtlFrom(call[c].seen.expires, call[c].at))
  <2>1. Outcome(c)' = "won" /\ OthersOutcome(c)
    BY <1>6, Outcomes DEF Before, Same, Known, Asking, In
  <2>2. call[c].seen.expires \in Nat
    BY <1>3, <1>6 DEF Before, Known, Knows, KvArtifact, In
  <2>3. PICK ttl \in Nat : ttl > 0 /\ store'[<<"consumed">>] = [value |-> None, expires |-> now + ttl]
    BY <1>2, <1>6, <2>2, TtlFromReaches, KeysOnce DEF KvPuts, Before, Rows
  <2>4. store'[<<"consumed">>] \in [value : {None}, expires : Nat] /\ store'[<<"consumed">>].expires > now'
    BY <1>2, <2>3 DEF Same
  <2>5. Life' = "taken"
    BY <1>2, <2>4, RowsAreNot DEF Thing, Had
  <2>6. Life # "taken"
    BY <1>2, <1>6 DEF Thing
  <2>7. "free" \in met[c]
    BY <1>2, <1>6 DEF Before, Late, In, Had, Kv!Held
  <2>. QED BY <1>2, <1>6, <2>1, <2>5, <2>6, <2>7 DEF Effect, In
<1>7. CASE In(c, "consume", "insert") /\ Had(store[<<"consumed">>], now) /\ store' = store /\ Told(c, FALSE)
  <2>1. Outcome(c)' = "lost" /\ OthersOutcome(c)
    BY <1>7, Outcomes DEF Before, Same, Known, Asking, In
  <2>2. Life = "taken"
    BY <1>2, <1>7 DEF Thing
  <2>. QED BY <1>2, <1>4, <1>7, <2>1, <2>2 DEF Effect, In
<1>8. CASE /\ store' = store
           /\ \/ \E seen : GoesOn(c, "insert", seen) \/ GoesOn(c, "upsert", seen)
              \/ call[c].op \in {"save", "destroy", "revoke"} /\ Told(c, None)
              \/ GoesOn(c, "artifact", None) \/ GoesOn(c, "entry", None)
  BY <1>1, <1>4, <1>8, QuietEffect DEF Asking
<1>9. CASE /\ call[c].op \in {"save", "destroy", "revoke"} /\ store'[<<"consumed">>] = store[<<"consumed">>]
           /\ \/ Told(c, None) \/ GoesOn(c, "artifact", None) \/ GoesOn(c, "entry", None)
              \/ call' = [call EXCEPT ![c].pc = "index"]
  <2>1. Outcome(c)' = "none" /\ OthersOutcome(c) /\ Outcome(c) = "none"
    <3>1. CASE call' = [call EXCEPT ![c].pc = "index"]
      <4>1. call'[c].op = call[c].op /\ \A d \in Calls : d # c => call'[d] = call[d]
        BY <3>1 DEF Before, Known, CallState
      <4>2. Once' /\ Outcome(c) = "none"
        BY <1>1, <1>2, <1>9, Standing
      <4>. QED BY <1>9, <4>1, <4>2 DEF Outcome, OthersOutcome, Before
    <3>. QED BY <1>2, <1>9, <3>1, Outcomes DEF Before, Same, Known, Asking
  <2>2. Life' = "taken" <=> Life = "taken"
    BY <1>2, <1>9 DEF Thing, Had, Same
  <2>. QED BY <2>1, <2>2 DEF Effect, Changes
<1>10. \A key, row : store' = [store EXCEPT ![key] = row] /\ key # <<"consumed">>
                      => store'[<<"consumed">>] = store[<<"consumed">>]
  BY KeysOnce DEF Before, Rows
<1>11. CASE /\ call[c].op \in {"save", "destroy", "revoke"}
            /\ \/ Told(c, None) \/ GoesOn(c, "artifact", None) \/ GoesOn(c, "entry", None)
               \/ call' = [call EXCEPT ![c].pc = "index"]
            /\ \E row : store' = [store EXCEPT ![<<"artifact">>] = row] \/ store' = [store EXCEPT ![<<"index">>] = row]
  <2>1. PICK key \in {<<"artifact">>, <<"index">>} : \E row : store' = [store EXCEPT ![key] = row]
    BY <1>11
  <2>2. store'[<<"consumed">>] = store[<<"consumed">>]
    BY <1>10, <2>1, KeysOnce
  <2>. QED BY <1>9, <1>11, <2>2
<1>. QED BY <1>5, <1>6, <1>7, <1>8, <1>11 DEF KvArtifactStep, In, KvPuts, Puts

LEMMA KvClaimEffect ==
  ASSUME Before, Same, scenario = "claim", ~Sql, NEW c \in Calls, KvClaimStep(c)
  PROVE  Effect(c)
<1>1. call[c].pc \notin {"idle", "done", "threw", "dead"} /\ call[c].op \in Asking
  BY DEF KvClaimStep, In, Asking
<1>2. /\ Life = Thing /\ Life' = Thing' /\ ~Sql' /\ scenario' = "claim"
      /\ Outcome(c) = "open" /\ Life \in met[c] /\ now \in Nat
  BY <1>1, Standing DEF Before, Same
<1>3. CASE ~Had(Row, now) /\ KvPuts(<<"claim">>, None, Ttl) /\ Told(c, TRUE)
  <2>1. Outcome(c)' = "won" /\ OthersOutcome(c)
    BY <1>1, <1>3, Outcomes DEF Before, Same, Known
  <2>2. Row' = [value |-> None, expires |-> now + Ttl]
    BY <1>3, RowAfter DEF Before, Same, Rows, KvPuts, Puts
  <2>3. Row' \in [value : {None}, expires : Nat] /\ Row'.expires > now'
    BY <1>2, <2>2, AdapterAssumption DEF Same
  <2>4. Life' = "taken" /\ Life = "free"
    BY <1>2, <1>3, <2>3, RowsAreNot DEF Thing, Had
  <2>. QED BY <1>2, <2>1, <2>4 DEF Effect
<1>4. CASE Had(Row, now) /\ store' = store /\ Told(c, FALSE)
  <2>1. Outcome(c)' = "lost" /\ OthersOutcome(c)
    BY <1>1, <1>4, Outcomes DEF Before, Same, Known
  <2>2. Life' = Life /\ Life = "taken"
    BY <1>2, <1>4, RowAfter DEF Before, Same, Rows, Thing, Had
  <2>. QED BY <1>2, <2>1, <2>2 DEF Effect
<1>. QED BY <1>3, <1>4 DEF KvClaimStep

LEMMA KvRealmEffect ==
  ASSUME Before, Same, scenario = "realm", ~Sql, NEW c \in Calls, KvRealmStep(c)
  PROVE  Effect(c)
<1>1. call[c].pc \notin {"idle", "done", "threw", "dead"}
  BY DEF KvRealmStep, In
<1>2. /\ Life = Thing /\ Life' = Thing' /\ ~Sql' /\ scenario' = "realm" /\ now' = now
      /\ call[c].op = "create" => Outcome(c) = "open" /\ Life \in met[c]
      /\ call[c].op = "destroy" => Outcome(c) = "none"
  BY <1>1, Standing DEF Before, Same, Asking
<1>3. CASE In(c, "create", "sent") /\ ~Had(Row, now) /\ Told(c, TRUE) /\ Puts([value |-> c, expires |-> Kv!Forever])
  <2>1. Outcome(c)' = "won" /\ OthersOutcome(c)
    BY <1>3, Outcomes DEF Before, Same, Known, Asking, In
  <2>2. Row' = [value |-> c, expires |-> Kv!Forever]
    BY <1>3, RowAfter DEF Before, Same, Rows
  <2>3. Kv!Forever \in Nat /\ Kv!Forever > now
    BY AdapterAssumption DEF Kv!Forever, Kv!Second, Before, Typed
  <2>4. Row' \in [value : Calls, expires : Nat] /\ Row'.expires > now'
    BY <1>2, <2>2, <2>3
  <2>5. Life' = "taken" /\ Life = "free"
    BY <1>2, <1>3, <2>4, RowsAreNot DEF Thing, Had
  <2>. QED BY <1>2, <1>3, <2>1, <2>5 DEF Effect, In
<1>4. CASE In(c, "create", "sent") /\ Had(Row, now) /\ store' = store /\ Told(c, FALSE)
  <2>1. Outcome(c)' = "lost" /\ OthersOutcome(c)
    BY <1>4, Outcomes DEF Before, Same, Known, Asking, In
  <2>2. Life' = Life /\ Life = "taken"
    BY <1>2, <1>4, RowAfter DEF Before, Same, Rows, Thing, Had
  <2>. QED BY <1>2, <1>4, <2>1, <2>2 DEF Effect, In
<1>5. CASE In(c, "destroy", "sent") /\ Puts(None) /\ Told(c, None)
  <2>1. Outcome(c)' = "none" /\ OthersOutcome(c) /\ Outcome(c) = "none"
    BY <1>2, <1>5, Outcomes DEF Before, Same, Known, Asking, In
  <2>2. Life' = "free"
    BY <1>2, <1>5, RowAfter DEF Before, Same, Rows, Thing, Had
  <2>. QED BY <2>1, <2>2 DEF Effect, Changes
<1>. QED BY <1>3, <1>4, <1>5 DEF KvRealmStep

-----------------------------------------------------------------------------
(* Invariance. *)

\* What Next says of the history.
History ==
  met' = [c \in Calls |-> IF Outcome(c)' = "open"
                          THEN (IF Outcome(c) = "open" THEN met[c] ELSE {}) \cup {Life, Life'} ELSE {}]

Begins(c) ==
  /\ call[c].pc = "idle" /\ store' = store
  /\ \E op \in Operations[scenario], a \in Accounts, u \in Usernames :
       call' = [call EXCEPT ![c].pc = "sent", ![c].op = op, ![c].at = now, ![c].account = a, ![c].username = u]
Dies(c) == call[c].pc \notin {"idle", "done", "threw", "dead"} /\ Fails(c, "dead") /\ store' = store

LEMMA Steps ==
  ASSUME Before, Next
  PROVE  /\ Once' /\ scenario' = scenario /\ backend' = backend /\ History
         /\ \/ Same /\ \E c \in Calls : CallStep(c) \/ Begins(c) \/ Dies(c)
            \/ Tick
<1>1. Once' /\ scenario' = scenario /\ backend' = backend /\ History
  BY DEF Next, Before, Once, History
<1>2. CASE now' = now /\ Step
  BY <1>1, <1>2, KvSteps, DrizzleSteps, KyselySteps, TypeormSteps DEF Step, Before, Same
<1>3. ASSUME NEW c \in Calls, Begin(c) PROVE Begins(c)
  <2>1. PICK op \in Operations[scenario], a \in Accounts, u \in Usernames :
          /\ call[c].pc = "idle" /\ Keep
          /\ call' = [call EXCEPT ![c].pc = "sent", ![c].op = op, ![c].at = now, ![c].account = a, ![c].username = u]
    BY <1>3, ZenonT(60) DEF Begin
  <2>. QED BY <2>1, Zenon DEF Begins, Keep
<1>4. ASSUME NEW c \in Calls, Crash(c) PROVE Dies(c)
  BY <1>4 DEF Crash, Dies, End, Keep, Fails
<1>. QED BY <1>1, <1>2, <1>3, <1>4 DEF Next, Same

LEMMA MeetsNext ==
  ASSUME met \in [Calls -> SUBSET Lives], History
  PROVE  met' \in [Calls -> SUBSET Lives] /\ Meets'
<1>1. Life \in Lives /\ Life' \in Lives
  BY LifeIsALife
<1>2. met' \in [Calls -> SUBSET Lives]
  BY <1>1 DEF History
<1>3. ASSUME NEW c \in Calls
      PROVE  IF Outcome(c)' = "open" THEN Life' \in met'[c] ELSE met'[c] = {}
  BY DEF History
<1>. QED BY <1>2, <1>3 DEF Meets

\* A call's next state, when it is told, goes on or fails.
LEMMA CallAfter ==
  ASSUME Before, Same, NEW c \in Calls, call[c].pc \notin {"idle", "done", "threw", "dead"}
  PROVE  /\ \A value \in BOOLEAN \cup {None} :
              Told(c, value) /\ (call[c].op \in Asking => value \in BOOLEAN) => Known'
         /\ \A pc \in {"insert", "upsert", "artifact", "entry", "sweep", "collided"},
               seen \in SqlArtifact \cup KvArtifact \cup {None} :
              /\ GoesOn(c, pc, seen)
              /\ pc = "upsert" => seen \in IF Sql THEN SqlArtifact ELSE KvArtifact
              /\ pc = "insert" /\ call[c].op = "consume" => ~Sql /\ seen \in KvArtifact
              => Known'
         /\ \A pc \in {"threw", "dead"} : Fails(c, pc) => Known'
         /\ call[c].pc = "upsert" /\ call' = [call EXCEPT ![c].pc = "index"] => Known'
<1>1. call \in [Calls -> CallState] /\ \A d \in Calls : Knows(call[d])
  BY DEF Before, Known
<1>2. /\ Sql' <=> Sql
      /\ now' = now /\ scenario' = scenario /\ now \in Nat
  BY AdapterAssumption DEF Same, Sql, Before, Typed
<1>3. ASSUME NEW d \in Calls, call'[d] = call[d] PROVE Knows(call[d])'
  BY <1>1, <1>2, <1>3 DEF Knows
<1>4. ASSUME NEW value \in BOOLEAN \cup {None}, Told(c, value), call[c].op \in Asking => value \in BOOLEAN
      PROVE  Known'
  <2>1. call' \in [Calls -> CallState] /\ \A d \in Calls : d # c => call'[d] = call[d]
    <3>. DEFINE x == [call[c] EXCEPT !.pc = "done", !.answer = value, !.seen = None, !.at = 0, !.tries = 0]
    <3>1. x \in CallState
      BY <1>1, <1>4, ZenonT(60) DEF CallState
    <3>2. call' = [call EXCEPT ![c] = x]
      BY <1>1, <1>4 DEF Told
    <3>. HIDE DEF x
    <3>. QED BY <1>1, <3>1, <3>2
  <2>2. call'[c].pc = "done" /\ call'[c].op = call[c].op /\ call'[c].answer = value
    BY <1>1, <1>4 DEF Told, CallState
  <2>3. Knows(call[c])'
    BY <1>1, <1>2, <1>4, <2>2 DEF Knows
  <2>. QED BY <1>3, <2>1, <2>3 DEF Known
<1>5. ASSUME NEW pc \in {"insert", "upsert", "artifact", "entry", "sweep", "collided"},
             NEW seen \in SqlArtifact \cup KvArtifact \cup {None}, GoesOn(c, pc, seen),
             pc = "upsert" => seen \in IF Sql THEN SqlArtifact ELSE KvArtifact,
             pc = "insert" /\ call[c].op = "consume" => ~Sql /\ seen \in KvArtifact
      PROVE  Known'
  <2>1. call' \in [Calls -> CallState] /\ \A d \in Calls : d # c => call'[d] = call[d]
    <3>. DEFINE x == [call[c] EXCEPT !.pc = pc, !.seen = seen, !.at = now]
    <3>1. x \in CallState
      BY <1>1, <1>2, <1>5, ZenonT(60) DEF CallState
    <3>2. call' = [call EXCEPT ![c] = x]
      BY <1>1, <1>5 DEF GoesOn
    <3>. HIDE DEF x
    <3>. QED BY <1>1, <3>1, <3>2
  <2>2. call'[c].pc = pc /\ call'[c].op = call[c].op /\ call'[c].seen = seen /\ call'[c].at = now
    BY <1>1, <1>5 DEF GoesOn, CallState
  <2>3. Knows(call[c])'
    BY <1>1, <1>2, <1>5, <2>2 DEF Knows
  <2>. QED BY <1>3, <2>1, <2>3 DEF Known
<1>6. ASSUME NEW pc \in {"threw", "dead"}, Fails(c, pc) PROVE Known'
  <2>1. call' \in [Calls -> CallState] /\ \A d \in Calls : d # c => call'[d] = call[d]
    <3>. DEFINE x == [call[c] EXCEPT !.pc = pc, !.answer = None, !.seen = None, !.at = 0, !.tries = 0]
    <3>1. x \in CallState
      BY <1>1, <1>6, ZenonT(60) DEF CallState
    <3>2. call' = [call EXCEPT ![c] = x]
      BY <1>1, <1>6 DEF Fails
    <3>. HIDE DEF x
    <3>. QED BY <1>1, <3>1, <3>2
  <2>2. call'[c].pc = pc /\ call'[c].op = call[c].op
    BY <1>1, <1>6 DEF Fails, CallState
  <2>3. Knows(call[c])'
    BY <1>1, <1>2, <1>6, <2>2 DEF Knows
  <2>. QED BY <1>3, <2>1, <2>3 DEF Known
<1>7. ASSUME call[c].pc = "upsert", call' = [call EXCEPT ![c].pc = "index"] PROVE Known'
  <2>1. call' \in [Calls -> CallState] /\ \A d \in Calls : d # c => call'[d] = call[d]
    BY <1>1, <1>7 DEF CallState
  <2>2. call'[c].pc = "index" /\ call'[c].op = call[c].op /\ call'[c].seen = call[c].seen /\ call'[c].at = call[c].at
    BY <1>1, <1>7 DEF CallState
  <2>3. Knows(call[c])'
    BY <1>1, <1>2, <1>7, <2>2 DEF Knows
  <2>. QED BY <1>3, <2>1, <2>3 DEF Known
<1>. QED BY <1>4, <1>5, <1>6, <1>7

LEMMA KnownNext ==
  ASSUME Before, Next
  PROVE  Known'
<1>1. CASE Tick
  <2>1. call' = call /\ now' = now + 1 /\ now \in Nat /\ scenario' = scenario /\ (Sql' <=> Sql)
    BY <1>1, AdapterAssumption, Steps DEF Tick, Before, Typed, Sql
  <2>2. ASSUME NEW c \in Calls PROVE Knows(call[c])'
    <3>1. call[c].at \in Nat
      BY DEF Before, Known, CallState
    <3>2. call[c].pc \notin {"idle", "done", "threw", "dead"} /\ Sql => call[c].at = now
      BY <1>1 DEF Tick, InFlight, Sql
    <3>. QED BY <2>1, <3>1, <3>2 DEF Before, Known, Knows
  <2>. QED BY <2>1, <2>2 DEF Before, Known
<1>2. ASSUME Same, NEW c \in Calls, Begins(c) PROVE Known'
  <2>1. PICK op \in Operations[scenario], a \in Accounts, u \in Usernames :
          call' = [call EXCEPT ![c].pc = "sent", ![c].op = op, ![c].at = now, ![c].account = a, ![c].username = u]
    BY <1>2 DEF Begins
  <2>2. op \in {"consume", "save", "destroy", "revoke", "prune", "claim", "create"} /\ now \in Nat
    BY OperationsOnce, AdapterAssumption DEF Before, Once, Typed
  <2>3. call' \in [Calls -> CallState] /\ \A d \in Calls : d # c => call'[d] = call[d]
    <3>. DEFINE x == [call[c] EXCEPT !.pc = "sent", !.op = op, !.at = now, !.account = a, !.username = u]
    <3>1. call \in [Calls -> CallState]
      BY DEF Before, Known
    <3>2. x \in CallState
      BY <2>2, <3>1, ZenonT(60) DEF CallState
    <3>3. call' = [call EXCEPT ![c] = x]
      BY <2>1, <3>1
    <3>. HIDE DEF x
    <3>. QED BY <3>1, <3>2, <3>3
  <2>4. call'[c].pc = "sent" /\ call'[c].op = op /\ call'[c].at = now
    BY <2>1 DEF Before, Known, CallState
  <2>5. scenario' = scenario /\ now' = now /\ (Sql' <=> Sql)
    BY <1>2 DEF Same, Sql
  <2>6. Knows(call[c])'
    BY <2>2, <2>4, <2>5 DEF Knows
  <2>7. ASSUME NEW d \in Calls, d # c PROVE Knows(call[d])'
    BY <2>3, <2>5, <2>7 DEF Before, Known, Knows
  <2>. QED BY <2>3, <2>6, <2>7 DEF Known
<1>3. ASSUME Same, NEW c \in Calls, Dies(c) PROVE Known'
  BY <1>3, CallAfter DEF Dies
<1>4. ASSUME Same, NEW c \in Calls, scenario = "artifact", Sql, SqlArtifactStep(c) PROVE Known'
  <2>1. call[c].pc \notin {"idle", "done", "threw", "dead"}
    BY <1>4 DEF SqlArtifactStep, In
  <2>2. Row # None => Row \in SqlArtifact
    BY <1>4 DEF Before, Rows
  <2>. QED BY <1>4, <2>1, <2>2, CallAfter DEF SqlArtifactStep, In, Asking
<1>5. ASSUME Same, NEW c \in Calls, SqlClaimStep(c) \/ SqlRealmStep(c) \/ KvClaimStep(c) \/ KvRealmStep(c) PROVE Known'
  <2>1. call[c].pc \notin {"idle", "done", "threw", "dead"}
    BY <1>5 DEF SqlClaimStep, SqlRealmStep, KvClaimStep, KvRealmStep, In
  <2>. QED BY <1>5, <2>1, CallAfter DEF SqlClaimStep, SqlRealmStep, KvClaimStep, KvRealmStep, In, Asking
<1>6. ASSUME Same, NEW c \in Calls, scenario = "artifact", ~Sql, KvArtifactStep(c) PROVE Known'
  <2>1. call[c].pc \notin {"idle", "done", "threw", "dead"}
    BY <1>6 DEF KvArtifactStep, In
  <2>2. Row # None => Row.value \in KvArtifact
    BY <1>6 DEF Before, Rows
  <2>. QED BY <1>6, <2>1, <2>2, CallAfter DEF KvArtifactStep, In, Asking, Had
<1>. QED BY <1>1, <1>2, <1>3, <1>4, <1>5, <1>6, Steps DEF CallStep

LEMMA RowsNext ==
  ASSUME Before, Next
  PROVE  Rows'
<1>1. /\ scenario' = scenario /\ (Sql' <=> Sql) /\ DOMAIN store = Keys /\ now \in Nat /\ Expiry \in Nat
      /\ Once
  BY Steps, AdapterAssumption DEF Sql, Before, Rows, Typed
<1>2. CASE store' = store
  BY <1>1, <1>2 DEF Before, Rows, Row
<1>3. ASSUME NEW row, Puts(row),
             scenario = "artifact" => IF Sql THEN row \in SqlArtifact ELSE row = None,
             scenario = "claim" => IF Sql THEN row \in [expires : Nat] ELSE row \in [value : {None}, expires : Nat],
             scenario = "realm" => IF Sql THEN row \in [by : Calls] ELSE row \in [value : Calls, expires : {Kv!Forever}]
      PROVE  Rows'
  <2>1. Row' = row /\ DOMAIN store' = Keys
    BY <1>1, <1>3, RowAfter
  <2>2. scenario = "artifact" => store'[<<"consumed">>] = store[<<"consumed">>]
    BY <1>1, <1>3, KeysOnce DEF Puts
  <2>. QED BY <1>1, <1>3, <2>1, <2>2 DEF Before, Rows
<1>4. ASSUME Puts(None) PROVE Rows'
  <2>1. Row' = None /\ DOMAIN store' = Keys
    BY <1>1, <1>4, RowAfter
  <2>2. scenario = "artifact" => store'[<<"consumed">>] = store[<<"consumed">>]
    BY <1>1, <1>4, KeysOnce DEF Puts
  <2>. QED BY <1>1, <2>1, <2>2 DEF Before, Rows
<1>5. ASSUME Same, NEW c \in Calls, scenario = "artifact", Sql, SqlArtifactStep(c) PROVE Rows'
  <2>1. Row \in SqlArtifact \cup {None}
    BY <1>5 DEF Before, Rows
  <2>2. CASE Had(Row, call[c].at) /\ Puts([Row EXCEPT !.consumed = TRUE])
    <3>1. [Row EXCEPT !.consumed = TRUE] \in SqlArtifact
      BY <2>1, <2>2 DEF SqlArtifact, Had
    <3>. QED BY <1>3, <1>5, <2>2, <3>1
  <2>3. CASE call[c].pc = "upsert" /\ Puts(IF Row = None THEN call[c].seen ELSE [call[c].seen EXCEPT !.consumed = Row.consumed])
    <3>1. call[c].seen \in SqlArtifact
      BY <1>5, <2>3 DEF Before, Known, Knows
    <3>2. (IF Row = None THEN call[c].seen ELSE [call[c].seen EXCEPT !.consumed = Row.consumed]) \in SqlArtifact
      BY <2>1, <3>1 DEF SqlArtifact
    <3>. QED BY <1>3, <1>5, <2>3, <3>2
  <2>. QED BY <1>2, <1>4, <1>5, <2>2, <2>3 DEF SqlArtifactStep, In
<1>6. ASSUME Same, NEW c \in Calls, scenario = "claim", Sql, SqlClaimStep(c) PROVE Rows'
  <2>1. call[c].at + Ttl \in Nat
    BY AdapterAssumption DEF Before, Known, CallState
  <2>. QED BY <1>2, <1>3, <1>4, <1>6, <2>1 DEF SqlClaimStep
<1>7. ASSUME Same, NEW c \in Calls, scenario = "realm", Sql, SqlRealmStep(c) PROVE Rows'
  BY <1>2, <1>3, <1>4, <1>7 DEF SqlRealmStep
<1>8. ASSUME Same, NEW c \in Calls, scenario = "artifact", ~Sql, KvArtifactStep(c) PROVE Rows'
  <2>. DEFINE ttl == Kv!TtlFrom(call[c].seen.expires, call[c].at)
  <2>1. (call[c].pc \in {"upsert", "index"} \/ In(c, "consume", "insert")) =>
          /\ call[c].seen \in KvArtifact /\ call[c].at \in Nat /\ call[c].at <= now
          /\ ttl \in Nat /\ Expiry <= call[c].at + ttl
    <3>1. SUFFICES ASSUME call[c].pc \in {"upsert", "index"} \/ In(c, "consume", "insert")
                   PROVE  /\ call[c].seen \in KvArtifact /\ call[c].at \in Nat /\ call[c].at <= now
                          /\ ttl \in Nat /\ Expiry <= call[c].at + ttl
      OBVIOUS
    <3>2. call[c].seen \in KvArtifact /\ call[c].at \in Nat /\ call[c].at <= now
      BY <1>8, <3>1 DEF Before, Known, Knows, CallState, In
    <3>3. call[c].seen.expires = Expiry
      BY <3>2 DEF KvArtifact
    <3>. QED BY <1>1, <3>2, <3>3, TtlFromReaches
  <2>. HIDE DEF ttl
  <2>2. CASE In(c, "consume", "insert") /\ KvPuts(<<"consumed">>, None, ttl)
    <3>1. ttl \in Nat /\ call[c].at \in Nat /\ call[c].at <= now /\ Expiry <= call[c].at + ttl
      BY <2>1, <2>2
    <3>2. DOMAIN store' = Keys /\ Row' = Row /\ store'[<<"consumed">>] = [value |-> None, expires |-> now + ttl]
      BY <1>1, <1>8, <2>2, KeysOnce DEF KvPuts, Row
    <3>3. store'[<<"consumed">>] \in [value : {None}, expires : Nat] /\ Expiry <= store'[<<"consumed">>].expires
      BY <1>1, <3>1, <3>2
    <3>. QED BY <1>1, <1>8, <3>2, <3>3 DEF Before, Rows
  <2>3. CASE In(c, "save", "upsert") /\ KvPuts(<<"artifact">>, call[c].seen, ttl)
    <3>1. ttl \in Nat /\ call[c].seen \in KvArtifact
      BY <2>1, <2>3 DEF In
    <3>2. /\ DOMAIN store' = Keys /\ Row' = [value |-> call[c].seen, expires |-> now + ttl]
          /\ store'[<<"consumed">>] = store[<<"consumed">>]
      BY <1>1, <1>8, <2>3, KeysOnce DEF KvPuts, Row
    <3>3. Row' \in [value : KvArtifact, expires : Nat]
      BY <1>1, <3>1, <3>2
    <3>. QED BY <1>1, <1>8, <3>2, <3>3 DEF Before, Rows
  <2>4. CASE \E row : store' = [store EXCEPT ![<<"index">>] = row]
    <3>1. DOMAIN store' = Keys /\ Row' = Row /\ store'[<<"consumed">>] = store[<<"consumed">>]
      BY <1>1, <1>8, <2>4, KeysOnce DEF Row
    <3>. QED BY <1>1, <1>8, <3>1 DEF Before, Rows
  <2>. QED BY <1>2, <1>4, <1>8, <2>2, <2>3, <2>4 DEF KvArtifactStep, KvPuts, ttl
<1>9. ASSUME Same, NEW c \in Calls, scenario = "claim", ~Sql, KvClaimStep(c) PROVE Rows'
  <2>1. CASE KvPuts(<<"claim">>, None, Ttl)
    <3>1. Puts([value |-> None, expires |-> now + Ttl]) /\ now + Ttl \in Nat
      BY <1>1, <1>9, <2>1, AdapterAssumption DEF KvPuts, Puts
    <3>. QED BY <1>3, <1>9, <3>1
  <2>. QED BY <1>2, <1>9, <2>1 DEF KvClaimStep
<1>10. ASSUME Same, NEW c \in Calls, scenario = "realm", ~Sql, KvRealmStep(c) PROVE Rows'
  BY <1>2, <1>3, <1>4, <1>10 DEF KvRealmStep
<1>11. Tick \/ (\E c \in Calls : Begins(c) \/ Dies(c)) => store' = store
  BY DEF Tick, Begins, Dies
<1>. QED BY <1>2, <1>5, <1>6, <1>7, <1>8, <1>9, <1>10, <1>11, Steps DEF CallStep

\* An open call that did not move has met all that it had, and what the thing is now.
LEMMA Unmoved ==
  ASSUME Before, Next, NEW d \in Calls, call'[d] = call[d], Outcome(d)' = "open"
  PROVE  Outcome(d) = "open" /\ met[d] \subseteq met'[d] /\ Life' \in met'[d]
<1>1. Outcome(d) = "open"
  BY Steps DEF Before, Outcome
<1>. QED BY <1>1, Steps DEF History

\* The calls but one do not move.
LEMMA OthersStay ==
  ASSUME Before, NEW c \in Calls, CallStep(c) \/ Begins(c) \/ Dies(c), NEW d \in Calls, d # c
  PROVE  call'[d] = call[d]
<1>1. call \in [Calls -> CallState]
  BY DEF Before, Known
<1>2. CASE Begins(c)
  <2>1. PICK op, a, u :
          call' = [call EXCEPT ![c].pc = "sent", ![c].op = op, ![c].at = now, ![c].account = a, ![c].username = u]
    BY <1>2, Zenon DEF Begins
  <2>. QED BY <1>1, <2>1 DEF CallState
<1>3. \A value : Told(c, value) => call'[d] = call[d]
  BY <1>1 DEF Told, CallState
<1>4. \A pc, seen : GoesOn(c, pc, seen) => call'[d] = call[d]
  BY <1>1 DEF GoesOn, CallState
<1>5. \A pc : Fails(c, pc) => call'[d] = call[d]
  BY <1>1 DEF Fails, CallState
<1>6. call' = [call EXCEPT ![c].pc = "index"] => call'[d] = call[d]
  BY <1>1 DEF CallState
<1>7. CASE Dies(c)
  BY <1>5, <1>7 DEF Dies
<1>8. CASE CallStep(c)
  <2>. DEFINE stays == call'[d] = call[d]
  <2>1. /\ \A value : Told(c, value) => stays
        /\ \A pc, seen : GoesOn(c, pc, seen) => stays
        /\ \A pc : Fails(c, pc) => stays
        /\ call' = [call EXCEPT ![c].pc = "index"] => stays
    BY <1>3, <1>4, <1>5, <1>6
  <2>. HIDE DEF stays
  <2>2. stays
    BY <1>8, <2>1
       DEF CallStep, SqlArtifactStep, SqlClaimStep, SqlRealmStep, KvArtifactStep, KvClaimStep, KvRealmStep
  <2>. QED BY <2>2 DEF stays
<1>. QED BY <1>2, <1>7, <1>8

\* What an open call has met of a claim that is in a table.
LateClaim(d) ==
  Row # None /\ (Row.expires > call[d].at \/ call[d].pc \in {"insert", "collided"}) => "taken" \in met[d]

LEMMA LateClaimNext ==
  ASSUME Before, Next, scenario = "claim", Sql, NEW d \in Calls, Outcome(d)' = "open"
  PROVE  LateClaim(d)'
<1>1. /\ Outcome(d) = "open" => LateClaim(d)
      /\ scenario' = "claim" /\ Sql' /\ Once' /\ Life = Thing /\ Life' = Thing' /\ Life' \in met'[d]
      /\ Outcome(d) = "open" => met[d] \subseteq met'[d]
  BY Steps, LifeIs DEF Before, Late, LateClaim, Sql, History
<1>2. Row \in [expires : Nat] \cup {None} /\ call \in [Calls -> CallState] /\ now \in Nat
  BY AdapterAssumption DEF Before, Rows, Known, Typed
<1>3. store' = store => Row' = Row
  BY <1>1 DEF Row
<1>4. CASE Life' = "taken"
  BY <1>1, <1>4 DEF LateClaim
<1>5. CASE Row' = None
  BY <1>5 DEF LateClaim
<1>6. ASSUME store' = store, call'[d] = call[d] PROVE LateClaim(d)'
  BY <1>1, <1>3, <1>6, Unmoved DEF LateClaim
<1>7. ASSUME NEW c \in Calls, Same, SqlClaimStep(c) PROVE LateClaim(d)'
  <2>1. call[c].pc \notin {"idle", "done", "threw", "dead"} /\ call[c].op \in Asking
    BY <1>7 DEF SqlClaimStep, Asking
  <2>2. call[c].at \in Nat /\ call[c].at <= now /\ now <= call[c].at + 1 /\ now' = now /\ Outcome(c) = "open"
    BY <1>1, <1>7, <2>1, Standing DEF Before, Known, Knows, Same
  <2>3. CASE Puts([expires |-> call[c].at + Ttl])
    <3>1. Row' = [expires |-> call[c].at + Ttl]
      BY <1>7, <2>3, RowAfter DEF Before, Same, Rows
    <3>2. Row' \in [expires : Nat] /\ Row'.expires > now'
      BY <1>2, <2>2, <3>1, AdapterAssumption
    <3>3. Life' = "taken"
      BY <1>1, <3>2, RowsAreNot DEF Thing, Had
    <3>. QED BY <1>4, <3>3
  <2>4. CASE Puts(None)
    BY <1>5, <1>7, <2>4, RowAfter DEF Before, Same, Rows
  <2>5. CASE store' = store /\ d # c
    BY <1>1, <1>6, <1>7, <2>5, OthersStay DEF CallStep
  <2>6. CASE store' = store /\ d = c
    <3>1. ~(\E value \in BOOLEAN : Told(c, value)) /\ ~Fails(c, "threw")
      BY <1>7, <2>1, <2>6, Outcomes DEF Before, Same, Known
    <3>2. call[c].pc = "insert" \/ ~(Row # None /\ Row.expires <= call[c].at)
      <4>1. Puts(None) => Row = None
        BY <1>3, <1>7, <2>6, RowAfter DEF Before, Same, Rows
      <4>. QED BY <1>7, <2>6, <3>1, <4>1 DEF SqlClaimStep
    <3>3. Row # None => "taken" \in met[c]
      BY <1>1, <1>2, <2>2, <2>6, <3>2 DEF LateClaim
    <3>. QED BY <1>1, <1>3, <2>2, <2>6, <3>3 DEF LateClaim
  <2>. QED BY <1>7, <2>3, <2>4, <2>5, <2>6 DEF SqlClaimStep
<1>8. ASSUME NEW c \in Calls, Same, Begins(c) PROVE LateClaim(d)'
  <2>1. CASE d = c
    <3>1. call'[c].pc = "sent" /\ call'[c].at = now /\ Row' = Row /\ now' = now
      BY <1>2, <1>3, <1>8 DEF Begins, CallState, Same
    <3>2. Row # None /\ Row.expires > now => Life' = "taken"
      BY <1>1, <3>1 DEF Thing, Had
    <3>. QED BY <1>1, <2>1, <3>1, <3>2 DEF LateClaim
  <2>2. CASE d # c
    BY <1>6, <1>8, <2>2, OthersStay DEF Begins
  <2>. QED BY <2>1, <2>2
<1>9. ASSUME NEW c \in Calls, Same, Dies(c) PROVE LateClaim(d)'
  <2>1. d # c
    BY <1>9, Outcomes DEF Before, Same, Known, Dies
  <2>. QED BY <1>6, <1>9, <2>1, OthersStay DEF Dies
<1>10. CASE Tick
  BY <1>6, <1>10 DEF Tick
<1>11. ASSUME NEW c \in Calls, CallStep(c) PROVE SqlClaimStep(c)
  BY <1>11 DEF CallStep
<1>. QED BY <1>7, <1>8, <1>9, <1>10, <1>11, Steps

\* What a key-value store's consume knows before its insert.
LateConsume(d) ==
  call[d].pc = "insert" => now < Expiry /\ ("free" \in met[d] \/ Had(store[<<"consumed">>], now))

LEMMA LateConsumeNext ==
  ASSUME Before, Next, ~Slow \/ Sql, scenario = "artifact", NEW d \in Calls, Outcome(d)' = "open"
  PROVE  LateConsume(d)'
<1>1. /\ Outcome(d) = "open" => LateConsume(d)
      /\ scenario' = "artifact" /\ Once' /\ Life = Thing /\ Life' = Thing' /\ Life' \in met'[d]
      /\ (Sql' <=> Sql) /\ Known'
  BY Steps, LifeIs, KnownNext DEF Before, Late, LateConsume, Sql, History, Had, Kv!Held
<1>2. call \in [Calls -> CallState] /\ now \in Nat /\ Expiry \in Nat
  BY AdapterAssumption DEF Before, Known, Typed
<1>3. call'[d].op = "consume"
  <2>1. call'[d].op \in Asking /\ call'[d].pc # "idle"
    BY <1>1, NoneAssumption DEF Outcome, Asking, Known, Knows
  <2>2. call'[d].op \in Operations["artifact"]
    BY <1>1, <2>1 DEF Known, Knows
  <2>. QED BY <2>1, <2>2, OperationsOnce DEF Asking
<1>4. CASE call'[d].pc # "insert"
  BY <1>4 DEF LateConsume
<1>5. CASE call'[d].pc = "insert"
  <2>1. ~Sql /\ ~Slow
    BY <1>1, <1>3, <1>5 DEF Known, Knows
  <2>2. /\ store[<<"consumed">>] # None => store[<<"consumed">>].expires \in Nat /\ Expiry <= store[<<"consumed">>].expires
        /\ Row # None => Row.value \in KvArtifact
    BY <2>1 DEF Before, Rows
  <2>3. CASE Tick
    <3>1. call'[d] = call[d] /\ store' = store /\ now' = now + 1
      BY <2>3 DEF Tick
    <3>2. call[d].seen \in KvArtifact /\ call[d].pc = "insert" /\ call[d].op = "consume"
      BY <1>3, <1>5, <3>1 DEF Before, Known, Knows
    <3>3. now' < Expiry
      BY <1>2, <2>1, <2>3, <3>2 DEF Tick, In, KvArtifact
    <3>4. "free" \in met[d] \/ Had(store[<<"consumed">>], now)
      BY <1>1, <3>1, <3>2, Unmoved DEF LateConsume
    <3>5. Had(store[<<"consumed">>], now) => Had(store'[<<"consumed">>], now')
      BY <1>2, <2>2, <3>1, <3>3 DEF Had
    <3>. QED BY <3>1, <3>3, <3>4, <3>5, Unmoved DEF LateConsume
  <2>4. ASSUME NEW c \in Calls, Same, KvArtifactStep(c) PROVE LateConsume(d)'
    <3>1. Had(store[<<"consumed">>], now) => Had(store'[<<"consumed">>], now')
      <4>1. CASE store'[<<"consumed">>] = store[<<"consumed">>]
        BY <2>4, <4>1 DEF Same
      <4>2. CASE store' = store \/ \E key, row : store' = [store EXCEPT ![key] = row] /\ key # <<"consumed">>
        BY <4>1, <4>2, KeysOnce DEF Before, Rows
      <4>3. CASE ~Had(store[<<"consumed">>], now)
        BY <4>3
      <4>4. store' = store \/ ~Had(store[<<"consumed">>], now)
            \/ \E key, row : store' = [store EXCEPT ![key] = row] /\ key \in {<<"artifact">>, <<"index">>}
        <5>1. \A key, row : KvPuts(key, row[1], row[2]) => \E x : store' = [store EXCEPT ![key] = x]
          BY DEF KvPuts
        <5>. QED BY <2>4, <5>1 DEF KvArtifactStep, KvPuts, Puts
      <4>. QED BY <4>2, <4>3, <4>4, KeysOnce
    <3>2. CASE d # c
      <4>1. call'[d] = call[d]
        BY <2>1, <2>4, <3>2, OthersStay DEF CallStep
      <4>. QED BY <1>1, <1>5, <2>4, <3>1, <4>1, Unmoved DEF LateConsume, Same
    <3>3. CASE d = c
      <4>1. Had(Row, now) /\ Row.value.expires > now /\ store' = store
        <5>1. call'[c].pc = "insert" /\ call'[c].op = "consume" /\ call[c].op = "consume"
          BY <1>3, <1>5, <2>4, <3>3, <1>2 DEF KvArtifactStep, Told, GoesOn, In, CallState
        <5>. QED BY <2>4, <5>1, <1>2 DEF KvArtifactStep, Told, GoesOn, In, CallState
      <4>2. now' < Expiry
        BY <2>2, <2>4, <4>1 DEF Had, KvArtifact, Same
      <4>3. Life' = "taken" <=> Had(store'[<<"consumed">>], now')
        BY <1>1, <2>1 DEF Thing
      <4>4. Life' \in {"free", "taken"}
        BY <1>1, <2>1, <2>4, <4>1 DEF Thing, Same, Had, Row
      <4>. QED BY <1>1, <4>2, <4>3, <4>4 DEF LateConsume
    <3>. QED BY <3>2, <3>3
  <2>5. ASSUME NEW c \in Calls, Same, Begins(c) \/ Dies(c) PROVE LateConsume(d)'
    <3>1. d # c
      <4>1. Begins(c) => call'[c].pc = "sent"
        BY <1>2 DEF Begins, CallState
      <4>2. Dies(c) => call'[c].pc = "dead"
        BY <1>2 DEF Dies, Fails, CallState
      <4>. QED BY <1>5, <2>5, <4>1, <4>2
    <3>2. call'[d] = call[d] /\ store' = store
      BY <2>5, <3>1, OthersStay DEF Begins, Dies
    <3>. QED BY <1>1, <1>5, <2>5, <3>2, Unmoved DEF LateConsume, Same
  <2>6. ASSUME NEW c \in Calls, CallStep(c) PROVE KvArtifactStep(c)
    BY <2>1, <2>6 DEF CallStep
  <2>. QED BY <2>3, <2>4, <2>5, <2>6, Steps
<1>. QED BY <1>4, <1>5

LEMMA LateNext ==
  ASSUME Before, Next, ~Slow \/ Sql
  PROVE  Late'
<1>1. scenario' = scenario /\ (Sql' <=> Sql)
  BY Steps DEF Sql
<1>2. ASSUME NEW d \in Calls, Outcome(d)' = "open"
      PROVE  /\ scenario = "claim" /\ Sql => LateClaim(d)'
             /\ scenario = "artifact" => LateConsume(d)'
  BY <1>2, LateClaimNext, LateConsumeNext
<1>. QED BY <1>1, <1>2 DEF Late, LateClaim, LateConsume, Had, Kv!Held

LEMMA TypedNext ==
  ASSUME Typed, Next
  PROVE  Typed' /\ Meets' /\ scenario' = scenario
<1>1. backend' = backend /\ scenario' = scenario /\ History
  BY DEF Next, History
<1>2. now' \in 0..MaxTime
  BY AdapterAssumption DEF Next, Tick, Typed
<1>. QED BY <1>1, <1>2, MeetsNext DEF Typed

\* What is there to begin with.
LEMMA StoredFirst ==
  ASSUME Init, Once
  PROVE  Rows /\ Thing \in {"absent", "free"}
<1>1. /\ DOMAIN store = Keys /\ now = 0 /\ <<scenario>> \in Keys
      /\ store = Stored0
  BY KeysOnce DEF Init, Stored0
<1>2. Expiry \in Nat /\ Expiry > 0
  BY AdapterAssumption
<1>3. CASE scenario = "artifact" /\ Sql
  <2>1. Row = [expires |-> Expiry, consumed |-> FALSE]
    BY <1>1, <1>3 DEF Stored0, Row, Sql
  <2>2. Row \in SqlArtifact /\ Row.expires > now /\ ~Row.consumed
    BY <1>1, <1>2, <2>1 DEF SqlArtifact
  <2>. QED BY <1>1, <1>3, <2>2, RowsAreNot DEF Rows, Thing, Had
<1>4. CASE scenario = "artifact" /\ ~Sql
  <2>1. Row = [value |-> [expires |-> Expiry], expires |-> Kv!TtlFrom(Expiry, 0)] /\ store[<<"consumed">>] = None
    BY <1>1, <1>4, KeysOnce DEF Stored0, Row, Sql
  <2>2. Row \in [value : KvArtifact, expires : Nat]
    BY <1>2, <2>1, TtlFromReaches DEF KvArtifact
  <2>. QED BY <1>1, <1>4, <2>1, <2>2 DEF Rows, Thing, Had
<1>5. CASE scenario \in {"claim", "realm"}
  <2>1. Row = None
    BY <1>1, <1>5 DEF Stored0, Row
  <2>. QED BY <1>1, <1>5, <2>1 DEF Rows, Thing, Had
<1>. QED BY <1>3, <1>4, <1>5 DEF Once

LEMMA First ==
  ASSUME Init
  PROVE  IInv /\ Contract!Init
<1>1. \A c \in Calls : call[c] = Idle /\ Outcome(c) = "none" /\ met[c] = {}
  BY NoneAssumption DEF Init, Idle, Outcome
<1>2. Typed /\ Meets /\ Late
  BY <1>1, AdapterAssumption DEF Init, Typed, Meets, Late
<1>3. Once => Known
  <2>1. Idle \in CallState
    BY DEF Idle, CallState
  <2>2. Knows(Idle)
    BY NoneAssumption DEF Idle, Knows, Asking
  <2>. QED BY <1>1, <2>1, <2>2 DEF Init, Known
<1>4. Life \in {"absent", "free"}
  BY StoredFirst, LifeIs DEF Life
<1>5. Contract!Init
  BY <1>1, <1>4 DEF Contract!Init, Init
<1>. QED BY <1>2, <1>3, <1>5, StoredFirst DEF IInv

LEMMA IInvNext ==
  ASSUME ~Slow \/ "kv" \notin Backends, IInv, [Next]_all
  PROVE  IInv'
<1>1. CASE UNCHANGED all
  <2>1. Life' = Life /\ (Once' <=> Once) /\ \A c \in Calls : Outcome(c)' = Outcome(c)
    BY <1>1 DEF all, vars, Life, KvLife, SqlLife, Once, Outcome, Kv!Held, Kv!Artifact, Drizzle!Live
  <2>2. Typed' /\ Meets'
    BY <1>1, <2>1 DEF all, vars, IInv, Typed, Meets
  <2>3. Once => Rows' /\ Known' /\ Late'
    BY <1>1, <2>1 DEF all, vars, IInv, Rows, Known, Knows, Late, Row, Sql, Kv!Held
  <2>. QED BY <2>1, <2>2, <2>3 DEF IInv
<1>2. CASE Next
  <2>1. Typed' /\ Meets' /\ (Once' <=> Once)
    BY <1>2, TypedNext DEF IInv, Once
  <2>2. Once => Before /\ (~Slow \/ Sql)
    BY DEF IInv, Before, Typed, Sql
  <2>. QED BY <1>2, <2>1, <2>2, RowsNext, KnownNext, LateNext DEF IInv
<1>. QED BY <1>1, <1>2

-----------------------------------------------------------------------------
(* Every step is one of the contract's, or none. *)

LEMMA BeginsEffect ==
  ASSUME Before, Next, Same, NEW c \in Calls, Begins(c) \/ Dies(c)
  PROVE  Effect(c)
<1>1. Life' = Life
  <2>1. store' = store /\ Once'
    BY Steps DEF Begins, Dies
  <2>. QED BY <2>1, LifeIs DEF Before, Same, Thing, Row, Sql, Had
<1>2. CASE Begins(c)
  <2>1. Outcome(c) = "none"
    BY <1>2, NoneAssumption DEF Before, Known, Knows, Begins, Outcome
  <2>2. call'[c].pc = "sent"
    <3>1. PICK op, a, u :
            call' = [call EXCEPT ![c].pc = "sent", ![c].op = op, ![c].at = now, ![c].account = a, ![c].username = u]
      BY <1>2 DEF Begins
    <3>. QED BY <3>1 DEF Before, Known, CallState
  <2>3. Outcome(c)' \in {"open", "none"}
    BY <2>2 DEF Outcome
  <2>4. OthersOutcome(c)
    BY <1>2, OthersStay, Steps DEF OthersOutcome, Outcome, Before
  <2>. QED BY <1>1, <2>1, <2>3, <2>4 DEF Effect, Changes
<1>3. CASE Dies(c)
  BY <1>1, <1>3, QuietEffect DEF Dies
<1>. QED BY <1>2, <1>3

LEMMA StepEffect ==
  ASSUME Before, Next, Same, NEW c \in Calls, CallStep(c)
  PROVE  Effect(c)
BY SqlArtifactEffect, SqlClaimEffect, SqlRealmEffect, KvArtifactEffect, KvClaimEffect, KvRealmEffect DEF CallStep

LEMMA TickEffect ==
  ASSUME Before, Next, Tick
  PROVE  Changes /\ \A c \in Calls : Outcome(c)' = Outcome(c)
<1>1. /\ Once' /\ scenario' = scenario /\ (Sql' <=> Sql) /\ store' = store /\ call' = call /\ now' = now + 1
      /\ now \in Nat /\ Expiry \in Nat /\ Life = Thing /\ Life' = Thing' /\ Row' = Row
      /\ scenario \in {"artifact", "claim"}
  BY Steps, LifeIs, AdapterAssumption DEF Before, Tick, Typed, Sql, Row
<1>2. \A c \in Calls : Outcome(c)' = Outcome(c)
  BY <1>1 DEF Outcome, Before
<1>3. CASE scenario = "artifact" /\ Sql
  BY <1>1, <1>2, <1>3 DEF Thing, Changes
<1>4. CASE scenario = "artifact" /\ ~Sql
  <2>1. /\ Row # None => Row.value.expires = Expiry
        /\ store[<<"consumed">>] # None => /\ store[<<"consumed">>].expires \in Nat
                                           /\ Expiry <= store[<<"consumed">>].expires
    BY <1>4 DEF Before, Rows, KvArtifact
  <2>2. CASE store[<<"consumed">>] = None
    <3>1. Life # "taken" /\ Life' # "taken"
      BY <1>1, <1>4, <2>2 DEF Thing, Had
    <3>. QED BY <1>2, <3>1 DEF Changes
  <2>3. CASE store[<<"consumed">>] # None /\ store[<<"consumed">>].expires > now'
    <3>1. Had(store[<<"consumed">>], now) /\ Had(store'[<<"consumed">>], now')
      BY <1>1, <2>1, <2>3 DEF Had
    <3>2. Life = "taken" /\ Life' = "taken"
      BY <1>1, <1>4, <3>1 DEF Thing
    <3>. QED BY <1>2, <3>2 DEF Changes
  <2>4. CASE store[<<"consumed">>] # None /\ ~(store[<<"consumed">>].expires > now')
    <3>1. ~(Expiry > now')
      BY <1>1, <2>1, <2>4
    <3>2. Life' = "absent"
      BY <1>1, <1>4, <2>1, <2>4, <3>1 DEF Thing, Had
    <3>. QED BY <1>2, <3>2 DEF Changes
  <2>. QED BY <2>2, <2>3, <2>4
<1>5. CASE scenario = "claim"
  <2>1. Row # None => Row.expires \in Nat
    BY <1>5 DEF Before, Rows
  <2>2. Had(Row', now') => Had(Row, now)
    BY <1>1, <2>1 DEF Had
  <2>3. Life' = "taken" => Life = "taken"
    BY <1>1, <1>5, <2>2 DEF Thing
  <2>. QED BY <1>2, <1>5, <2>3 DEF Changes
<1>. QED BY <1>1, <1>3, <1>4, <1>5

\* The contract's history is the adapters'.
LEMMA AnsweredIs ==
  ASSUME History, NEW l, Life' = l
  PROVE  Contract!Answered(l)
BY DEF History, Contract!Answered, Contract!Meet

LEMMA ContractStep ==
  ASSUME IInv, Next
  PROVE  \/ Contract!Next
         \/ UNCHANGED <<scenario \in {"claim", "realm"}, Life, [c \in Calls |-> Outcome(c)], met>>
<1>. DEFINE answers == [c \in Calls |-> Outcome(c)]
<1>1. scenario' = scenario /\ (Once' <=> Once) /\ History
  BY DEF Next, History, Once
<1>2. \A d \in Calls : answers[d] = Outcome(d) /\ answers'[d] = Outcome(d)'
  OBVIOUS
<1>3. ASSUME NEW c \in Calls, OthersOutcome(c), NEW o, Outcome(c)' = o
      PROVE  answers' = [answers EXCEPT ![c] = o]
  BY <1>3 DEF OthersOutcome
<1>4. ASSUME \A d \in Calls : Outcome(d)' = Outcome(d), Life' = Life
      PROVE  UNCHANGED <<scenario \in {"claim", "realm"}, Life, answers, met>>
  <2>1. answers' = answers
    BY <1>4
  <2>2. \A d \in Calls : met'[d] = met[d]
    BY <1>1, <1>4 DEF History, IInv, Meets
  <2>3. met \in [Calls -> SUBSET Lives] /\ met' = [d \in Calls |-> met'[d]]
    BY <1>1 DEF IInv, Typed, History
  <2>4. met' = met
    BY <2>2, <2>3
  <2>. QED BY <1>1, <1>4, <2>1, <2>4
<1>5. ASSUME \A d \in Calls : Outcome(d)' = Outcome(d), Life' # Life, Changes
      PROVE  Contract!Next
  <2>1. answers' = answers
    BY <1>5
  <2>2. Life \in Lives /\ Life' \in Lives
    BY LifeIsALife
  <2>3. Contract!Answered(Life')
    BY <1>1, AnsweredIs
  <2>4. Contract!Change
    BY <1>5, <2>1, <2>2, <2>3 DEF Contract!Change, Changes, Lives
  <2>. QED BY <1>1, <2>4 DEF Contract!Next
<1>6. ASSUME NEW c \in Calls, Effect(c)
      PROVE  Contract!Next \/ UNCHANGED <<scenario \in {"claim", "realm"}, Life, answers, met>>
  <2>1. CASE /\ Outcome(c) = "open" /\ Outcome(c)' = "won" /\ Life # "taken" /\ Life' = "taken"
             /\ met[c] \cap {"free", "expiring"} # {}
    <3>1. Contract!Win(c)
      BY <1>1, <1>2, <1>3, <1>6, <2>1, AnsweredIs DEF Contract!Win, Effect
    <3>. QED BY <1>1, <3>1 DEF Contract!Next
  <2>2. CASE Outcome(c) = "open" /\ Outcome(c)' = "lost" /\ met[c] # {"free"} /\ Life' = Life
    <3>1. Contract!Lose(c)
      BY <1>1, <1>2, <1>3, <1>6, <2>2, AnsweredIs DEF Contract!Lose, Effect
    <3>. QED BY <1>1, <3>1 DEF Contract!Next
  <2>3. CASE Outcome(c) = "open" /\ Outcome(c)' = "threw" /\ Life' = Life
    <3>1. Contract!Fail(c)
      BY <1>1, <1>2, <1>3, <1>6, <2>3, AnsweredIs DEF Contract!Fail, Effect
    <3>. QED BY <1>1, <3>1 DEF Contract!Next
  <2>4. CASE Outcome(c) = "none" /\ Outcome(c)' = "open" /\ Life' = Life
    <3>1. Contract!Begin(c)
      BY <1>1, <1>2, <1>3, <1>6, <2>4, AnsweredIs DEF Contract!Begin, Effect
    <3>. QED BY <1>1, <3>1 DEF Contract!Next
  <2>5. CASE Outcome(c)' = Outcome(c) /\ Changes
    BY <1>4, <1>5, <1>6, <2>5 DEF Effect, OthersOutcome
  <2>. QED BY <1>6, <2>1, <2>2, <2>3, <2>4, <2>5 DEF Effect
<1>7. CASE Once
  <2>1. Before
    BY <1>7 DEF IInv, Before
  <2>2. CASE Tick
    BY <1>4, <1>5, <2>1, <2>2, TickEffect
  <2>3. ASSUME Same, NEW c \in Calls, CallStep(c) \/ Begins(c) \/ Dies(c)
        PROVE  Effect(c)
    BY <2>1, <2>3, BeginsEffect, StepEffect
  <2>. QED BY <1>6, <2>1, <2>2, <2>3, Steps
<1>8. CASE ~Once
  <2>1. Life' = Life /\ \A d \in Calls : Outcome(d)' = Outcome(d)
    BY <1>1, <1>8 DEF Life, Outcome
  <2>. QED BY <1>4, <2>1
<1>. QED BY <1>7, <1>8

LEMMA ContractStutters ==
  ASSUME UNCHANGED all
  PROVE  UNCHANGED <<scenario \in {"claim", "realm"}, Life, [c \in Calls |-> Outcome(c)], met>>
BY DEF all, vars, Life, KvLife, SqlLife, Once, Outcome, Kv!Held, Kv!Artifact, Drizzle!Live

-----------------------------------------------------------------------------
(* Theorems. *)

\* The invariant: what is stored of an artifact, a claim or a realm, what a call under way has
\* read of it and when, and what it has met (kv.ts:97-110, 190-194; drizzle, kysely and
\* typeorm/index.ts, consume and claim).  A key-value store's consume is taken to insert before
\* the artifact it read expires; the tables' need no such thing.
THEOREM Invariance ==
  ASSUME ~Slow \/ "kv" \notin Backends
  PROVE  Spec => []IInv
<1>1. Init => IInv
  BY First
<1>2. IInv /\ [Next]_all => IInv'
  BY IInvNext
<1>. QED BY <1>1, <1>2, PTL DEF Spec

\* Every adapter implements the contract: of the calls that consume one artifact, claim one key
\* or create one realm, over whichever backend and however their statements interleave, tick and
\* crash, at most one is told it has it until it is given up, it was there to be had while that
\* call was open and nobody had it when it won; and a call is refused only if, at some moment
\* while it was open, there was nothing to be had (adapter.ts:59-64, 97-100, 115-116).
THEOREM AdaptersImplementSingleUse ==
  ASSUME ~Slow \/ "kv" \notin Backends
  PROVE  Spec => OneWins
<1>1. Init => Contract!Init
  BY First
<1>2. IInv /\ [Next]_all =>
        [Contract!Next]_<<scenario \in {"claim", "realm"}, Life, [c \in Calls |-> Outcome(c)], met>>
  BY ContractStep, ContractStutters
<1>. QED BY <1>1, <1>2, Invariance, PTL DEF Spec, OneWins, Contract!Spec

-----------------------------------------------------------------------------
(* What the adapters keep: of every table, not of those alone that something *)
(* is had of once.  A call, and what it crossed.                             *)

\* A call has its fields, and a call that was made its operation and what it is about.
Fields == {"pc", "op", "at", "seen", "account", "username", "tries", "answer"}
Formed == DOMAIN call = Calls /\ \A c \in Calls : DOMAIN call[c] = Fields
Shaped ==
  /\ DOMAIN store = Keys /\ Formed /\ now \in 0..MaxTime
  /\ scenario \in {"artifact", "session", "claim", "credential", "realm", "client", "identity", "grant"}
  /\ \A c \in Calls : IF call[c].pc = "idle" THEN call[c].op = None /\ call[c].tries = 0
                      ELSE /\ call[c].op \in Operations[scenario] /\ call[c].account \in Accounts
                           /\ call[c].op # "save" => call[c].username \in Usernames

\* A call with which none has overlapped is under way alone.
Apart ==
  /\ alone \subseteq Calls
  /\ \A c \in alone : call[c].pc # "idle" /\ \A d \in Calls : InFlight(c) /\ InFlight(d) => c = d

\* The call c is at a place, with what it has seen and was told; the others do not move.
Still(c) == \A d \in Calls : d # c => call'[d] = call[d]
Is(c, pc, seen, answer) ==
  /\ call'[c].pc = pc /\ call'[c].seen = seen /\ call'[c].answer = answer
  /\ call'[c].op = call[c].op /\ call'[c].account = call[c].account /\ call'[c].username = call[c].username
  /\ Still(c) /\ Formed'
Retries(c) == call' = [call EXCEPT ![c].pc = "sent", ![c].tries = @ + 1, ![c].seen = None]
Goes(c, pc) == call' = [call EXCEPT ![c].pc = pc]
Made(c, op, a, u) ==
  call' = [call EXCEPT ![c].pc = "sent", ![c].op = op, ![c].at = now, ![c].account = a, ![c].username = u]
Renames(c, pc, u) == call' = [call EXCEPT ![c].pc = pc, ![c].username = u]

\* What each of the ways to change a call leaves.
LEMMA Fielded ==
  ASSUME Formed, NEW c \in Calls
  PROVE  /\ \A v : Told(c, v) => Is(c, "done", None, v) /\ call'[c].tries = 0 /\ call'[c].at = 0
         /\ \A p, s : GoesOn(c, p, s) => Is(c, p, s, call[c].answer) /\ call'[c].tries = call[c].tries /\ call'[c].at = now
         /\ \A p : Fails(c, p) => Is(c, p, None, None) /\ call'[c].tries = 0 /\ call'[c].at = 0
         /\ Retries(c) => Is(c, "sent", None, call[c].answer) /\ call'[c].tries = call[c].tries + 1
         /\ \A p : Goes(c, p) =>
              Is(c, p, call[c].seen, call[c].answer) /\ call'[c].tries = call[c].tries /\ call'[c].at = call[c].at
         /\ \A p, u : Renames(c, p, u) =>
              /\ Formed' /\ Still(c) /\ call'[c].pc = p /\ call'[c].username = u /\ call'[c].op = call[c].op
              /\ call'[c].seen = call[c].seen /\ call'[c].account = call[c].account /\ call'[c].answer = call[c].answer
         /\ \A o, a, u : Made(c, o, a, u) =>
              /\ Formed' /\ Still(c) /\ call'[c].pc = "sent" /\ call'[c].op = o /\ call'[c].account = a
              /\ call'[c].username = u /\ call'[c].at = now /\ call'[c].seen = call[c].seen
              /\ call'[c].answer = call[c].answer /\ call'[c].tries = call[c].tries
<1>1. ASSUME NEW v, Told(c, v)
      PROVE  Is(c, "done", None, v) /\ call'[c].tries = 0 /\ call'[c].at = 0
  BY <1>1 DEF Told, Formed, Fields, Is, Still
<1>2. ASSUME NEW p, NEW s, GoesOn(c, p, s)
      PROVE  Is(c, p, s, call[c].answer) /\ call'[c].tries = call[c].tries /\ call'[c].at = now
  BY <1>2 DEF GoesOn, Formed, Fields, Is, Still
<1>3. ASSUME NEW p, Fails(c, p)
      PROVE  Is(c, p, None, None) /\ call'[c].tries = 0 /\ call'[c].at = 0
  BY <1>3 DEF Fails, Formed, Fields, Is, Still
<1>4. ASSUME Retries(c)
      PROVE  Is(c, "sent", None, call[c].answer) /\ call'[c].tries = call[c].tries + 1
  BY <1>4 DEF Retries, Formed, Fields, Is, Still
<1>5. ASSUME NEW p, Goes(c, p)
      PROVE  Is(c, p, call[c].seen, call[c].answer) /\ call'[c].tries = call[c].tries /\ call'[c].at = call[c].at
  BY <1>5 DEF Goes, Formed, Fields, Is, Still
<1>6. ASSUME NEW p, NEW u, Renames(c, p, u)
      PROVE  /\ Formed' /\ Still(c) /\ call'[c].pc = p /\ call'[c].username = u /\ call'[c].op = call[c].op
             /\ call'[c].seen = call[c].seen /\ call'[c].account = call[c].account /\ call'[c].answer = call[c].answer
  BY <1>6 DEF Renames, Formed, Fields, Is, Still
<1>7. ASSUME NEW o, NEW a, NEW u, Made(c, o, a, u)
      PROVE  /\ Formed' /\ Still(c) /\ call'[c].pc = "sent" /\ call'[c].op = o /\ call'[c].account = a
             /\ call'[c].username = u /\ call'[c].at = now /\ call'[c].seen = call[c].seen
             /\ call'[c].answer = call[c].answer /\ call'[c].tries = call[c].tries
  BY <1>7 DEF Made, Formed, Fields, Is, Still
<1>. QED BY <1>1, <1>2, <1>3, <1>4, <1>5, <1>6, <1>7

-----------------------------------------------------------------------------
(* The steps of the tables' adapters and of the key-value store's, in plain *)
(* terms, table by table.                                                    *)

\* What the three tables' adapters do: they differ in how they claim and create.
SqlAct(c) ==
  \/ Drizzle!Consume(c) \/ Drizzle!FindArtifact(c) \/ Drizzle!UpsertArtifact(c)
  \/ Drizzle!DestroyArtifact(c) \/ Drizzle!RevokeByGrantId(c) \/ Drizzle!Prune(c) \/ Drizzle!Sweep(c)
  \/ Drizzle!ReadClients(c) \/ Drizzle!SwapClients(c) \/ Drizzle!FindSession(c) \/ Drizzle!UpsertSession(c)
  \/ Drizzle!EndSession(c) \/ Drizzle!FindCredential(c) \/ Drizzle!UpsertCredential(c)
  \/ Drizzle!DestroyCredential(c) \/ Drizzle!DestroyRealm(c) \/ Drizzle!FindGrant(c)
  \/ Drizzle!UpsertGrant(c) \/ Drizzle!DestroyGrant(c) \/ Drizzle!FindClient(c) \/ Drizzle!UpsertClient(c)
  \/ Drizzle!DestroyClient(c) \/ Drizzle!FindIdentity(c) \/ Drizzle!UpsertIdentity(c)
  \/ Drizzle!DestroyIdentity(c) \/ Drizzle!CreateCredential(c) \/ Drizzle!CreateRealm(c) \/ Drizzle!Claim(c)
  \/ Typeorm!ClearLapsed(c) \/ Typeorm!Claim(c) \/ Typeorm!ClaimCollided(c) \/ Typeorm!CreateCredential(c)
  \/ Typeorm!CreateRealm(c)

LEMMA SqlActs ==
  ASSUME Sql, Step
  PROVE  \E c \in Calls : SqlAct(c)
<1>1. CASE backend = "drizzle"
  BY <1>1 DEF Step, SqlAct, Drizzle!Next
<1>2. CASE backend = "kysely"
  <2>1. PICK c \in Calls :
          \/ Kysely!Consume(c) \/ Kysely!FindArtifact(c) \/ Kysely!UpsertArtifact(c)
          \/ Kysely!DestroyArtifact(c) \/ Kysely!RevokeByGrantId(c) \/ Kysely!Prune(c) \/ Kysely!Sweep(c)
          \/ Kysely!ReadClients(c) \/ Kysely!SwapClients(c) \/ Kysely!FindSession(c)
          \/ Kysely!UpsertSession(c) \/ Kysely!EndSession(c) \/ Kysely!FindCredential(c)
          \/ Kysely!UpsertCredential(c) \/ Kysely!DestroyCredential(c) \/ Kysely!DestroyRealm(c)
          \/ Kysely!FindGrant(c) \/ Kysely!UpsertGrant(c) \/ Kysely!DestroyGrant(c) \/ Kysely!FindClient(c)
          \/ Kysely!UpsertClient(c) \/ Kysely!DestroyClient(c) \/ Kysely!FindIdentity(c)
          \/ Kysely!UpsertIdentity(c) \/ Kysely!DestroyIdentity(c) \/ Kysely!CreateCredential(c)
          \/ Kysely!CreateRealm(c) \/ Kysely!Claim(c)
    BY <1>2 DEF Step, Kysely!Next
  <2>2. CASE Kysely!Consume(c)
    <3>. Drizzle!Consume(c)
      BY <2>2 DEF Kysely!Consume, Drizzle!Consume, Kysely!In, Drizzle!In, Kysely!Put, Drizzle!Put,
               Kysely!Keep, Drizzle!Keep, Kysely!End, Drizzle!End, Kysely!Answer, Drizzle!Answer,
               Kysely!Artifact, Drizzle!Artifact, Kysely!Live, Drizzle!Live
    <3>. QED BY DEF SqlAct
  <2>3. CASE Kysely!FindArtifact(c)
    <3>. Drizzle!FindArtifact(c)
      BY <2>3 DEF Kysely!FindArtifact, Drizzle!FindArtifact, Kysely!In, Drizzle!In, Kysely!Keep,
               Drizzle!Keep, Kysely!To, Drizzle!To, Kysely!End, Drizzle!End, Kysely!Answer,
               Drizzle!Answer, Kysely!Artifact, Drizzle!Artifact, Kysely!Live, Drizzle!Live
    <3>. QED BY DEF SqlAct
  <2>4. CASE Kysely!UpsertArtifact(c)
    <3>. Drizzle!UpsertArtifact(c)
      BY <2>4 DEF Kysely!UpsertArtifact, Drizzle!UpsertArtifact, Kysely!In, Drizzle!In, Kysely!Put,
               Drizzle!Put, Kysely!End, Drizzle!End, Kysely!Answer, Drizzle!Answer, Kysely!Artifact,
               Drizzle!Artifact
    <3>. QED BY DEF SqlAct
  <2>5. CASE Kysely!DestroyArtifact(c)
    <3>. Drizzle!DestroyArtifact(c)
      BY <2>5 DEF Kysely!DestroyArtifact, Drizzle!DestroyArtifact, Kysely!In, Drizzle!In, Kysely!Put,
               Drizzle!Put, Kysely!Delete, Drizzle!Delete, Kysely!End, Drizzle!End, Kysely!Answer,
               Drizzle!Answer
    <3>. QED BY DEF SqlAct
  <2>6. CASE Kysely!RevokeByGrantId(c)
    <3>. Drizzle!RevokeByGrantId(c)
      BY <2>6 DEF Kysely!RevokeByGrantId, Drizzle!RevokeByGrantId, Kysely!In, Drizzle!In, Kysely!Put,
               Drizzle!Put, Kysely!Delete, Drizzle!Delete, Kysely!End, Drizzle!End, Kysely!Answer,
               Drizzle!Answer
    <3>. QED BY DEF SqlAct
  <2>7. CASE Kysely!Prune(c)
    <3>. Drizzle!Prune(c)
      BY <2>7 DEF Kysely!Prune, Drizzle!Prune, Kysely!In, Drizzle!In, Kysely!Keep, Drizzle!Keep, Kysely!To,
               Drizzle!To, Kysely!End, Drizzle!End, Kysely!Answer, Drizzle!Answer, Kysely!Artifact,
               Drizzle!Artifact
    <3>. QED BY DEF SqlAct
  <2>8. CASE Kysely!Sweep(c)
    <3>. Drizzle!Sweep(c)
      BY <2>8 DEF Kysely!Sweep, Drizzle!Sweep, Kysely!In, Drizzle!In, Kysely!Put, Drizzle!Put,
               Kysely!Delete, Drizzle!Delete, Kysely!End, Drizzle!End, Kysely!Answer, Drizzle!Answer
    <3>. QED BY DEF SqlAct
  <2>9. CASE Kysely!ReadClients(c)
    <3>. Drizzle!ReadClients(c)
      BY <2>9 DEF Kysely!ReadClients, Drizzle!ReadClients, Kysely!In, Drizzle!In, Kysely!Keep,
               Drizzle!Keep, Kysely!To, Drizzle!To, Kysely!End, Drizzle!End, Kysely!Answer,
               Drizzle!Answer, Kysely!Session, Drizzle!Session
    <3>. QED BY DEF SqlAct
  <2>10. CASE Kysely!SwapClients(c)
    <3>. Drizzle!SwapClients(c)
      BY <2>10 DEF Kysely!SwapClients, Drizzle!SwapClients, Kysely!In, Drizzle!In, Kysely!Put, Drizzle!Put,
               Kysely!Keep, Drizzle!Keep, Kysely!End, Drizzle!End, Kysely!Answer, Drizzle!Answer,
               Kysely!Throw, Drizzle!Throw, Kysely!Session, Drizzle!Session
    <3>. QED BY DEF SqlAct
  <2>11. CASE Kysely!FindSession(c)
    <3>. Drizzle!FindSession(c)
      BY <2>11 DEF Kysely!FindSession, Drizzle!FindSession, Kysely!In, Drizzle!In, Kysely!Keep,
               Drizzle!Keep, Kysely!To, Drizzle!To, Kysely!End, Drizzle!End, Kysely!Answer,
               Drizzle!Answer, Kysely!Session, Drizzle!Session
    <3>. QED BY DEF SqlAct
  <2>12. CASE Kysely!UpsertSession(c)
    <3>. Drizzle!UpsertSession(c)
      BY <2>12 DEF Kysely!UpsertSession, Drizzle!UpsertSession, Kysely!In, Drizzle!In, Kysely!Put,
               Drizzle!Put, Kysely!End, Drizzle!End, Kysely!Answer, Drizzle!Answer
    <3>. QED BY DEF SqlAct
  <2>13. CASE Kysely!EndSession(c)
    <3>. Drizzle!EndSession(c)
      BY <2>13 DEF Kysely!EndSession, Drizzle!EndSession, Kysely!In, Drizzle!In, Kysely!Put, Drizzle!Put,
               Kysely!Delete, Drizzle!Delete, Kysely!End, Drizzle!End, Kysely!Answer, Drizzle!Answer
    <3>. QED BY DEF SqlAct
  <2>14. CASE Kysely!FindCredential(c)
    <3>. Drizzle!FindCredential(c)
      BY <2>14 DEF Kysely!FindCredential, Drizzle!FindCredential, Kysely!In, Drizzle!In, Kysely!Keep,
               Drizzle!Keep, Kysely!To, Drizzle!To, Kysely!End, Drizzle!End, Kysely!Answer,
               Drizzle!Answer
    <3>. QED BY DEF SqlAct
  <2>15. CASE Kysely!UpsertCredential(c)
    <3>. Drizzle!UpsertCredential(c)
      BY <2>15 DEF Kysely!UpsertCredential, Drizzle!UpsertCredential, Kysely!In, Drizzle!In, Kysely!Put,
               Drizzle!Put, Kysely!Keep, Drizzle!Keep, Kysely!End, Drizzle!End, Kysely!Answer,
               Drizzle!Answer, Kysely!Throw, Drizzle!Throw, Kysely!Stored, Drizzle!Stored, Kysely!Keys,
               Drizzle!Keys
    <3>. QED BY DEF SqlAct
  <2>16. CASE Kysely!DestroyCredential(c)
    <3>. Drizzle!DestroyCredential(c)
      BY <2>16 DEF Kysely!DestroyCredential, Drizzle!DestroyCredential, Kysely!In, Drizzle!In, Kysely!Put,
               Drizzle!Put, Kysely!Delete, Drizzle!Delete, Kysely!End, Drizzle!End, Kysely!Answer,
               Drizzle!Answer
    <3>. QED BY DEF SqlAct
  <2>17. CASE Kysely!DestroyRealm(c)
    <3>. Drizzle!DestroyRealm(c)
      BY <2>17 DEF Kysely!DestroyRealm, Drizzle!DestroyRealm, Kysely!In, Drizzle!In, Kysely!Put,
               Drizzle!Put, Kysely!Delete, Drizzle!Delete, Kysely!End, Drizzle!End, Kysely!Answer,
               Drizzle!Answer
    <3>. QED BY DEF SqlAct
  <2>18. CASE Kysely!FindGrant(c)
    <3>. Drizzle!FindGrant(c)
      BY <2>18 DEF Kysely!FindGrant, Drizzle!FindGrant, Kysely!In, Drizzle!In, Kysely!Keep, Drizzle!Keep,
               Kysely!To, Drizzle!To, Kysely!Stored, Drizzle!Stored, Kysely!Keys, Drizzle!Keys
    <3>. QED BY DEF SqlAct
  <2>19. CASE Kysely!UpsertGrant(c)
    <3>. Drizzle!UpsertGrant(c)
      BY <2>19 DEF Kysely!UpsertGrant, Drizzle!UpsertGrant, Kysely!In, Drizzle!In, Kysely!Put, Drizzle!Put,
               Kysely!Keep, Drizzle!Keep, Kysely!End, Drizzle!End, Kysely!Answer, Drizzle!Answer,
               Kysely!Throw, Drizzle!Throw, Kysely!Stored, Drizzle!Stored, Kysely!Keys, Drizzle!Keys
    <3>. QED BY DEF SqlAct
  <2>20. CASE Kysely!DestroyGrant(c)
    <3>. Drizzle!DestroyGrant(c)
      BY <2>20 DEF Kysely!DestroyGrant, Drizzle!DestroyGrant, Kysely!In, Drizzle!In, Kysely!Put,
               Drizzle!Put, Kysely!Delete, Drizzle!Delete, Kysely!Keep, Drizzle!Keep, Kysely!To,
               Drizzle!To, Kysely!End, Drizzle!End, Kysely!Answer, Drizzle!Answer, Kysely!Stored,
               Drizzle!Stored, Kysely!Keys, Drizzle!Keys
    <3>. QED BY DEF SqlAct
  <2>21. CASE Kysely!FindClient(c)
    <3>. Drizzle!FindClient(c)
      BY <2>21 DEF Kysely!FindClient, Drizzle!FindClient, Kysely!Looked, Drizzle!Looked, Kysely!Keep,
               Drizzle!Keep, Kysely!To, Drizzle!To, Kysely!End, Drizzle!End, Kysely!Answer,
               Drizzle!Answer, Kysely!Throw, Drizzle!Throw
    <3>. QED BY DEF SqlAct
  <2>22. CASE Kysely!UpsertClient(c)
    <3>. Drizzle!UpsertClient(c)
      BY <2>22 DEF Kysely!UpsertClient, Drizzle!UpsertClient, Kysely!Put, Drizzle!Put, Kysely!End,
               Drizzle!End, Kysely!Answer, Drizzle!Answer
    <3>. QED BY DEF SqlAct
  <2>23. CASE Kysely!DestroyClient(c)
    <3>. Drizzle!DestroyClient(c)
      BY <2>23 DEF Kysely!DestroyClient, Drizzle!DestroyClient, Kysely!In, Drizzle!In, Kysely!Put,
               Drizzle!Put, Kysely!Delete, Drizzle!Delete, Kysely!End, Drizzle!End, Kysely!Answer,
               Drizzle!Answer
    <3>. QED BY DEF SqlAct
  <2>24. CASE Kysely!FindIdentity(c)
    <3>. Drizzle!FindIdentity(c)
      BY <2>24 DEF Kysely!FindIdentity, Drizzle!FindIdentity, Kysely!Looked, Drizzle!Looked, Kysely!Keep,
               Drizzle!Keep, Kysely!To, Drizzle!To, Kysely!End, Drizzle!End, Kysely!Answer,
               Drizzle!Answer, Kysely!Throw, Drizzle!Throw
    <3>. QED BY DEF SqlAct
  <2>25. CASE Kysely!UpsertIdentity(c)
    <3>. Drizzle!UpsertIdentity(c)
      BY <2>25 DEF Kysely!UpsertIdentity, Drizzle!UpsertIdentity, Kysely!In, Drizzle!In, Kysely!Put,
               Drizzle!Put, Kysely!End, Drizzle!End, Kysely!Answer, Drizzle!Answer
    <3>. QED BY DEF SqlAct
  <2>26. CASE Kysely!DestroyIdentity(c)
    <3>. Drizzle!DestroyIdentity(c)
      BY <2>26 DEF Kysely!DestroyIdentity, Drizzle!DestroyIdentity, Kysely!In, Drizzle!In, Kysely!Put,
               Drizzle!Put, Kysely!Delete, Drizzle!Delete, Kysely!End, Drizzle!End, Kysely!Answer,
               Drizzle!Answer
    <3>. QED BY DEF SqlAct
  <2>27. CASE Kysely!CreateCredential(c)
    <3>. Drizzle!CreateCredential(c)
      BY <2>27 DEF Kysely!CreateCredential, Drizzle!CreateCredential, Kysely!In, Drizzle!In, Kysely!Put,
               Drizzle!Put, Kysely!Keep, Drizzle!Keep, Kysely!End, Drizzle!End, Kysely!Answer,
               Drizzle!Answer, Kysely!Collides, Drizzle!Collides, Kysely!Stored, Drizzle!Stored,
               Kysely!Keys, Drizzle!Keys
    <3>. QED BY DEF SqlAct
  <2>28. CASE Kysely!CreateRealm(c)
    <3>. Drizzle!CreateRealm(c)
      BY <2>28 DEF Kysely!CreateRealm, Drizzle!CreateRealm, Kysely!In, Drizzle!In, Kysely!Put, Drizzle!Put,
               Kysely!Keep, Drizzle!Keep, Kysely!End, Drizzle!End, Kysely!Answer, Drizzle!Answer
    <3>. QED BY DEF SqlAct
  <2>29. CASE Kysely!Claim(c)
    <3>. Drizzle!Claim(c)
      BY <2>29 DEF Kysely!Claim, Drizzle!Claim, Kysely!In, Drizzle!In, Kysely!Put, Drizzle!Put, Kysely!Keep,
               Drizzle!Keep, Kysely!End, Drizzle!End, Kysely!Answer, Drizzle!Answer, Kysely!Live,
               Drizzle!Live
    <3>. QED BY DEF SqlAct
  <2>. QED BY <2>1, <2>2, <2>3, <2>4, <2>5, <2>6, <2>7, <2>8, <2>9, <2>10, <2>11, <2>12, <2>13, <2>14, <2>15,
         <2>16, <2>17, <2>18, <2>19, <2>20, <2>21, <2>22, <2>23, <2>24, <2>25, <2>26, <2>27, <2>28,
         <2>29
<1>3. CASE backend = "typeorm"
  <2>1. PICK c \in Calls :
          \/ Typeorm!Consume(c) \/ Typeorm!FindArtifact(c) \/ Typeorm!UpsertArtifact(c)
          \/ Typeorm!DestroyArtifact(c) \/ Typeorm!RevokeByGrantId(c) \/ Typeorm!Prune(c)
          \/ Typeorm!Sweep(c) \/ Typeorm!ReadClients(c) \/ Typeorm!SwapClients(c) \/ Typeorm!FindSession(c)
          \/ Typeorm!UpsertSession(c) \/ Typeorm!EndSession(c) \/ Typeorm!FindCredential(c)
          \/ Typeorm!UpsertCredential(c) \/ Typeorm!DestroyCredential(c) \/ Typeorm!DestroyRealm(c)
          \/ Typeorm!FindGrant(c) \/ Typeorm!UpsertGrant(c) \/ Typeorm!DestroyGrant(c)
          \/ Typeorm!FindClient(c) \/ Typeorm!UpsertClient(c) \/ Typeorm!DestroyClient(c)
          \/ Typeorm!FindIdentity(c) \/ Typeorm!UpsertIdentity(c) \/ Typeorm!DestroyIdentity(c)
          \/ Typeorm!ClearLapsed(c) \/ Typeorm!Claim(c) \/ Typeorm!ClaimCollided(c)
          \/ Typeorm!CreateCredential(c) \/ Typeorm!CreateRealm(c)
    BY <1>3 DEF Step, Typeorm!Next
  <2>2. CASE Typeorm!Consume(c)
    <3>. Drizzle!Consume(c)
      BY <2>2 DEF Typeorm!Consume, Drizzle!Consume, Typeorm!In, Drizzle!In, Typeorm!Put, Drizzle!Put,
               Typeorm!Keep, Drizzle!Keep, Typeorm!End, Drizzle!End, Typeorm!Answer, Drizzle!Answer,
               Typeorm!Artifact, Drizzle!Artifact, Typeorm!Live, Drizzle!Live
    <3>. QED BY DEF SqlAct
  <2>3. CASE Typeorm!FindArtifact(c)
    <3>. Drizzle!FindArtifact(c)
      BY <2>3 DEF Typeorm!FindArtifact, Drizzle!FindArtifact, Typeorm!In, Drizzle!In, Typeorm!Keep,
               Drizzle!Keep, Typeorm!To, Drizzle!To, Typeorm!End, Drizzle!End, Typeorm!Answer,
               Drizzle!Answer, Typeorm!Artifact, Drizzle!Artifact, Typeorm!Live, Drizzle!Live
    <3>. QED BY DEF SqlAct
  <2>4. CASE Typeorm!UpsertArtifact(c)
    <3>. Drizzle!UpsertArtifact(c)
      BY <2>4 DEF Typeorm!UpsertArtifact, Drizzle!UpsertArtifact, Typeorm!In, Drizzle!In, Typeorm!Put,
               Drizzle!Put, Typeorm!End, Drizzle!End, Typeorm!Answer, Drizzle!Answer, Typeorm!Artifact,
               Drizzle!Artifact
    <3>. QED BY DEF SqlAct
  <2>5. CASE Typeorm!DestroyArtifact(c)
    <3>. Drizzle!DestroyArtifact(c)
      BY <2>5 DEF Typeorm!DestroyArtifact, Drizzle!DestroyArtifact, Typeorm!In, Drizzle!In, Typeorm!Put,
               Drizzle!Put, Typeorm!Delete, Drizzle!Delete, Typeorm!End, Drizzle!End, Typeorm!Answer,
               Drizzle!Answer
    <3>. QED BY DEF SqlAct
  <2>6. CASE Typeorm!RevokeByGrantId(c)
    <3>. Drizzle!RevokeByGrantId(c)
      BY <2>6 DEF Typeorm!RevokeByGrantId, Drizzle!RevokeByGrantId, Typeorm!In, Drizzle!In, Typeorm!Put,
               Drizzle!Put, Typeorm!Delete, Drizzle!Delete, Typeorm!End, Drizzle!End, Typeorm!Answer,
               Drizzle!Answer
    <3>. QED BY DEF SqlAct
  <2>7. CASE Typeorm!Prune(c)
    <3>. Drizzle!Prune(c)
      BY <2>7 DEF Typeorm!Prune, Drizzle!Prune, Typeorm!In, Drizzle!In, Typeorm!Keep, Drizzle!Keep,
               Typeorm!To, Drizzle!To, Typeorm!End, Drizzle!End, Typeorm!Answer, Drizzle!Answer,
               Typeorm!Artifact, Drizzle!Artifact
    <3>. QED BY DEF SqlAct
  <2>8. CASE Typeorm!Sweep(c)
    <3>. Drizzle!Sweep(c)
      BY <2>8 DEF Typeorm!Sweep, Drizzle!Sweep, Typeorm!In, Drizzle!In, Typeorm!Put, Drizzle!Put,
               Typeorm!Delete, Drizzle!Delete, Typeorm!End, Drizzle!End, Typeorm!Answer, Drizzle!Answer
    <3>. QED BY DEF SqlAct
  <2>9. CASE Typeorm!ReadClients(c)
    <3>. Drizzle!ReadClients(c)
      BY <2>9 DEF Typeorm!ReadClients, Drizzle!ReadClients, Typeorm!In, Drizzle!In, Typeorm!Keep,
               Drizzle!Keep, Typeorm!To, Drizzle!To, Typeorm!End, Drizzle!End, Typeorm!Answer,
               Drizzle!Answer, Typeorm!Session, Drizzle!Session
    <3>. QED BY DEF SqlAct
  <2>10. CASE Typeorm!SwapClients(c)
    <3>. Drizzle!SwapClients(c)
      BY <2>10 DEF Typeorm!SwapClients, Drizzle!SwapClients, Typeorm!In, Drizzle!In, Typeorm!Put,
               Drizzle!Put, Typeorm!Keep, Drizzle!Keep, Typeorm!End, Drizzle!End, Typeorm!Answer,
               Drizzle!Answer, Typeorm!Throw, Drizzle!Throw, Typeorm!Session, Drizzle!Session
    <3>. QED BY DEF SqlAct
  <2>11. CASE Typeorm!FindSession(c)
    <3>. Drizzle!FindSession(c)
      BY <2>11 DEF Typeorm!FindSession, Drizzle!FindSession, Typeorm!In, Drizzle!In, Typeorm!Keep,
               Drizzle!Keep, Typeorm!To, Drizzle!To, Typeorm!End, Drizzle!End, Typeorm!Answer,
               Drizzle!Answer, Typeorm!Session, Drizzle!Session
    <3>. QED BY DEF SqlAct
  <2>12. CASE Typeorm!UpsertSession(c)
    <3>. Drizzle!UpsertSession(c)
      BY <2>12 DEF Typeorm!UpsertSession, Drizzle!UpsertSession, Typeorm!In, Drizzle!In, Typeorm!Put,
               Drizzle!Put, Typeorm!End, Drizzle!End, Typeorm!Answer, Drizzle!Answer
    <3>. QED BY DEF SqlAct
  <2>13. CASE Typeorm!EndSession(c)
    <3>. Drizzle!EndSession(c)
      BY <2>13 DEF Typeorm!EndSession, Drizzle!EndSession, Typeorm!In, Drizzle!In, Typeorm!Put, Drizzle!Put,
               Typeorm!Delete, Drizzle!Delete, Typeorm!End, Drizzle!End, Typeorm!Answer, Drizzle!Answer
    <3>. QED BY DEF SqlAct
  <2>14. CASE Typeorm!FindCredential(c)
    <3>. Drizzle!FindCredential(c)
      BY <2>14 DEF Typeorm!FindCredential, Drizzle!FindCredential, Typeorm!In, Drizzle!In, Typeorm!Keep,
               Drizzle!Keep, Typeorm!To, Drizzle!To, Typeorm!End, Drizzle!End, Typeorm!Answer,
               Drizzle!Answer
    <3>. QED BY DEF SqlAct
  <2>15. CASE Typeorm!UpsertCredential(c)
    <3>. Drizzle!UpsertCredential(c)
      BY <2>15 DEF Typeorm!UpsertCredential, Drizzle!UpsertCredential, Typeorm!In, Drizzle!In, Typeorm!Put,
               Drizzle!Put, Typeorm!Keep, Drizzle!Keep, Typeorm!End, Drizzle!End, Typeorm!Answer,
               Drizzle!Answer, Typeorm!Throw, Drizzle!Throw, Typeorm!Stored, Drizzle!Stored,
               Typeorm!Keys, Drizzle!Keys
    <3>. QED BY DEF SqlAct
  <2>16. CASE Typeorm!DestroyCredential(c)
    <3>. Drizzle!DestroyCredential(c)
      BY <2>16 DEF Typeorm!DestroyCredential, Drizzle!DestroyCredential, Typeorm!In, Drizzle!In,
               Typeorm!Put, Drizzle!Put, Typeorm!Delete, Drizzle!Delete, Typeorm!End, Drizzle!End,
               Typeorm!Answer, Drizzle!Answer
    <3>. QED BY DEF SqlAct
  <2>17. CASE Typeorm!DestroyRealm(c)
    <3>. Drizzle!DestroyRealm(c)
      BY <2>17 DEF Typeorm!DestroyRealm, Drizzle!DestroyRealm, Typeorm!In, Drizzle!In, Typeorm!Put,
               Drizzle!Put, Typeorm!Delete, Drizzle!Delete, Typeorm!End, Drizzle!End, Typeorm!Answer,
               Drizzle!Answer
    <3>. QED BY DEF SqlAct
  <2>18. CASE Typeorm!FindGrant(c)
    <3>. Drizzle!FindGrant(c)
      BY <2>18 DEF Typeorm!FindGrant, Drizzle!FindGrant, Typeorm!In, Drizzle!In, Typeorm!Keep, Drizzle!Keep,
               Typeorm!To, Drizzle!To, Typeorm!Stored, Drizzle!Stored, Typeorm!Keys, Drizzle!Keys
    <3>. QED BY DEF SqlAct
  <2>19. CASE Typeorm!UpsertGrant(c)
    <3>. Drizzle!UpsertGrant(c)
      BY <2>19 DEF Typeorm!UpsertGrant, Drizzle!UpsertGrant, Typeorm!In, Drizzle!In, Typeorm!Put,
               Drizzle!Put, Typeorm!Keep, Drizzle!Keep, Typeorm!End, Drizzle!End, Typeorm!Answer,
               Drizzle!Answer, Typeorm!Throw, Drizzle!Throw, Typeorm!Stored, Drizzle!Stored,
               Typeorm!Keys, Drizzle!Keys
    <3>. QED BY DEF SqlAct
  <2>20. CASE Typeorm!DestroyGrant(c)
    <3>. Drizzle!DestroyGrant(c)
      BY <2>20 DEF Typeorm!DestroyGrant, Drizzle!DestroyGrant, Typeorm!In, Drizzle!In, Typeorm!Put,
               Drizzle!Put, Typeorm!Delete, Drizzle!Delete, Typeorm!Keep, Drizzle!Keep, Typeorm!To,
               Drizzle!To, Typeorm!End, Drizzle!End, Typeorm!Answer, Drizzle!Answer, Typeorm!Stored,
               Drizzle!Stored, Typeorm!Keys, Drizzle!Keys
    <3>. QED BY DEF SqlAct
  <2>21. CASE Typeorm!FindClient(c)
    <3>. Drizzle!FindClient(c)
      BY <2>21 DEF Typeorm!FindClient, Drizzle!FindClient, Typeorm!Looked, Drizzle!Looked, Typeorm!Keep,
               Drizzle!Keep, Typeorm!To, Drizzle!To, Typeorm!End, Drizzle!End, Typeorm!Answer,
               Drizzle!Answer, Typeorm!Throw, Drizzle!Throw
    <3>. QED BY DEF SqlAct
  <2>22. CASE Typeorm!UpsertClient(c)
    <3>. Drizzle!UpsertClient(c)
      BY <2>22 DEF Typeorm!UpsertClient, Drizzle!UpsertClient, Typeorm!Put, Drizzle!Put, Typeorm!End,
               Drizzle!End, Typeorm!Answer, Drizzle!Answer
    <3>. QED BY DEF SqlAct
  <2>23. CASE Typeorm!DestroyClient(c)
    <3>. Drizzle!DestroyClient(c)
      BY <2>23 DEF Typeorm!DestroyClient, Drizzle!DestroyClient, Typeorm!In, Drizzle!In, Typeorm!Put,
               Drizzle!Put, Typeorm!Delete, Drizzle!Delete, Typeorm!End, Drizzle!End, Typeorm!Answer,
               Drizzle!Answer
    <3>. QED BY DEF SqlAct
  <2>24. CASE Typeorm!FindIdentity(c)
    <3>. Drizzle!FindIdentity(c)
      BY <2>24 DEF Typeorm!FindIdentity, Drizzle!FindIdentity, Typeorm!Looked, Drizzle!Looked, Typeorm!Keep,
               Drizzle!Keep, Typeorm!To, Drizzle!To, Typeorm!End, Drizzle!End, Typeorm!Answer,
               Drizzle!Answer, Typeorm!Throw, Drizzle!Throw
    <3>. QED BY DEF SqlAct
  <2>25. CASE Typeorm!UpsertIdentity(c)
    <3>. Drizzle!UpsertIdentity(c)
      BY <2>25 DEF Typeorm!UpsertIdentity, Drizzle!UpsertIdentity, Typeorm!In, Drizzle!In, Typeorm!Put,
               Drizzle!Put, Typeorm!End, Drizzle!End, Typeorm!Answer, Drizzle!Answer
    <3>. QED BY DEF SqlAct
  <2>26. CASE Typeorm!DestroyIdentity(c)
    <3>. Drizzle!DestroyIdentity(c)
      BY <2>26 DEF Typeorm!DestroyIdentity, Drizzle!DestroyIdentity, Typeorm!In, Drizzle!In, Typeorm!Put,
               Drizzle!Put, Typeorm!Delete, Drizzle!Delete, Typeorm!End, Drizzle!End, Typeorm!Answer,
               Drizzle!Answer
    <3>. QED BY DEF SqlAct
  <2>. QED BY <2>1, <2>2, <2>3, <2>4, <2>5, <2>6, <2>7, <2>8, <2>9, <2>10, <2>11, <2>12, <2>13, <2>14, <2>15,
         <2>16, <2>17, <2>18, <2>19, <2>20, <2>21, <2>22, <2>23, <2>24, <2>25, <2>26 DEF SqlAct
<1>. QED BY <1>1, <1>2, <1>3 DEF Sql, Step

\* A table's statements on an artifact.
TablesArtifact(c) ==
  \/ In(c, "consume", "sent") /\ (\E v : Told(c, v)) /\ (Row = None => store' = store) /\ (store' = store \/ \E row : Puts(row))
  \/ In(c, "save", "sent") /\ store' = store /\ (Told(c, None) \/ (Row # None /\ GoesOn(c, "upsert", Row)))
  \/ In(c, "save", "upsert") /\ (\E row : Puts(row)) /\ Told(c, None)
  \/ call[c].op \in {"destroy", "revoke"} /\ call[c].pc = "sent" /\ Puts(None) /\ Told(c, None)
  \/ In(c, "prune", "sent") /\ store' = store /\ (Told(c, None) \/ GoesOn(c, "sweep", None))
  \/ In(c, "prune", "sweep") /\ Puts(None) /\ Told(c, None)

\* On a session.
TablesSession(c) ==
  \/ In(c, "addClient", "sent") /\ store' = store /\ (Row = None \/ (Row # None /\ c \in Row.clients)) /\ Told(c, None)
  \/ In(c, "addClient", "sent") /\ store' = store /\ Row # None /\ GoesOn(c, "swap", Row.clients)
  \/ /\ In(c, "addClient", "swap") /\ Row # None /\ Row.clients = call[c].seen
     /\ Puts([Row EXCEPT !.clients = @ \cup {c}]) /\ Told(c, None)
  \/ /\ In(c, "addClient", "swap") /\ ~(Row # None /\ Row.clients = call[c].seen) /\ store' = store
     /\ IF call[c].tries + 1 = Attempts THEN Fails(c, "threw") ELSE Retries(c)
  \/ In(c, "save", "sent") /\ store' = store /\ Row # None /\ GoesOn(c, "upsert", Row)
  \/ In(c, "save", "sent") /\ store' = store /\ Row = None /\ Told(c, None)
  \/ In(c, "save", "upsert") /\ Puts([call[c].seen EXCEPT !.clients = @ \cup {c}]) /\ Told(c, None)
  \/ In(c, "end", "sent") /\ Puts(None) /\ Told(c, None)

\* On a credential.
Credential(a) == store[<<"credential", a>>]
PutsAt(key, row) == store' = [store EXCEPT ![key] = row]
Taken(a, u) == \E b \in Accounts : Credential(b) # None /\ (b = a \/ Credential(b).username = u)
TablesCredential(c) ==
  LET a == call[c].account u == call[c].username IN
  \/ /\ In(c, "create", "sent") /\ ~Taken(a, u)
     /\ PutsAt(<<"credential", a>>, [username |-> u]) /\ Told(c, TRUE)
  \/ call[c].op = "create" /\ call[c].pc \in {"sent", "collided"} /\ store' = store /\ Told(c, FALSE)
  \/ In(c, "create", "sent") /\ store' = store /\ GoesOn(c, "collided", None)
  \/ In(c, "create", "collided") /\ store' = store /\ Fails(c, "threw")
  \/ In(c, "save", "sent") /\ store' = store /\ Credential(a) # None /\ GoesOn(c, "upsert", Credential(a))
  \/ In(c, "save", "sent") /\ store' = store /\ Told(c, None)
  \/ In(c, "save", "upsert") /\ PutsAt(<<"credential", a>>, call[c].seen) /\ Told(c, None)
  \/ In(c, "save", "upsert") /\ store' = store /\ Fails(c, "threw")
  \/ In(c, "destroy", "sent") /\ PutsAt(<<"credential", a>>, None) /\ Told(c, None)

\* On a grant, which has a key of its own.
Granted == {k \in Keys : k[1] = "grant" /\ store[k] # None}
TablesGrant(c) ==
  \/ In(c, "consent", "sent") /\ store' = store /\ \E k \in Granted \cup {<<"grant", c>>} : GoesOn(c, "upsert", k)
  \/ In(c, "consent", "upsert") /\ Granted \subseteq {call[c].seen} /\ (\E row : PutsAt(call[c].seen, row)) /\ Told(c, None)
  \/ In(c, "consent", "upsert") /\ store' = store /\ Fails(c, "threw")
  \/ In(c, "withdraw", "sent") /\ store' = store /\ (Told(c, None) \/ \E k : GoesOn(c, "destroy", k))
  \/ In(c, "withdraw", "destroy") /\ PutsAt(call[c].seen, None) /\ Told(c, None)

\* On a client or an identity, whichever the store.
RowStep(c) ==
  \/ /\ call[c].op \in {"create", "save", "link"} /\ call[c].pc = "sent" /\ store' = store
     /\ \/ (call[c].op = "save" => Row # None) /\ \E row : GoesOn(c, "upsert", row)
        \/ Told(c, None) \/ Fails(c, "threw")
  \/ call[c].pc = "upsert" /\ (\E row : Puts(row)) /\ Told(c, None)
  \/ call[c].op \in Ends /\ call[c].pc = "sent" /\ Puts(None) /\ Told(c, None)

\* And on a claim or a realm: nothing else changes.
Aside(c) ==
  /\ InFlight(c) /\ (store' = store \/ \E row : Puts(row))
  /\ (\E v : Told(c, v)) \/ GoesOn(c, "insert", None) \/ GoesOn(c, "collided", None) \/ Fails(c, "threw")

\* The operations there are.
LEMMA OperationsAre ==
  /\ Operations["artifact"] = {"consume", "save", "destroy", "revoke", "prune"}
  /\ Operations["session"] = {"addClient", "save", "end"}
  /\ Operations["claim"] = {"claim"}
  /\ Operations["credential"] = {"create", "save", "destroy"}
  /\ Operations["realm"] = {"create", "destroy"}
  /\ Operations["client"] = {"create", "save", "destroy"}
  /\ Operations["identity"] = {"link", "unlink"}
  /\ Operations["grant"] = {"consent", "withdraw"}
BY DEF Operations

\* The credentials are under their accounts: what collides is taken.
LEMMA CredentialKeys ==
  /\ \A k \in Keys : k[1] = "credential" => \E a \in Accounts : k = <<"credential", a>>
  /\ \A a \in Accounts : <<"credential", a>> \in Keys
BY DEF Keys

LEMMA CollidesIs ==
  ASSUME NEW a, NEW u
  PROVE  (Drizzle!Collides(a, u) <=> Taken(a, u)) /\ (Typeorm!Collides(a, u) <=> Taken(a, u))
<1>. DEFINE At(k) == k[1] = "credential" /\ store[k] # None /\ (k[2] = a \/ store[k].username = u)
<1>1. (\E k \in Keys : At(k)) <=> Taken(a, u)
  <2>1. ASSUME NEW k \in Keys, At(k) PROVE Taken(a, u)
    <3>1. PICK b \in Accounts : k = <<"credential", b>>
      BY <2>1, CredentialKeys
    <3>2. k[2] = b
      BY <3>1
    <3>. QED BY <2>1, <3>1, <3>2 DEF Taken, Credential
  <2>2. ASSUME NEW b \in Accounts, Credential(b) # None, b = a \/ Credential(b).username = u
        PROVE  \E k \in Keys : At(k)
    <3>1. <<"credential", b>> \in Keys
      BY CredentialKeys
    <3>2. At(<<"credential", b>>)
      BY <2>2 DEF Credential
    <3>. QED BY <3>1, <3>2
  <2>. QED BY <2>1, <2>2 DEF Taken
<1>2. Drizzle!Collides(a, u) <=> \E k \in Keys : At(k)
  BY DEF Drizzle!Collides, Drizzle!Stored, Drizzle!Keys, Keys
<1>3. Typeorm!Collides(a, u) <=> \E k \in Keys : At(k)
  BY DEF Typeorm!Collides, Typeorm!Stored, Typeorm!Keys, Keys
<1>. QED BY <1>1, <1>2, <1>3

LEMMA TablesSteps ==
  ASSUME Sql, Shaped, NEW c \in Calls, SqlAct(c)
  PROVE  /\ scenario = "artifact" => TablesArtifact(c)
         /\ scenario = "session" => TablesSession(c)
         /\ scenario = "credential" => TablesCredential(c)
         /\ scenario = "grant" => TablesGrant(c)
         /\ scenario \in {"client", "identity"} => RowStep(c)
         /\ scenario \in {"claim", "realm"} => Aside(c)
<1>. USE DEF Drizzle!In, Typeorm!In
<1>1. call[c].pc # "idle" => call[c].op \in Operations[scenario]
  BY DEF Shaped
<1>2. CASE scenario = "artifact"
  <2>1. call[c].op \in {"consume", "save", "destroy", "revoke", "prune"} \/ call[c].pc = "idle"
    BY <1>1, <1>2, OperationsAre
  <2>2. \/ Drizzle!Consume(c) \/ Drizzle!FindArtifact(c) \/ Drizzle!UpsertArtifact(c)
        \/ Drizzle!DestroyArtifact(c) \/ Drizzle!RevokeByGrantId(c) \/ Drizzle!Prune(c) \/ Drizzle!Sweep(c)
    BY <1>2, <2>1
       DEF SqlAct, Drizzle!ReadClients, Drizzle!SwapClients, Drizzle!FindSession, Drizzle!UpsertSession,
           Drizzle!EndSession, Drizzle!FindCredential, Drizzle!UpsertCredential,
           Drizzle!DestroyCredential, Drizzle!DestroyRealm, Drizzle!FindGrant, Drizzle!UpsertGrant,
           Drizzle!DestroyGrant, Drizzle!FindClient, Drizzle!UpsertClient, Drizzle!DestroyClient,
           Drizzle!FindIdentity, Drizzle!UpsertIdentity, Drizzle!DestroyIdentity,
           Drizzle!CreateCredential, Drizzle!CreateRealm, Drizzle!Claim, Typeorm!ClearLapsed,
           Typeorm!Claim, Typeorm!ClaimCollided, Typeorm!CreateCredential, Typeorm!CreateRealm,
           Drizzle!Looked
  <2>3. TablesArtifact(c)
    <3>1. CASE Drizzle!Consume(c)
      BY <1>2, <2>1, <3>1
         DEF Drizzle!Consume, Drizzle!Put, Drizzle!Keep, Drizzle!End, Drizzle!Answer, Drizzle!Artifact,
             Drizzle!Live, TablesArtifact, In, Told, Fails, GoesOn, Puts, Row
    <3>2. CASE Drizzle!FindArtifact(c)
      BY <1>2, <2>1, <3>2
         DEF Drizzle!FindArtifact, Drizzle!Keep, Drizzle!To, Drizzle!End, Drizzle!Answer,
             Drizzle!Artifact, Drizzle!Live, TablesArtifact, In, Told, Fails, GoesOn, Puts, Row
    <3>3. CASE Drizzle!UpsertArtifact(c)
      BY <1>2, <2>1, <3>3
         DEF Drizzle!UpsertArtifact, Drizzle!Put, Drizzle!End, Drizzle!Answer, Drizzle!Artifact,
             TablesArtifact, In, Told, Fails, GoesOn, Puts, Row
    <3>4. CASE Drizzle!DestroyArtifact(c)
      BY <1>2, <2>1, <3>4
         DEF Drizzle!DestroyArtifact, Drizzle!Put, Drizzle!Delete, Drizzle!End, Drizzle!Answer,
             TablesArtifact, In, Told, Fails, GoesOn, Puts, Row
    <3>5. CASE Drizzle!RevokeByGrantId(c)
      BY <1>2, <2>1, <3>5
         DEF Drizzle!RevokeByGrantId, Drizzle!Put, Drizzle!Delete, Drizzle!End, Drizzle!Answer,
             TablesArtifact, In, Told, Fails, GoesOn, Puts, Row
    <3>6. CASE Drizzle!Prune(c)
      BY <1>2, <2>1, <3>6
         DEF Drizzle!Prune, Drizzle!Keep, Drizzle!To, Drizzle!End, Drizzle!Answer, Drizzle!Artifact,
             TablesArtifact, In, Told, Fails, GoesOn, Puts, Row
    <3>7. CASE Drizzle!Sweep(c)
      BY <1>2, <2>1, <3>7
         DEF Drizzle!Sweep, Drizzle!Put, Drizzle!Delete, Drizzle!End, Drizzle!Answer, TablesArtifact,
             In, Told, Fails, GoesOn, Puts, Row
    <3>. QED BY <2>2, <3>1, <3>2, <3>3, <3>4, <3>5, <3>6, <3>7
  <2>. QED BY <1>2, <2>3
<1>3. CASE scenario = "session"
  <2>1. call[c].op \in {"addClient", "save", "end"} \/ call[c].pc = "idle"
    BY <1>1, <1>3, OperationsAre
  <2>2. \/ Drizzle!ReadClients(c) \/ Drizzle!SwapClients(c) \/ Drizzle!FindSession(c)
        \/ Drizzle!UpsertSession(c) \/ Drizzle!EndSession(c)
    BY <1>3, <2>1
       DEF SqlAct, Drizzle!Consume, Drizzle!FindArtifact, Drizzle!UpsertArtifact, Drizzle!DestroyArtifact,
           Drizzle!RevokeByGrantId, Drizzle!Prune, Drizzle!Sweep, Drizzle!FindCredential,
           Drizzle!UpsertCredential, Drizzle!DestroyCredential, Drizzle!DestroyRealm, Drizzle!FindGrant,
           Drizzle!UpsertGrant, Drizzle!DestroyGrant, Drizzle!FindClient, Drizzle!UpsertClient,
           Drizzle!DestroyClient, Drizzle!FindIdentity, Drizzle!UpsertIdentity, Drizzle!DestroyIdentity,
           Drizzle!CreateCredential, Drizzle!CreateRealm, Drizzle!Claim, Typeorm!ClearLapsed,
           Typeorm!Claim, Typeorm!ClaimCollided, Typeorm!CreateCredential, Typeorm!CreateRealm,
           Drizzle!Looked
  <2>3. TablesSession(c)
    <3>1. CASE Drizzle!ReadClients(c)
      BY <1>3, <2>1, <3>1
         DEF Drizzle!ReadClients, Drizzle!Keep, Drizzle!To, Drizzle!End, Drizzle!Answer,
             Drizzle!Session, TablesSession, In, Told, Fails, GoesOn, Puts, Retries, Row
    <3>2. CASE Drizzle!SwapClients(c)
      BY <1>3, <2>1, <3>2
         DEF Drizzle!SwapClients, Drizzle!Put, Drizzle!Keep, Drizzle!End, Drizzle!Answer, Drizzle!Throw,
             Drizzle!Session, TablesSession, In, Told, Fails, GoesOn, Puts, Retries, Row
    <3>3. CASE Drizzle!FindSession(c)
      BY <1>3, <2>1, <3>3
         DEF Drizzle!FindSession, Drizzle!Keep, Drizzle!To, Drizzle!End, Drizzle!Answer,
             Drizzle!Session, TablesSession, In, Told, Fails, GoesOn, Puts, Retries, Row
    <3>4. CASE Drizzle!UpsertSession(c)
      BY <1>3, <2>1, <3>4
         DEF Drizzle!UpsertSession, Drizzle!Put, Drizzle!End, Drizzle!Answer, TablesSession, In, Told,
             Fails, GoesOn, Puts, Retries, Row
    <3>5. CASE Drizzle!EndSession(c)
      BY <1>3, <2>1, <3>5
         DEF Drizzle!EndSession, Drizzle!Put, Drizzle!Delete, Drizzle!End, Drizzle!Answer,
             TablesSession, In, Told, Fails, GoesOn, Puts, Retries, Row
    <3>. QED BY <2>2, <3>1, <3>2, <3>3, <3>4, <3>5
  <2>. QED BY <1>3, <2>3
<1>4. CASE scenario = "credential"
  <2>1. call[c].op \in {"create", "save", "destroy"} \/ call[c].pc = "idle"
    BY <1>1, <1>4, OperationsAre
  <2>2. \/ Drizzle!CreateCredential(c) \/ Drizzle!FindCredential(c) \/ Drizzle!UpsertCredential(c)
        \/ Drizzle!DestroyCredential(c) \/ Typeorm!CreateCredential(c)
    BY <1>4, <2>1
       DEF SqlAct, Drizzle!Consume, Drizzle!FindArtifact, Drizzle!UpsertArtifact, Drizzle!DestroyArtifact,
           Drizzle!RevokeByGrantId, Drizzle!Prune, Drizzle!Sweep, Drizzle!ReadClients,
           Drizzle!SwapClients, Drizzle!FindSession, Drizzle!UpsertSession, Drizzle!EndSession,
           Drizzle!DestroyRealm, Drizzle!FindGrant, Drizzle!UpsertGrant, Drizzle!DestroyGrant,
           Drizzle!FindClient, Drizzle!UpsertClient, Drizzle!DestroyClient, Drizzle!FindIdentity,
           Drizzle!UpsertIdentity, Drizzle!DestroyIdentity, Drizzle!CreateRealm, Drizzle!Claim,
           Typeorm!ClearLapsed, Typeorm!Claim, Typeorm!ClaimCollided, Typeorm!CreateRealm,
           Drizzle!Looked
  <2>3. TablesCredential(c)
    <3>1. CASE Drizzle!CreateCredential(c)
      BY <1>4, <2>1, <3>1, CollidesIs
         DEF Drizzle!CreateCredential, Drizzle!Put, Drizzle!Keep, Drizzle!End, Drizzle!Answer,
             TablesCredential, In, Told, Fails, GoesOn, Puts, PutsAt, Credential
    <3>2. CASE Drizzle!FindCredential(c)
      BY <1>4, <2>1, <3>2
         DEF Drizzle!FindCredential, Drizzle!Keep, Drizzle!To, Drizzle!End, Drizzle!Answer,
             TablesCredential, In, Told, Fails, GoesOn, Puts, PutsAt, Credential
    <3>3. CASE Drizzle!UpsertCredential(c)
      BY <1>4, <2>1, <3>3
         DEF Drizzle!UpsertCredential, Drizzle!Put, Drizzle!Keep, Drizzle!End, Drizzle!Answer,
             Drizzle!Throw, Drizzle!Stored, Drizzle!Keys, TablesCredential, In, Told, Fails, GoesOn,
             Puts, PutsAt, Credential, Taken
    <3>4. CASE Drizzle!DestroyCredential(c)
      BY <1>4, <2>1, <3>4
         DEF Drizzle!DestroyCredential, Drizzle!Put, Drizzle!Delete, Drizzle!End, Drizzle!Answer,
             TablesCredential, In, Told, Fails, GoesOn, Puts, PutsAt, Credential, Taken
    <3>5. CASE Typeorm!CreateCredential(c)
      BY <1>4, <2>1, <3>5, CollidesIs
         DEF Typeorm!CreateCredential, Typeorm!Insert, Typeorm!Put, Typeorm!Keep, Typeorm!To,
             Typeorm!End, Typeorm!Answer, Typeorm!Collided, Typeorm!Throw, TablesCredential, In, Told,
             Fails, GoesOn, Puts, PutsAt, Credential
    <3>. QED BY <2>2, <3>1, <3>2, <3>3, <3>4, <3>5
  <2>. QED BY <1>4, <2>3
<1>5. CASE scenario = "grant"
  <2>1. call[c].op \in {"consent", "withdraw"} \/ call[c].pc = "idle"
    BY <1>1, <1>5, OperationsAre
  <2>2. \/ Drizzle!FindGrant(c) \/ Drizzle!UpsertGrant(c) \/ Drizzle!DestroyGrant(c)
    BY <1>5, <2>1
       DEF SqlAct, Drizzle!Consume, Drizzle!FindArtifact, Drizzle!UpsertArtifact, Drizzle!DestroyArtifact,
           Drizzle!RevokeByGrantId, Drizzle!Prune, Drizzle!Sweep, Drizzle!ReadClients,
           Drizzle!SwapClients, Drizzle!FindSession, Drizzle!UpsertSession, Drizzle!EndSession,
           Drizzle!FindCredential, Drizzle!UpsertCredential, Drizzle!DestroyCredential,
           Drizzle!DestroyRealm, Drizzle!FindClient, Drizzle!UpsertClient, Drizzle!DestroyClient,
           Drizzle!FindIdentity, Drizzle!UpsertIdentity, Drizzle!DestroyIdentity,
           Drizzle!CreateCredential, Drizzle!CreateRealm, Drizzle!Claim, Typeorm!ClearLapsed,
           Typeorm!Claim, Typeorm!ClaimCollided, Typeorm!CreateCredential, Typeorm!CreateRealm,
           Drizzle!Looked
  <2>3. TablesGrant(c)
    <3>1. CASE Drizzle!FindGrant(c)
      BY <1>5, <2>1, <3>1
         DEF Drizzle!FindGrant, Drizzle!Keep, Drizzle!To, Drizzle!Stored, Drizzle!Keys, TablesGrant, In,
             Told, Fails, GoesOn, Puts, PutsAt, Granted, Keys
    <3>2. CASE Drizzle!UpsertGrant(c)
      BY <1>5, <2>1, <3>2
         DEF Drizzle!UpsertGrant, Drizzle!Put, Drizzle!Keep, Drizzle!End, Drizzle!Answer, Drizzle!Throw,
             Drizzle!Stored, Drizzle!Keys, TablesGrant, In, Told, Fails, GoesOn, Puts, PutsAt, Granted,
             Keys
    <3>3. CASE Drizzle!DestroyGrant(c)
      BY <1>5, <2>1, <3>3
         DEF Drizzle!DestroyGrant, Drizzle!Put, Drizzle!Delete, Drizzle!Keep, Drizzle!To, Drizzle!End,
             Drizzle!Answer, Drizzle!Stored, Drizzle!Keys, TablesGrant, In, Told, Fails, GoesOn, Puts,
             PutsAt, Granted, Keys
    <3>. QED BY <2>2, <3>1, <3>2, <3>3
  <2>. QED BY <1>5, <2>3
<1>6. CASE scenario = "client"
  <2>1. call[c].op \in {"create", "save", "destroy"} \/ call[c].pc = "idle"
    BY <1>1, <1>6, OperationsAre
  <2>2. \/ Drizzle!FindClient(c) \/ Drizzle!UpsertClient(c) \/ Drizzle!DestroyClient(c)
    BY <1>6, <2>1
       DEF SqlAct, Drizzle!Consume, Drizzle!FindArtifact, Drizzle!UpsertArtifact, Drizzle!DestroyArtifact,
           Drizzle!RevokeByGrantId, Drizzle!Prune, Drizzle!Sweep, Drizzle!ReadClients,
           Drizzle!SwapClients, Drizzle!FindSession, Drizzle!UpsertSession, Drizzle!EndSession,
           Drizzle!FindCredential, Drizzle!UpsertCredential, Drizzle!DestroyCredential,
           Drizzle!DestroyRealm, Drizzle!FindGrant, Drizzle!UpsertGrant, Drizzle!DestroyGrant,
           Drizzle!FindIdentity, Drizzle!UpsertIdentity, Drizzle!DestroyIdentity,
           Drizzle!CreateCredential, Drizzle!CreateRealm, Drizzle!Claim, Typeorm!ClearLapsed,
           Typeorm!Claim, Typeorm!ClaimCollided, Typeorm!CreateCredential, Typeorm!CreateRealm,
           Drizzle!Looked
  <2>3. RowStep(c)
    <3>1. CASE Drizzle!FindClient(c)
      BY <1>6, <2>1, <3>1
         DEF Drizzle!FindClient, Drizzle!Looked, Drizzle!Keep, Drizzle!To, Drizzle!End, Drizzle!Answer,
             Drizzle!Throw, RowStep, In, Told, Fails, GoesOn, Puts, Ends, Row
    <3>2. CASE Drizzle!UpsertClient(c)
      BY <1>6, <2>1, <3>2
         DEF Drizzle!UpsertClient, Drizzle!Put, Drizzle!End, Drizzle!Answer, RowStep, In, Told, Fails,
             GoesOn, Puts, Ends, Row
    <3>3. CASE Drizzle!DestroyClient(c)
      BY <1>6, <2>1, <3>3
         DEF Drizzle!DestroyClient, Drizzle!Put, Drizzle!Delete, Drizzle!End, Drizzle!Answer, RowStep,
             In, Told, Fails, GoesOn, Puts, Ends, Row
    <3>. QED BY <2>2, <3>1, <3>2, <3>3
  <2>. QED BY <1>6, <2>3
<1>7. CASE scenario = "identity"
  <2>1. call[c].op \in {"link", "unlink"} \/ call[c].pc = "idle"
    BY <1>1, <1>7, OperationsAre
  <2>2. \/ Drizzle!FindIdentity(c) \/ Drizzle!UpsertIdentity(c) \/ Drizzle!DestroyIdentity(c)
    BY <1>7, <2>1
       DEF SqlAct, Drizzle!Consume, Drizzle!FindArtifact, Drizzle!UpsertArtifact, Drizzle!DestroyArtifact,
           Drizzle!RevokeByGrantId, Drizzle!Prune, Drizzle!Sweep, Drizzle!ReadClients,
           Drizzle!SwapClients, Drizzle!FindSession, Drizzle!UpsertSession, Drizzle!EndSession,
           Drizzle!FindCredential, Drizzle!UpsertCredential, Drizzle!DestroyCredential,
           Drizzle!DestroyRealm, Drizzle!FindGrant, Drizzle!UpsertGrant, Drizzle!DestroyGrant,
           Drizzle!FindClient, Drizzle!UpsertClient, Drizzle!DestroyClient, Drizzle!CreateCredential,
           Drizzle!CreateRealm, Drizzle!Claim, Typeorm!ClearLapsed, Typeorm!Claim,
           Typeorm!ClaimCollided, Typeorm!CreateCredential, Typeorm!CreateRealm, Drizzle!Looked
  <2>3. RowStep(c)
    <3>1. CASE Drizzle!FindIdentity(c)
      BY <1>7, <2>1, <3>1
         DEF Drizzle!FindIdentity, Drizzle!Looked, Drizzle!Keep, Drizzle!To, Drizzle!End,
             Drizzle!Answer, Drizzle!Throw, RowStep, In, Told, Fails, GoesOn, Puts, Ends, Row
    <3>2. CASE Drizzle!UpsertIdentity(c)
      BY <1>7, <2>1, <3>2
         DEF Drizzle!UpsertIdentity, Drizzle!Put, Drizzle!End, Drizzle!Answer, RowStep, In, Told, Fails,
             GoesOn, Puts, Ends, Row
    <3>3. CASE Drizzle!DestroyIdentity(c)
      BY <1>7, <2>1, <3>3
         DEF Drizzle!DestroyIdentity, Drizzle!Put, Drizzle!Delete, Drizzle!End, Drizzle!Answer, RowStep,
             In, Told, Fails, GoesOn, Puts, Ends, Row
    <3>. QED BY <2>2, <3>1, <3>2, <3>3
  <2>. QED BY <1>7, <2>3
<1>8. CASE scenario = "claim"
  <2>1. call[c].op \in {"claim"} \/ call[c].pc = "idle"
    BY <1>1, <1>8, OperationsAre
  <2>2. \/ Drizzle!Claim(c) \/ Typeorm!ClearLapsed(c) \/ Typeorm!Claim(c) \/ Typeorm!ClaimCollided(c)
    BY <1>8, <2>1
       DEF SqlAct, Drizzle!Consume, Drizzle!FindArtifact, Drizzle!UpsertArtifact, Drizzle!DestroyArtifact,
           Drizzle!RevokeByGrantId, Drizzle!Prune, Drizzle!Sweep, Drizzle!ReadClients,
           Drizzle!SwapClients, Drizzle!FindSession, Drizzle!UpsertSession, Drizzle!EndSession,
           Drizzle!FindCredential, Drizzle!UpsertCredential, Drizzle!DestroyCredential,
           Drizzle!DestroyRealm, Drizzle!FindGrant, Drizzle!UpsertGrant, Drizzle!DestroyGrant,
           Drizzle!FindClient, Drizzle!UpsertClient, Drizzle!DestroyClient, Drizzle!FindIdentity,
           Drizzle!UpsertIdentity, Drizzle!DestroyIdentity, Drizzle!CreateCredential,
           Drizzle!CreateRealm, Typeorm!CreateCredential, Typeorm!CreateRealm, Drizzle!Looked
  <2>3. Aside(c)
    <3>1. CASE Drizzle!Claim(c)
      BY <1>8, <2>1, <3>1
         DEF Drizzle!Claim, Drizzle!Put, Drizzle!Keep, Drizzle!End, Drizzle!Answer, Drizzle!Live, Aside,
             In, Told, Fails, GoesOn, Puts, InFlight, Row
    <3>2. CASE Typeorm!ClearLapsed(c)
      BY <1>8, <2>1, <3>2
         DEF Typeorm!ClearLapsed, Typeorm!Put, Typeorm!Delete, Typeorm!Keep, Typeorm!To, Aside, In,
             Told, Fails, GoesOn, Puts, InFlight, Row
    <3>3. CASE Typeorm!Claim(c)
      BY <1>8, <2>1, <3>3
         DEF Typeorm!Claim, Typeorm!Insert, Typeorm!Put, Typeorm!Keep, Typeorm!To, Typeorm!End,
             Typeorm!Answer, Aside, In, Told, Fails, GoesOn, Puts, InFlight, Row
    <3>4. CASE Typeorm!ClaimCollided(c)
      BY <1>8, <2>1, <3>4
         DEF Typeorm!ClaimCollided, Typeorm!Collided, Typeorm!Keep, Typeorm!End, Typeorm!Answer,
             Typeorm!Throw, Aside, In, Told, Fails, GoesOn, Puts, InFlight, Row
    <3>. QED BY <2>2, <3>1, <3>2, <3>3, <3>4
  <2>. QED BY <1>8, <2>3
<1>9. CASE scenario = "realm"
  <2>1. call[c].op \in {"create", "destroy"} \/ call[c].pc = "idle"
    BY <1>1, <1>9, OperationsAre
  <2>2. \/ Drizzle!DestroyRealm(c) \/ Drizzle!CreateRealm(c) \/ Typeorm!CreateRealm(c)
    BY <1>9, <2>1
       DEF SqlAct, Drizzle!Consume, Drizzle!FindArtifact, Drizzle!UpsertArtifact, Drizzle!DestroyArtifact,
           Drizzle!RevokeByGrantId, Drizzle!Prune, Drizzle!Sweep, Drizzle!ReadClients,
           Drizzle!SwapClients, Drizzle!FindSession, Drizzle!UpsertSession, Drizzle!EndSession,
           Drizzle!FindCredential, Drizzle!UpsertCredential, Drizzle!DestroyCredential,
           Drizzle!FindGrant, Drizzle!UpsertGrant, Drizzle!DestroyGrant, Drizzle!FindClient,
           Drizzle!UpsertClient, Drizzle!DestroyClient, Drizzle!FindIdentity, Drizzle!UpsertIdentity,
           Drizzle!DestroyIdentity, Drizzle!CreateCredential, Drizzle!Claim, Typeorm!ClearLapsed,
           Typeorm!Claim, Typeorm!ClaimCollided, Typeorm!CreateCredential, Drizzle!Looked
  <2>3. Aside(c)
    <3>1. CASE Drizzle!DestroyRealm(c)
      BY <1>9, <2>1, <3>1
         DEF Drizzle!DestroyRealm, Drizzle!Put, Drizzle!Delete, Drizzle!End, Drizzle!Answer, Aside, In,
             Told, Fails, GoesOn, Puts, InFlight, Row
    <3>2. CASE Drizzle!CreateRealm(c)
      BY <1>9, <2>1, <3>2
         DEF Drizzle!CreateRealm, Drizzle!Put, Drizzle!Keep, Drizzle!End, Drizzle!Answer, Aside, In,
             Told, Fails, GoesOn, Puts, InFlight, Row
    <3>3. CASE Typeorm!CreateRealm(c)
      BY <1>9, <2>1, <3>3
         DEF Typeorm!CreateRealm, Typeorm!Insert, Typeorm!Put, Typeorm!Keep, Typeorm!To, Typeorm!End,
             Typeorm!Answer, Typeorm!Collided, Typeorm!Throw, Aside, In, Told, Fails, GoesOn, Puts,
             InFlight, Row
    <3>. QED BY <2>2, <3>1, <3>2, <3>3
  <2>. QED BY <1>9, <2>3
<1>. QED BY <1>2, <1>3, <1>4, <1>5, <1>6, <1>7, <1>8, <1>9

\* The key-value store's commands on an artifact.
Held(key) == Had(store[key], now)
SetsFor(key, value, ttl) ==
  store' = [store EXCEPT ![key] = [value |-> value, expires |-> IF ttl = None THEN Kv!Forever ELSE now + ttl]]
Left(c) == Kv!TtlFrom(call[c].seen.expires, call[c].at)
EntriesArtifact(c) ==
  \/ In(c, "consume", "sent") /\ store' = store /\ ((\E v : Told(c, v)) \/ \E v : GoesOn(c, "insert", v))
  \/ In(c, "consume", "insert") /\ (\E v : Told(c, v)) /\ (store' = store \/ \E row : PutsAt(<<"consumed">>, row))
  \/ In(c, "save", "sent") /\ store' = store /\ Told(c, None)
  \/ /\ In(c, "save", "sent") /\ store' = store /\ Row # None /\ Row.value.expires > now
     /\ GoesOn(c, "upsert", Row.value)
  \/ In(c, "save", "upsert") /\ SetsFor(<<"artifact">>, call[c].seen, Left(c)) /\ Goes(c, "index")
  \/ In(c, "save", "index") /\ SetsFor(<<"index">>, None, Left(c)) /\ Told(c, None)
  \/ In(c, "destroy", "sent") /\ Puts(None) /\ Told(c, None)
  \/ In(c, "revoke", "sent") /\ store' = store /\ IF Held(<<"index">>) THEN GoesOn(c, "artifact", None) ELSE Told(c, None)
  \/ In(c, "revoke", "artifact") /\ Puts(None) /\ GoesOn(c, "entry", None)
  \/ In(c, "revoke", "entry") /\ PutsAt(<<"index">>, None) /\ Told(c, None)

\* On a session and the clients added to it.
Sets(key, value) == store' = [store EXCEPT ![key] = [value |-> value, expires |-> Kv!Forever]]
Added == {d \in Calls : Held(<<"added", d>>)}
EntriesSession(c) ==
  \/ In(c, "addClient", "sent") /\ store' = store /\ IF Held(<<"session">>) THEN GoesOn(c, "add", None) ELSE Told(c, None)
  \/ In(c, "addClient", "add") /\ Sets(<<"added", c>>, None) /\ Told(c, None)
  \/ In(c, "save", "sent") /\ store' = store /\ IF Held(<<"session">>) THEN GoesOn(c, "list", Row.value) ELSE Told(c, None)
  \/ In(c, "save", "list") /\ store' = store /\ GoesOn(c, "upsert", call[c].seen \cup Added)
  \/ In(c, "save", "upsert") /\ Sets(<<"session">>, call[c].seen \cup {c}) /\ Told(c, None)
  \/ In(c, "end", "sent") /\ Puts(None) /\ GoesOn(c, "clients", None)
  \/ In(c, "end", "clients") /\ (\E d \in Calls : PutsAt(<<"added", d>>, None)) /\ call' = call
  \/ In(c, "end", "clients") /\ store' = store /\ Told(c, None)

\* On a credential and the key of its name.
NameOf(u) == store[<<"username", u>>]
EntriesCredential(c) ==
  LET a == call[c].account u == call[c].username row == call[c].seen IN
  \/ In(c, "create", "sent") /\ ~Held(<<"username", u>>) /\ Sets(<<"username", u>>, a) /\ GoesOn(c, "insert", None)
  \/ In(c, "create", "sent") /\ store' = store /\ Told(c, FALSE)
  \/ /\ In(c, "create", "insert") /\ ~Held(<<"credential", a>>)
     /\ Sets(<<"credential", a>>, [username |-> u]) /\ Told(c, TRUE)
  \/ In(c, "create", "insert") /\ store' = store /\ GoesOn(c, "undo", None)
  \/ In(c, "create", "undo") /\ PutsAt(<<"username", u>>, None) /\ Told(c, FALSE)
  \/ /\ In(c, "save", "sent") /\ store' = store
     /\ IF Held(<<"credential", a>>) THEN GoesOn(c, "upsert", Credential(a).value) ELSE Told(c, None)
  \/ /\ In(c, "save", "upsert") /\ store' = store
     /\ IF Held(<<"credential", a>>) /\ Credential(a).value.username # row.username
        THEN Renames(c, "name", Credential(a).value.username) ELSE Goes(c, "write")
  \/ In(c, "save", "name") /\ Sets(<<"username", row.username>>, a) /\ Goes(c, "unname")
  \/ In(c, "save", "name") /\ store' = store /\ Fails(c, "threw")
  \/ In(c, "save", "unname") /\ PutsAt(<<"username", u>>, None) /\ Goes(c, "write")
  \/ In(c, "save", "write") /\ Sets(<<"credential", a>>, row) /\ Told(c, None)
  \/ /\ In(c, "destroy", "sent") /\ store' = store
     /\ IF Held(<<"credential", a>>) THEN GoesOn(c, "name", Credential(a).value) ELSE GoesOn(c, "credential", None)
  \/ In(c, "destroy", "name") /\ PutsAt(<<"username", row.username>>, None) /\ GoesOn(c, "credential", None)
  \/ In(c, "destroy", "credential") /\ PutsAt(<<"credential", a>>, None) /\ Told(c, None)

\* And on a grant.
EntriesGrant(c) ==
  \/ In(c, "consent", "sent") /\ store' = store /\ \E k \in Granted \cup {<<"grant", c>>} : GoesOn(c, "upsert", k)
  \/ In(c, "consent", "upsert") /\ (\E row : PutsAt(call[c].seen, row)) /\ Told(c, None)
  \/ In(c, "withdraw", "sent") /\ store' = store /\ (Told(c, None) \/ \E k : GoesOn(c, "destroy", k))
  \/ In(c, "withdraw", "destroy") /\ PutsAt(call[c].seen, None) /\ Told(c, None)

\* What the key-value store's adapter does.
KvAct(c) ==
  \/ Kv!ReadForConsume(c) \/ Kv!Consume(c) \/ Kv!FindArtifact(c) \/ Kv!UpsertArtifact(c)
  \/ Kv!DestroyArtifact(c) \/ Kv!RevokeByGrantId(c) \/ Kv!AddClient(c) \/ Kv!FindSession(c)
  \/ Kv!UpsertSession(c) \/ Kv!EndSession(c) \/ Kv!CreateCredential(c) \/ Kv!FindCredential(c)
  \/ Kv!UpsertCredential(c) \/ Kv!DestroyCredential(c) \/ Kv!FindGrant(c) \/ Kv!UpsertGrant(c)
  \/ Kv!DestroyGrant(c) \/ Kv!FindClient(c) \/ Kv!UpsertClient(c) \/ Kv!DestroyClient(c)
  \/ Kv!FindIdentity(c) \/ Kv!UpsertIdentity(c) \/ Kv!DestroyIdentity(c) \/ Kv!Claim(c) \/ Kv!CreateRealm(c)
  \/ Kv!DestroyRealm(c)

LEMMA KvActs ==
  ASSUME ~Sql, Step
  PROVE  \E c \in Calls : KvAct(c)
BY DEF Sql, Step, KvAct, Kv!Next

LEMMA EntriesSteps ==
  ASSUME ~Sql, Shaped, NEW c \in Calls, KvAct(c)
  PROVE  /\ scenario = "artifact" => EntriesArtifact(c)
         /\ scenario = "session" => EntriesSession(c)
         /\ scenario = "credential" => EntriesCredential(c)
         /\ scenario = "grant" => EntriesGrant(c)
         /\ scenario \in {"client", "identity"} => RowStep(c)
         /\ scenario \in {"claim", "realm"} => Aside(c)
<1>. USE DEF Kv!In
<1>1. call[c].pc # "idle" => call[c].op \in Operations[scenario]
  BY DEF Shaped
<1>2. CASE scenario = "artifact"
  <2>1. call[c].op \in {"consume", "save", "destroy", "revoke", "prune"} \/ call[c].pc = "idle"
    BY <1>1, <1>2, OperationsAre
  <2>2. \/ Kv!ReadForConsume(c) \/ Kv!Consume(c) \/ Kv!FindArtifact(c) \/ Kv!UpsertArtifact(c)
        \/ Kv!DestroyArtifact(c) \/ Kv!RevokeByGrantId(c)
    BY <1>2, <2>1
       DEF KvAct, Kv!AddClient, Kv!FindSession, Kv!UpsertSession, Kv!EndSession, Kv!CreateCredential,
           Kv!FindCredential, Kv!UpsertCredential, Kv!DestroyCredential, Kv!FindGrant, Kv!UpsertGrant,
           Kv!DestroyGrant, Kv!FindClient, Kv!UpsertClient, Kv!DestroyClient, Kv!FindIdentity,
           Kv!UpsertIdentity, Kv!DestroyIdentity, Kv!Claim, Kv!CreateRealm, Kv!DestroyRealm, Kv!Looked
  <2>3. EntriesArtifact(c)
    <3>1. CASE Kv!ReadForConsume(c)
      BY <1>2, <2>1, <3>1
         DEF Kv!ReadForConsume, Kv!Keep, Kv!To, Kv!End, Kv!Answer, EntriesArtifact, In, Told, Fails,
             GoesOn, Puts, SetsFor, Left, PutsAt, Goes, Held, Had, Row
    <3>2. CASE Kv!Consume(c)
      BY <1>2, <2>1, <3>2
         DEF Kv!Consume, Kv!Insert, Kv!Set, Kv!Put, Kv!Keep, Kv!End, Kv!Answer, EntriesArtifact, In,
             Told, Fails, GoesOn, Puts, SetsFor, Left, PutsAt, Goes, Held, Had, Row
    <3>3. CASE Kv!FindArtifact(c)
      BY <1>2, <2>1, <3>3
         DEF Kv!FindArtifact, Kv!Held, Kv!Artifact, Kv!Keep, Kv!To, Kv!End, Kv!Answer, EntriesArtifact,
             In, Told, Fails, GoesOn, Puts, SetsFor, Left, PutsAt, Goes, Held, Had, Row
    <3>4. CASE Kv!UpsertArtifact(c)
      BY <1>2, <2>1, <3>4
         DEF Kv!UpsertArtifact, Kv!Set, Kv!Put, Kv!End, Kv!Answer, EntriesArtifact, In, Told, Fails,
             GoesOn, Puts, SetsFor, Left, PutsAt, Goes, Held, Had, Row
    <3>5. CASE Kv!DestroyArtifact(c)
      BY <1>2, <2>1, <3>5
         DEF Kv!DestroyArtifact, Kv!Put, Kv!Delete, Kv!End, Kv!Answer, EntriesArtifact, In, Told, Fails,
             GoesOn, Puts, SetsFor, Left, PutsAt, Goes, Held, Had, Row
    <3>6. CASE Kv!RevokeByGrantId(c)
      BY <1>2, <2>1, <3>6
         DEF Kv!RevokeByGrantId, Kv!Held, Kv!Keep, Kv!To, Kv!Put, Kv!Delete, Kv!End, Kv!Answer,
             EntriesArtifact, In, Told, Fails, GoesOn, Puts, SetsFor, Left, PutsAt, Goes, Held, Had, Row
    <3>. QED BY <2>2, <3>1, <3>2, <3>3, <3>4, <3>5, <3>6
  <2>. QED BY <1>2, <2>3
<1>3. CASE scenario = "session"
  <2>1. call[c].op \in {"addClient", "save", "end"} \/ call[c].pc = "idle"
    BY <1>1, <1>3, OperationsAre
  <2>2. \/ Kv!AddClient(c) \/ Kv!FindSession(c) \/ Kv!UpsertSession(c) \/ Kv!EndSession(c)
    BY <1>3, <2>1
       DEF KvAct, Kv!ReadForConsume, Kv!Consume, Kv!FindArtifact, Kv!UpsertArtifact, Kv!DestroyArtifact,
           Kv!RevokeByGrantId, Kv!CreateCredential, Kv!FindCredential, Kv!UpsertCredential,
           Kv!DestroyCredential, Kv!FindGrant, Kv!UpsertGrant, Kv!DestroyGrant, Kv!FindClient,
           Kv!UpsertClient, Kv!DestroyClient, Kv!FindIdentity, Kv!UpsertIdentity, Kv!DestroyIdentity,
           Kv!Claim, Kv!CreateRealm, Kv!DestroyRealm, Kv!Looked
  <2>3. EntriesSession(c)
    <3>1. CASE Kv!AddClient(c)
      BY <1>3, <2>1, <3>1
         DEF Kv!AddClient, Kv!Held, Kv!Keep, Kv!To, Kv!End, Kv!Answer, Kv!Set, Kv!Put, EntriesSession,
             In, Told, Fails, GoesOn, Puts, Sets, PutsAt, Added, Held, Had, Row
    <3>2. CASE Kv!FindSession(c)
      BY <1>3, <2>1, <3>2
         DEF Kv!FindSession, Kv!Held, Kv!Keep, Kv!To, Kv!End, Kv!Answer, EntriesSession, In, Told,
             Fails, GoesOn, Puts, Sets, PutsAt, Added, Held, Had, Row
    <3>3. CASE Kv!UpsertSession(c)
      BY <1>3, <2>1, <3>3
         DEF Kv!UpsertSession, Kv!Set, Kv!Put, Kv!End, Kv!Answer, EntriesSession, In, Told, Fails,
             GoesOn, Puts, Sets, PutsAt, Added, Held, Had, Row
    <3>4. CASE Kv!EndSession(c)
      BY <1>3, <2>1, <3>4
         DEF Kv!EndSession, Kv!Put, Kv!Delete, Kv!To, Kv!Keep, Kv!End, Kv!Answer, EntriesSession, In,
             Told, Fails, GoesOn, Puts, Sets, PutsAt, Added, Held, Had, Row
    <3>. QED BY <2>2, <3>1, <3>2, <3>3, <3>4
  <2>. QED BY <1>3, <2>3
<1>4. CASE scenario = "credential"
  <2>1. call[c].op \in {"create", "save", "destroy"} \/ call[c].pc = "idle"
    BY <1>1, <1>4, OperationsAre
  <2>2. \/ Kv!CreateCredential(c) \/ Kv!FindCredential(c) \/ Kv!UpsertCredential(c)
        \/ Kv!DestroyCredential(c)
    BY <1>4, <2>1
       DEF KvAct, Kv!ReadForConsume, Kv!Consume, Kv!FindArtifact, Kv!UpsertArtifact, Kv!DestroyArtifact,
           Kv!RevokeByGrantId, Kv!AddClient, Kv!FindSession, Kv!UpsertSession, Kv!EndSession,
           Kv!FindGrant, Kv!UpsertGrant, Kv!DestroyGrant, Kv!FindClient, Kv!UpsertClient,
           Kv!DestroyClient, Kv!FindIdentity, Kv!UpsertIdentity, Kv!DestroyIdentity, Kv!Claim,
           Kv!CreateRealm, Kv!DestroyRealm, Kv!Looked
  <2>3. EntriesCredential(c)
    <3>1. CASE Kv!CreateCredential(c)
      BY <1>4, <2>1, <3>1
         DEF Kv!CreateCredential, Kv!Insert, Kv!Held, Kv!Set, Kv!Put, Kv!Delete, Kv!Keep, Kv!To, Kv!End,
             Kv!Answer, EntriesCredential, In, Told, Fails, GoesOn, Puts, Sets, PutsAt, Goes, Renames,
             Credential, Held, Had
    <3>2. CASE Kv!FindCredential(c)
      BY <1>4, <2>1, <3>2
         DEF Kv!FindCredential, Kv!Held, Kv!Keep, Kv!To, Kv!End, Kv!Answer, EntriesCredential, In, Told,
             Fails, GoesOn, Puts, Sets, PutsAt, Goes, Renames, Credential, Held, Had
    <3>3. CASE Kv!UpsertCredential(c)
      BY <1>4, <2>1, <3>3
         DEF Kv!UpsertCredential, Kv!Held, Kv!Insert, Kv!Set, Kv!Put, Kv!Delete, Kv!Keep, Kv!End,
             Kv!Answer, Kv!Throw, EntriesCredential, In, Told, Fails, GoesOn, Puts, Sets, PutsAt, Goes,
             Renames, Credential, Held, Had
    <3>4. CASE Kv!DestroyCredential(c)
      BY <1>4, <2>1, <3>4
         DEF Kv!DestroyCredential, Kv!Held, Kv!Keep, Kv!To, Kv!Put, Kv!Delete, Kv!End, Kv!Answer,
             EntriesCredential, In, Told, Fails, GoesOn, Puts, Sets, PutsAt, Goes, Renames, Credential,
             Held, Had
    <3>. QED BY <2>2, <3>1, <3>2, <3>3, <3>4
  <2>. QED BY <1>4, <2>3
<1>5. CASE scenario = "grant"
  <2>1. call[c].op \in {"consent", "withdraw"} \/ call[c].pc = "idle"
    BY <1>1, <1>5, OperationsAre
  <2>2. \/ Kv!FindGrant(c) \/ Kv!UpsertGrant(c) \/ Kv!DestroyGrant(c)
    BY <1>5, <2>1
       DEF KvAct, Kv!ReadForConsume, Kv!Consume, Kv!FindArtifact, Kv!UpsertArtifact, Kv!DestroyArtifact,
           Kv!RevokeByGrantId, Kv!AddClient, Kv!FindSession, Kv!UpsertSession, Kv!EndSession,
           Kv!CreateCredential, Kv!FindCredential, Kv!UpsertCredential, Kv!DestroyCredential,
           Kv!FindClient, Kv!UpsertClient, Kv!DestroyClient, Kv!FindIdentity, Kv!UpsertIdentity,
           Kv!DestroyIdentity, Kv!Claim, Kv!CreateRealm, Kv!DestroyRealm, Kv!Looked
  <2>3. EntriesGrant(c)
    <3>1. CASE Kv!FindGrant(c)
      BY <1>5, <2>1, <3>1
         DEF Kv!FindGrant, Kv!Held, Kv!Keep, Kv!To, Kv!Keys, EntriesGrant, In, Told, Fails, GoesOn,
             Puts, PutsAt, Granted, Keys, Had, Held
    <3>2. CASE Kv!UpsertGrant(c)
      BY <1>5, <2>1, <3>2
         DEF Kv!UpsertGrant, Kv!Set, Kv!Put, Kv!End, Kv!Answer, EntriesGrant, In, Told, Fails, GoesOn,
             Puts, PutsAt, Granted, Keys, Had, Held
    <3>3. CASE Kv!DestroyGrant(c)
      BY <1>5, <2>1, <3>3
         DEF Kv!DestroyGrant, Kv!Keep, Kv!To, Kv!Put, Kv!Delete, Kv!End, Kv!Answer, EntriesGrant, In,
             Told, Fails, GoesOn, Puts, PutsAt, Granted, Keys, Had, Held
    <3>. QED BY <2>2, <3>1, <3>2, <3>3
  <2>. QED BY <1>5, <2>3
<1>6. CASE scenario = "client"
  <2>1. call[c].op \in {"create", "save", "destroy"} \/ call[c].pc = "idle"
    BY <1>1, <1>6, OperationsAre
  <2>2. \/ Kv!FindClient(c) \/ Kv!UpsertClient(c) \/ Kv!DestroyClient(c)
    BY <1>6, <2>1
       DEF KvAct, Kv!ReadForConsume, Kv!Consume, Kv!FindArtifact, Kv!UpsertArtifact, Kv!DestroyArtifact,
           Kv!RevokeByGrantId, Kv!AddClient, Kv!FindSession, Kv!UpsertSession, Kv!EndSession,
           Kv!CreateCredential, Kv!FindCredential, Kv!UpsertCredential, Kv!DestroyCredential,
           Kv!FindGrant, Kv!UpsertGrant, Kv!DestroyGrant, Kv!FindIdentity, Kv!UpsertIdentity,
           Kv!DestroyIdentity, Kv!Claim, Kv!CreateRealm, Kv!DestroyRealm, Kv!Looked
  <2>3. RowStep(c)
    <3>1. CASE Kv!FindClient(c)
      BY <1>6, <2>1, <3>1
         DEF Kv!FindClient, Kv!Looked, Kv!Value, Kv!Held, Kv!Keep, Kv!To, Kv!End, Kv!Answer, Kv!Throw,
             RowStep, In, Told, Fails, GoesOn, Puts, Ends, Row
    <3>2. CASE Kv!UpsertClient(c)
      BY <1>6, <2>1, <3>2
         DEF Kv!UpsertClient, Kv!Set, Kv!Put, Kv!End, Kv!Answer, RowStep, In, Told, Fails, GoesOn, Puts,
             Ends, Row
    <3>3. CASE Kv!DestroyClient(c)
      BY <1>6, <2>1, <3>3
         DEF Kv!DestroyClient, Kv!Put, Kv!Delete, Kv!End, Kv!Answer, RowStep, In, Told, Fails, GoesOn,
             Puts, Ends, Row
    <3>. QED BY <2>2, <3>1, <3>2, <3>3
  <2>. QED BY <1>6, <2>3
<1>7. CASE scenario = "identity"
  <2>1. call[c].op \in {"link", "unlink"} \/ call[c].pc = "idle"
    BY <1>1, <1>7, OperationsAre
  <2>2. \/ Kv!FindIdentity(c) \/ Kv!UpsertIdentity(c) \/ Kv!DestroyIdentity(c)
    BY <1>7, <2>1
       DEF KvAct, Kv!ReadForConsume, Kv!Consume, Kv!FindArtifact, Kv!UpsertArtifact, Kv!DestroyArtifact,
           Kv!RevokeByGrantId, Kv!AddClient, Kv!FindSession, Kv!UpsertSession, Kv!EndSession,
           Kv!CreateCredential, Kv!FindCredential, Kv!UpsertCredential, Kv!DestroyCredential,
           Kv!FindGrant, Kv!UpsertGrant, Kv!DestroyGrant, Kv!FindClient, Kv!UpsertClient,
           Kv!DestroyClient, Kv!Claim, Kv!CreateRealm, Kv!DestroyRealm, Kv!Looked
  <2>3. RowStep(c)
    <3>1. CASE Kv!FindIdentity(c)
      BY <1>7, <2>1, <3>1
         DEF Kv!FindIdentity, Kv!Looked, Kv!Value, Kv!Held, Kv!Keep, Kv!To, Kv!End, Kv!Answer, Kv!Throw,
             RowStep, In, Told, Fails, GoesOn, Puts, Ends, Row
    <3>2. CASE Kv!UpsertIdentity(c)
      BY <1>7, <2>1, <3>2
         DEF Kv!UpsertIdentity, Kv!Set, Kv!Put, Kv!End, Kv!Answer, RowStep, In, Told, Fails, GoesOn,
             Puts, Ends, Row
    <3>3. CASE Kv!DestroyIdentity(c)
      BY <1>7, <2>1, <3>3
         DEF Kv!DestroyIdentity, Kv!Put, Kv!Delete, Kv!End, Kv!Answer, RowStep, In, Told, Fails, GoesOn,
             Puts, Ends, Row
    <3>. QED BY <2>2, <3>1, <3>2, <3>3
  <2>. QED BY <1>7, <2>3
<1>8. CASE scenario = "claim"
  <2>1. call[c].op \in {"claim"} \/ call[c].pc = "idle"
    BY <1>1, <1>8, OperationsAre
  <2>2. \/ Kv!Claim(c)
    BY <1>8, <2>1
       DEF KvAct, Kv!ReadForConsume, Kv!Consume, Kv!FindArtifact, Kv!UpsertArtifact, Kv!DestroyArtifact,
           Kv!RevokeByGrantId, Kv!AddClient, Kv!FindSession, Kv!UpsertSession, Kv!EndSession,
           Kv!CreateCredential, Kv!FindCredential, Kv!UpsertCredential, Kv!DestroyCredential,
           Kv!FindGrant, Kv!UpsertGrant, Kv!DestroyGrant, Kv!FindClient, Kv!UpsertClient,
           Kv!DestroyClient, Kv!FindIdentity, Kv!UpsertIdentity, Kv!DestroyIdentity, Kv!CreateRealm,
           Kv!DestroyRealm, Kv!Looked
  <2>3. Aside(c)
    <3>1. CASE Kv!Claim(c)
      BY <1>8, <2>1, <3>1
         DEF Kv!Claim, Kv!Insert, Kv!Set, Kv!Put, Kv!Keep, Kv!End, Kv!Answer, Aside, In, Told, Fails,
             GoesOn, Puts, InFlight, Row
    <3>. QED BY <2>2, <3>1
  <2>. QED BY <1>8, <2>3
<1>9. CASE scenario = "realm"
  <2>1. call[c].op \in {"create", "destroy"} \/ call[c].pc = "idle"
    BY <1>1, <1>9, OperationsAre
  <2>2. \/ Kv!CreateRealm(c) \/ Kv!DestroyRealm(c)
    BY <1>9, <2>1
       DEF KvAct, Kv!ReadForConsume, Kv!Consume, Kv!FindArtifact, Kv!UpsertArtifact, Kv!DestroyArtifact,
           Kv!RevokeByGrantId, Kv!AddClient, Kv!FindSession, Kv!UpsertSession, Kv!EndSession,
           Kv!CreateCredential, Kv!FindCredential, Kv!UpsertCredential, Kv!DestroyCredential,
           Kv!FindGrant, Kv!UpsertGrant, Kv!DestroyGrant, Kv!FindClient, Kv!UpsertClient,
           Kv!DestroyClient, Kv!FindIdentity, Kv!UpsertIdentity, Kv!DestroyIdentity, Kv!Claim, Kv!Looked
  <2>3. Aside(c)
    <3>1. CASE Kv!CreateRealm(c)
      BY <1>9, <2>1, <3>1
         DEF Kv!CreateRealm, Kv!Insert, Kv!Set, Kv!Put, Kv!Keep, Kv!End, Kv!Answer, Aside, In, Told,
             Fails, GoesOn, Puts, InFlight, Row
    <3>2. CASE Kv!DestroyRealm(c)
      BY <1>9, <2>1, <3>2
         DEF Kv!DestroyRealm, Kv!Put, Kv!Delete, Kv!End, Kv!Answer, Aside, In, Told, Fails, GoesOn,
             Puts, InFlight, Row
    <3>. QED BY <2>2, <3>1, <3>2
  <2>. QED BY <1>9, <2>3
<1>. QED BY <1>2, <1>3, <1>4, <1>5, <1>6, <1>7, <1>8, <1>9

-----------------------------------------------------------------------------
(* What every step does to the calls, and to those that are alone. *)

Does(c) == IF Sql THEN SqlAct(c) ELSE KvAct(c)
Keeps(c) == /\ call'[c].op = call[c].op /\ call'[c].account = call[c].account
            /\ call[c].op # "save" => call'[c].username = call[c].username
Turns(c) == InFlight(c) /\ call'[c].pc # "idle" /\ Keeps(c) /\ Still(c) /\ Formed' /\ DOMAIN store' = Keys
Starts(c, op, a, u) == call[c].pc = "idle" /\ store' = store /\ Made(c, op, a, u)

\* A step of one table, whichever.
Plain(c) ==
  \/ IF Sql THEN TablesArtifact(c) ELSE EntriesArtifact(c)
  \/ IF Sql THEN TablesSession(c) ELSE EntriesSession(c)
  \/ IF Sql THEN TablesCredential(c) ELSE EntriesCredential(c)
  \/ IF Sql THEN TablesGrant(c) ELSE EntriesGrant(c)
  \/ RowStep(c) \/ Aside(c)

LEMMA DoesPlain ==
  ASSUME Shaped, NEW c \in Calls, Does(c)
  PROVE  Plain(c)
BY TablesSteps, EntriesSteps DEF Does, Shaped, Plain

\* The ways a step changes the call it is of.
Changed(c) ==
  \/ (\E v : Told(c, v)) \/ (\E p, s : p # "idle" /\ GoesOn(c, p, s)) \/ Fails(c, "threw") \/ Fails(c, "dead")
  \/ Retries(c) \/ (\E p : p # "idle" /\ Goes(c, p)) \/ (\E u : Renames(c, "name", u) /\ call[c].op = "save") \/ call' = call

LEMMA ChangedKeeps ==
  ASSUME Formed, NEW c \in Calls, Changed(c), call[c].pc # "idle"
  PROVE  call'[c].pc # "idle" /\ Keeps(c) /\ Still(c) /\ Formed'
<1>1. CASE \E v : Told(c, v)
  BY <1>1, Fielded DEF Is, Keeps
<1>2. CASE \E p, s : p # "idle" /\ GoesOn(c, p, s)
  BY <1>2, Fielded DEF Is, Keeps
<1>3. CASE Fails(c, "threw") \/ Fails(c, "dead")
  BY <1>3, Fielded DEF Is, Keeps
<1>4. CASE Retries(c) 
  BY <1>4, Fielded DEF Is, Keeps
<1>5. CASE \E p : p # "idle" /\ Goes(c, p)
  BY <1>5, Fielded DEF Is, Keeps
<1>6. CASE \E u : Renames(c, "name", u) /\ call[c].op = "save"
  BY <1>6, Fielded DEF Is, Keeps
<1>7. CASE call' = call
  BY <1>7 DEF Keeps, Still, Formed
<1>. QED BY <1>1, <1>2, <1>3, <1>4, <1>5, <1>6, <1>7 DEF Changed

LEMMA PlainChanges ==
  ASSUME NEW c \in Calls, Plain(c)
  PROVE  Changed(c) /\ InFlight(c)
<1>1. ASSUME TablesArtifact(c) PROVE Changed(c) /\ InFlight(c)
  BY <1>1 DEF TablesArtifact, Changed, InFlight, In
<1>2. ASSUME EntriesArtifact(c) PROVE Changed(c) /\ InFlight(c)
  BY <1>2 DEF EntriesArtifact, Changed, InFlight, In
<1>3. ASSUME TablesSession(c) PROVE Changed(c) /\ InFlight(c)
  BY <1>3 DEF TablesSession, Changed, InFlight, In
<1>4. ASSUME EntriesSession(c) PROVE Changed(c) /\ InFlight(c)
  BY <1>4 DEF EntriesSession, Changed, InFlight, In
<1>5. ASSUME TablesCredential(c) PROVE Changed(c) /\ InFlight(c)
  BY <1>5 DEF TablesCredential, Changed, InFlight, In
<1>6. ASSUME EntriesCredential(c) PROVE Changed(c) /\ InFlight(c)
  BY <1>6 DEF EntriesCredential, Changed, InFlight, In
<1>7. ASSUME TablesGrant(c) PROVE Changed(c) /\ InFlight(c)
  BY <1>7 DEF TablesGrant, Changed, InFlight, In
<1>8. ASSUME EntriesGrant(c) PROVE Changed(c) /\ InFlight(c)
  BY <1>8 DEF EntriesGrant, Changed, InFlight, In
<1>9. ASSUME RowStep(c) PROVE Changed(c) /\ InFlight(c)
  BY <1>9 DEF RowStep, Changed, InFlight, In
<1>10. ASSUME Aside(c) PROVE Changed(c) /\ InFlight(c)
  BY <1>10 DEF Aside, Changed, InFlight, In
<1>. QED BY <1>1, <1>2, <1>3, <1>4, <1>5, <1>6, <1>7, <1>8, <1>9, <1>10 DEF Plain

LEMMA StoreKeeps ==
  ASSUME Shaped, NEW c \in Calls, Plain(c)
  PROVE  DOMAIN store' = Keys
BY DEF Shaped, Plain, TablesArtifact, EntriesArtifact, TablesSession, EntriesSession, TablesCredential, EntriesCredential,
       TablesGrant, EntriesGrant, RowStep, Aside, Puts, PutsAt, Sets, SetsFor

LEMMA TurnsIs ==
  ASSUME Shaped, NEW c \in Calls, Does(c) \/ Dies(c)
  PROVE  Turns(c)
<1>1. CASE Does(c)
  <2>1. call[c].pc # "idle" /\ InFlight(c) /\ Changed(c) /\ DOMAIN store' = Keys
    BY <1>1, DoesPlain, PlainChanges, StoreKeeps DEF InFlight
  <2>. QED BY <2>1, ChangedKeeps DEF Turns, Shaped
<1>2. CASE Dies(c)
  BY <1>2, ChangedKeeps DEF Dies, Changed, Turns, InFlight, Shaped
<1>. QED BY <1>1, <1>2

LEMMA NextIs ==
  ASSUME Shaped, Next
  PROVE  /\ scenario' = scenario /\ backend' = backend /\ (Sql' <=> Sql)
         /\ \/ Tick
            \/ now' = now /\ \E c \in Calls : Dies(c) \/ Does(c)
            \/ now' = now /\ \E c \in Calls : \E op \in Operations[scenario], a \in Accounts, u \in Usernames : Starts(c, op, a, u)
<1>1. scenario' = scenario /\ backend' = backend /\ (Sql' <=> Sql)
  BY DEF Next, Sql
<1>2. CASE now' = now /\ Step
  BY <1>1, <1>2, SqlActs, KvActs DEF Does
<1>3. ASSUME NEW c \in Calls, Begin(c)
      PROVE  \E op \in Operations[scenario], a \in Accounts, u \in Usernames : Starts(c, op, a, u)
  <2>1. PICK op \in Operations[scenario], a \in Accounts, u \in Usernames :
          /\ call[c].pc = "idle" /\ Keep
          /\ call' = [call EXCEPT ![c].pc = "sent", ![c].op = op, ![c].at = now, ![c].account = a, ![c].username = u]
    BY <1>3, ZenonT(60) DEF Begin
  <2>2. Starts(c, op, a, u)
    BY <2>1 DEF Starts, Made, Keep
  <2>. QED BY <2>2
<1>4. ASSUME NEW c \in Calls, Crash(c) PROVE Dies(c)
  BY <1>4 DEF Crash, Dies, End, Keep, Fails
<1>. QED BY <1>1, <1>2, <1>3, <1>4 DEF Next

\* No operation is None.
LEMMA OperationsAreNot == ASSUME Shaped PROVE None \notin Operations[scenario]
BY OperationsAre, NoneAssumption, TableAssumption DEF Shaped

LEMMA ShapedNext ==
  ASSUME Shaped, Next
  PROVE  Shaped'
<1>1. CASE Tick
  <2>1. now' \in 0..MaxTime
    BY <1>1, TableAssumption, AdapterAssumption DEF Tick, Shaped
  <2>. QED BY <1>1, <2>1, NextIs DEF Tick, Shaped, Formed
<1>2. ASSUME now' = now, NEW c \in Calls, Turns(c) PROVE Shaped'
  BY <1>2, NextIs DEF Shaped, Turns, Keeps, Still, InFlight
<1>3. ASSUME now' = now, NEW c \in Calls, NEW op \in Operations[scenario], NEW a \in Accounts, NEW u \in Usernames,
             Starts(c, op, a, u)
      PROVE  Shaped'
  BY <1>3, NextIs, Fielded DEF Shaped, Starts, Still
<1>. QED BY <1>1, <1>2, <1>3, NextIs, TurnsIs

\* Those that are alone after a step.
LEMMA AloneIs ==
  ASSUME Shaped, Apart, Next
  PROVE  /\ Tick => alone' = alone /\ call' = call
         /\ \A c \in Calls : Turns(c) => alone' = alone
         /\ \A c \in Calls : \A op, a, u : Starts(c, op, a, u) =>
              /\ alone' \subseteq alone \cup {c}
              /\ c \in alone' => \A d \in Calls : ~InFlight(d)
              /\ \A d \in alone' : d # c => d \in alone /\ ~InFlight(d)
              /\ \A d \in alone : ~InFlight(d) => d \in alone'
<1>. DEFINE begun == {c \in Calls : call[c].pc = "idle" /\ call'[c].pc # "idle"}
            inFlight == {c \in Calls : InFlight(c)}
<1>1. alone' = IF begun = {} THEN alone ELSE (alone \ inFlight) \cup (IF inFlight = {} THEN begun ELSE {})
  BY DEF Next
<1>2. Tick => begun = {} /\ call' = call
  BY DEF Tick
<1>3. ASSUME NEW c \in Calls, Turns(c) PROVE begun = {}
  BY <1>3 DEF Turns, Still, InFlight
<1>4. ASSUME NEW c \in Calls, NEW op, NEW a, NEW u, Starts(c, op, a, u) PROVE begun = {c}
  BY <1>4, Fielded DEF Starts, Still, Shaped
<1>5. inFlight \subseteq Calls /\ \A d \in Calls : d \in inFlight <=> InFlight(d)
  OBVIOUS
<1>6. alone \subseteq Calls
  BY DEF Apart
<1>. HIDE DEF begun, inFlight
<1>7. ASSUME NEW c \in Calls, NEW op, NEW a, NEW u, Starts(c, op, a, u)
      PROVE  /\ alone' \subseteq alone \cup {c}
             /\ c \in alone' => \A d \in Calls : ~InFlight(d)
             /\ \A d \in alone' : d # c => d \in alone /\ ~InFlight(d)
             /\ \A d \in alone : ~InFlight(d) => d \in alone'
  <2>1. alone' = (alone \ inFlight) \cup (IF inFlight = {} THEN {c} ELSE {})
    BY <1>1, <1>4, <1>7
  <2>2. c \notin alone
    BY <1>7 DEF Starts, Apart
  <2>. QED BY <1>5, <1>6, <2>1, <2>2
<1>8. ASSUME NEW c \in Calls, Turns(c) PROVE alone' = alone
  BY <1>1, <1>3, <1>8
<1>. QED BY <1>1, <1>2, <1>7, <1>8

LEMMA ApartNext ==
  ASSUME Shaped, Apart, Next
  PROVE  Apart' /\ \A op \in Operations[scenario] : Crossed(op) \subseteq Crossed(op)'
<1>1. CASE Tick
  BY <1>1, AloneIs, NextIs DEF Apart, Crossed, InFlight
<1>2. ASSUME NEW c \in Calls, Turns(c) PROVE Apart' /\ \A op \in Operations[scenario] : Crossed(op) \subseteq Crossed(op)'
  <2>1. alone' = alone
    BY <1>2, AloneIs
  <2>2. \A d \in Calls : call'[d].op = call[d].op /\ (InFlight(d)' => InFlight(d)) /\ (call[d].pc # "idle" => call'[d].pc # "idle")
    BY <1>2 DEF Turns, Still, InFlight, Keeps
  <2>. QED BY <2>1, <2>2 DEF Apart, Crossed
<1>3. ASSUME NEW c \in Calls, NEW op \in Operations[scenario], NEW a \in Accounts, NEW u \in Usernames,
             Starts(c, op, a, u)
      PROVE  Apart' /\ \A o \in Operations[scenario] : Crossed(o) \subseteq Crossed(o)'
  <2>1. /\ call'[c].pc = "sent" /\ \A d \in Calls : d # c => call'[d] = call[d]
        /\ call[c].op \notin Operations[scenario]
    BY <1>3, Fielded, OperationsAreNot DEF Starts, Still, Shaped
  <2>2. /\ alone' \subseteq alone \cup {c}
        /\ c \in alone' => \A d \in Calls : ~InFlight(d)
        /\ \A d \in alone' : d # c => d \in alone /\ ~InFlight(d)
    BY <1>3, AloneIs
  <2>3. \A d \in Calls : d # c => (InFlight(d)' <=> InFlight(d))
    BY <2>1 DEF InFlight
  <2>4. Apart'
    BY <2>1, <2>2, <2>3 DEF Apart
  <2>. QED BY <2>1, <2>2, <2>4 DEF Crossed
<1>. QED BY <1>1, <1>2, <1>3, NextIs, TurnsIs

-----------------------------------------------------------------------------
(* The invariants: what is known of each table. *)

\* What is written back: nothing of a thing that a call ended with no other under way.
Sole == {"artifact", "session", "client", "identity"}
Ended == /\ \E e \in alone : call[e].op \in Ends \cup (IF Sql THEN {"revoke"} ELSE {}) /\ call[e].pc \in {"clients", "done"}
         /\ \A m \in Calls : call[m].op \notin Makes
Holds(s) == call[s].op = "save" /\ call[s].pc \in {"list", "upsert"}
Gone ==
  /\ \A e \in Calls : call[e].op \in Ends => call[e].pc \notin {"list", "upsert"}
  /\ scenario \in Sole /\ Ended => Row = None /\ \A s \in Calls : ~Holds(s)
  /\ \A k \in Keys : k[1] \in Sole \cup {"grant"} /\ k[1] # scenario => store[k] = None
  /\ scenario = "grant" =>
       /\ \A c \in Calls : In(c, "consent", "upsert") => call[c].seen \in Keys /\ call[c].seen[1] = "grant"
       /\ (\A m \in Calls : call[m].op \notin Makes) => Granted = {}
       /\ Sql => \A k, l \in Granted : k = l

\* A session in a table: whoever writes the whole row back crossed whoever it writes over.
Session == [clients : SUBSET Calls]
SessionRow ==
  /\ Row \in Session \cup {None}
  /\ \A c \in Calls : In(c, "save", "upsert") => call[c].seen \in Session /\ (c \in alone => Row = call[c].seen)
  /\ \A c \in Calls : call[c].op \in {"addClient", "save"} /\ call[c].pc = "done" =>
       Row = None \/ c \in Row.clients \/ Crossed("save") # {}
  /\ \A c \in Calls : In(c, "end", "done") => Row = None \/ Crossed("save") # {}

\* A session under keys of its own and of its clients.
BothCrossed == Crossed("save") # {} /\ Crossed("end") # {}
SessionEntries ==
  /\ Row \in [value : SUBSET Calls, expires : {Kv!Forever}] \cup {None}
  /\ \A d \in Calls : store[<<"added", d>>] \in [value : {None}, expires : {Kv!Forever}] \cup {None}
  /\ \A s \in Calls : Holds(s) =>
       /\ call[s].seen \subseteq Calls
       /\ s \in alone \/ Crossed("end") = {} => Row # None
       /\ s \in alone => Row.value \subseteq call[s].seen
  /\ \A e \in Calls : call[e].op = "end" /\ call[e].pc \in {"clients", "done"} => Row = None \/ BothCrossed
  /\ \A c \in Calls : In(c, "addClient", "done") => Row = None \/ store[<<"added", c>>] # None \/ BothCrossed
  /\ \A c \in Calls : In(c, "save", "done") => Row = None \/ c \in Row.value \/ Crossed("save") # {}
  /\ \A c \in Calls : ~In(c, "addClient", "threw")

\* An artifact under keys of its own and of its grant's index.
RevokeCrossed == Crossed("revoke") # {} /\ Crossed("save") # {}
Indexed == store[<<"index">>] # None
ArtifactEntries ==
  /\ Row \in [value : KvArtifact, expires : Nat] \cup {None}
  /\ store[<<"index">>] \in [value : {None}, expires : Nat] \cup {None}
  /\ Row # None => Row.expires >= Expiry
  /\ Indexed => store[<<"index">>].expires >= Expiry
  /\ \A s \in Calls : call[s].op = "save" /\ call[s].pc \in {"upsert", "index"} =>
       call[s].seen \in KvArtifact /\ call[s].at \in Nat /\ call[s].at <= now
  /\ Row # None /\ now < Expiry => Indexed \/ RevokeCrossed
  /\ \A s \in Calls : In(s, "save", "upsert") => Indexed \/ RevokeCrossed
  /\ \A r \in Calls : In(r, "revoke", "entry") => Row = None \/ RevokeCrossed
  /\ \A r \in alone : In(r, "revoke", "done") =>
       RevokeCrossed \/ Expiry <= now \/ (Row = None /\ \A s \in Calls : ~In(s, "save", "upsert"))

\* Credentials in a table: what is written back is what is there, while none is destroyed.
Nobody(op) == \A e \in Calls : call[e].op # op
Credentials == [username : Usernames]
CredentialRows ==
  Nobody("destroy") =>
  /\ \A c \in Calls : In(c, "create", "done") /\ call[c].answer = TRUE =>
       Credential(call[c].account) # None /\ Credential(call[c].account).username = call[c].username
  /\ \A c, d \in Calls : /\ c # d /\ In(c, "create", "done") /\ call[c].answer = TRUE
                         /\ In(d, "create", "done") /\ call[d].answer = TRUE
                         => call[c].account # call[d].account /\ call[c].username # call[d].username
  /\ \A s \in Calls : In(s, "save", "upsert") => call[s].seen # None /\ Credential(call[s].account) = call[s].seen

\* Credentials under keys of their own, and their names.
CredentialEntry == [value : Credentials, expires : {Kv!Forever}]
NameEntry == [value : Accounts, expires : {Kv!Forever}]
Making(c) == call[c].op = "create" /\ call[c].pc \in {"insert", "undo"}
WasMade(c) == In(c, "create", "done") /\ call[c].answer = TRUE
Saving(s) == call[s].op = "save" /\ call[s].pc \in {"upsert", "name", "unname", "write"}
CredentialTypes ==
  /\ \A a \in Accounts : Credential(a) \in CredentialEntry \cup {None}
  /\ \A u \in Usernames : NameOf(u) \in NameEntry \cup {None}
  /\ \A s \in Calls : Saving(s) \/ In(s, "destroy", "name") => call[s].seen \in Credentials
\* The calls that claimed a name have it, each its own.
Owners ==
  Nobody("destroy") =>
  /\ \A c \in Calls : Making(c) \/ WasMade(c) => NameOf(call[c].username) # None
  /\ \A c, d \in Calls : c # d /\ (Making(c) \/ WasMade(c)) /\ (Making(d) \/ WasMade(d)) => call[c].username # call[d].username
  /\ \A c \in Calls : WasMade(c) => Credential(call[c].account) # None
  /\ \A c, d \in Calls : c # d /\ WasMade(c) /\ WasMade(d) => call[c].account # call[d].account
  /\ \A s \in Calls : Saving(s) => /\ call[s].pc \in {"upsert", "write"} /\ Credential(call[s].account) # None
                                   /\ Credential(call[s].account).value = call[s].seen
\* A name and the credential that has it, while no call died and every destruction was alone.
Orderly == (\A c \in Calls : call[c].pc # "dead") /\ \A c \in Calls \ alone : call[c].op # "destroy"
Resolving ==
  Orderly =>
  /\ \A u \in Usernames : NameOf(u) # None =>
       \/ Credential(NameOf(u).value) # None /\ Credential(NameOf(u).value).value.username = u
       \/ \E c \in Calls : Making(c) /\ call[c].account = NameOf(u).value /\ call[c].username = u
  /\ \A a \in Accounts : Credential(a) # None =>
       \/ NameOf(Credential(a).value.username) # None /\ NameOf(Credential(a).value.username).value = a
       \/ \E d \in Calls : In(d, "destroy", "credential") /\ call[d].account = a
  /\ \A c \in Calls : Making(c) =>
       /\ NameOf(call[c].username) # None /\ NameOf(call[c].username).value = call[c].account
       /\ \A d \in Calls : Making(d) /\ d # c => call[d].username # call[c].username
       /\ \A a \in Accounts : Credential(a) # None => Credential(a).value.username # call[c].username
  /\ \A s \in Calls : Saving(s) => /\ call[s].pc \in {"upsert", "write"} /\ Credential(call[s].account) # None
                                   /\ Credential(call[s].account).value = call[s].seen
  /\ \A d \in Calls : In(d, "destroy", "name") =>
       Credential(call[d].account) # None /\ Credential(call[d].account).value = call[d].seen
  /\ \A d \in Calls : In(d, "destroy", "credential") /\ Credential(call[d].account) # None =>
       NameOf(Credential(call[d].account).value.username) = None

\* A creation is answered with a yes or a no.
Answered == \A c \in Calls : In(c, "create", "done") => call[c].answer \in BOOLEAN

\* A client whose list was another's when it looked again tries once more for each call that has ended since.
Over(c) == {d \in Calls : d # c /\ call[d].pc = "done"}
Tries(c) ==
  /\ call[c].op = "addClient" /\ call[c].pc \in {"sent", "swap"} =>
       /\ call[c].tries \in Nat /\ call[c].tries <= Cardinality(Over(c))
       /\ call[c].pc = "swap" /\ ~(Row # None /\ Row.clients = call[c].seen) => call[c].tries + 1 <= Cardinality(Over(c))
  /\ ~In(c, "addClient", "threw")

KInv ==
  /\ Shaped /\ Apart /\ Gone
  /\ scenario = "session" => IF Sql THEN SessionRow ELSE SessionEntries
  /\ scenario = "artifact" /\ ~Sql => ArtifactEntries
  /\ scenario = "credential" =>
       /\ Answered
       /\ IF Sql THEN CredentialRows ELSE CredentialTypes /\ Owners /\ Resolving

-----------------------------------------------------------------------------
(* What is gone stays gone. *)

LEMMA StepsAre ==
  ASSUME Shaped, NEW c \in Calls, Does(c)
  PROVE  /\ scenario = "artifact" => IF Sql THEN TablesArtifact(c) ELSE EntriesArtifact(c)
         /\ scenario = "session" => IF Sql THEN TablesSession(c) ELSE EntriesSession(c)
         /\ scenario = "credential" => IF Sql THEN TablesCredential(c) ELSE EntriesCredential(c)
         /\ scenario = "grant" => IF Sql THEN TablesGrant(c) ELSE EntriesGrant(c)
         /\ scenario \in {"client", "identity"} => RowStep(c)
         /\ scenario \in {"claim", "realm"} => Aside(c)
BY TablesSteps, EntriesSteps DEF Does

\* The row of a table, after a step.
LEMMA RowKept ==
  ASSUME Shaped, scenario' = scenario, scenario \in Sole \cup {"claim", "realm"}
  PROVE  /\ \A row : Puts(row) => Row' = row
         /\ store' = store => Row' = Row
         /\ \A d, row : PutsAt(<<"added", d>>, row) => Row' = Row
         /\ \A d, v : Sets(<<"added", d>>, v) => Row' = Row
         /\ \A row : PutsAt(<<"index">>, row) => Row' = Row
         /\ \A row : PutsAt(<<"consumed">>, row) => Row' = Row
         /\ \A v, t : SetsFor(<<"index">>, v, t) => Row' = Row
<1>1. <<scenario>> \in Keys
  BY DEF Keys, Sole
<1>. QED BY <1>1 DEF Shaped, Puts, PutsAt, Sets, SetsFor, Row, Sole

\* What a step does to the one row, as far as ends and those who hold a copy go.
RowMoves(c) ==
  /\ Row = None /\ ~(call[c].op \in {"save"} \cup Makes /\ call[c].pc \in {"list", "upsert"}) => Row' = None
  /\ Holds(c)' => Row # None \/ Holds(c)
  /\ call[c].op \in Ends \cup (IF Sql THEN {"revoke"} ELSE {}) /\ call'[c].pc \in {"clients", "done"} =>
       Row' = None \/ call[c].pc = "clients"
  /\ call[c].op \in Ends => call'[c].pc \notin {"list", "upsert"}

LEMMA RowMovesIs ==
  ASSUME Shaped, Gone, NEW c \in Calls, Does(c), scenario' = scenario, scenario \in Sole
  PROVE  RowMoves(c)
<1>. USE StepsAre, RowKept, Fielded DEF RowMoves, Holds, Is, In, Ends, Makes
<1>1. CASE scenario = "artifact" /\ Sql
  BY <1>1 DEF TablesArtifact, Shaped
<1>2. CASE scenario = "artifact" /\ ~Sql
  BY <1>2 DEF EntriesArtifact, Shaped, Row
<1>3. CASE scenario = "session" /\ Sql
  BY <1>3 DEF TablesSession, Shaped
<1>4. CASE scenario = "session" /\ ~Sql
  <2>1. EntriesSession(c)
    BY <1>4
  <2>2. CASE In(c, "addClient", "sent") /\ store' = store /\ IF Held(<<"session">>) THEN GoesOn(c, "add", None) ELSE Told(c, None)
    BY <1>4, <2>2 DEF Shaped
  <2>3. CASE In(c, "addClient", "add") /\ Sets(<<"added", c>>, None) /\ Told(c, None)
    BY <1>4, <2>3 DEF Shaped
  <2>4. CASE In(c, "save", "sent") /\ store' = store /\ IF Held(<<"session">>) THEN GoesOn(c, "list", Row.value) ELSE Told(c, None)
    BY <1>4, <2>4 DEF Shaped, Held, Had, Row
  <2>5. CASE In(c, "save", "list") /\ store' = store /\ GoesOn(c, "upsert", call[c].seen \cup Added)
    BY <1>4, <2>5 DEF Shaped
  <2>6. CASE In(c, "save", "upsert") /\ Sets(<<"session">>, call[c].seen \cup {c}) /\ Told(c, None)
    BY <1>4, <2>6 DEF Shaped
  <2>7. CASE In(c, "end", "sent") /\ Puts(None) /\ GoesOn(c, "clients", None)
    BY <1>4, <2>7 DEF Shaped
  <2>8. CASE In(c, "end", "clients") /\ (\E d \in Calls : PutsAt(<<"added", d>>, None)) /\ call' = call
    BY <1>4, <2>8 DEF Shaped
  <2>9. CASE In(c, "end", "clients") /\ store' = store /\ Told(c, None)
    BY <1>4, <2>9 DEF Shaped
  <2>. QED BY <2>1, <2>2, <2>3, <2>4, <2>5, <2>6, <2>7, <2>8, <2>9 DEF EntriesSession
<1>5. CASE scenario \in {"client", "identity"}
  <2>1. RowStep(c) /\ call[c].op \in {"create", "save", "destroy", "link", "unlink"} \cup (IF call[c].pc = "idle" THEN {None} ELSE {})
    BY <1>5, OperationsAre DEF Shaped
  <2>2. CASE /\ call[c].op \in {"create", "save", "link"} /\ call[c].pc = "sent" /\ store' = store
             /\ (call[c].op = "save" => Row # None) /\ \E row : GoesOn(c, "upsert", row)
    BY <1>5, <2>2 DEF Shaped
  <2>3. CASE call[c].op \in {"create", "save", "link"} /\ call[c].pc = "sent" /\ store' = store /\ (Told(c, None) \/ Fails(c, "threw"))
    BY <1>5, <2>3 DEF Shaped
  <2>4. CASE call[c].pc = "upsert" /\ (\E row : Puts(row)) /\ Told(c, None)
    <3>1. call[c].op \in {"create", "save", "link"}
      BY <2>1, <2>4 DEF Gone
    <3>. QED BY <1>5, <2>4, <3>1 DEF Shaped
  <2>5. CASE call[c].op \in Ends /\ call[c].pc = "sent" /\ Puts(None) /\ Told(c, None)
    BY <1>5, <2>5 DEF Shaped
  <2>. QED BY <2>1, <2>2, <2>3, <2>4, <2>5 DEF RowStep
<1>. QED BY <1>1, <1>2, <1>3, <1>4, <1>5 DEF Sole

\* What is of another table, or of a grant, is not touched.
LEMMA Elsewhere ==
  ASSUME Shaped, Gone, NEW c \in Calls, Does(c), NEW k \in Keys, k[1] \in Sole \cup {"grant"}, k[1] # scenario
  PROVE  store'[k] = None
<1>1. store[k] = None
  BY DEF Gone
<1>2. k # <<scenario>>
  OBVIOUS
<1>3. \A a, b : k # <<"added", a>> /\ k # <<"credential", a>> /\ k # <<"username", a>> /\ k # <<"index">> /\ k # <<"consumed">>
  BY DEF Sole
<1>4. /\ \A row : Puts(row) => store'[k] = None
      /\ store' = store => store'[k] = None
      /\ \A a, row : PutsAt(<<"added", a>>, row) \/ PutsAt(<<"credential", a>>, row) \/ PutsAt(<<"username", a>>, row) => store'[k] = None
      /\ \A a, row : Sets(<<"added", a>>, row) \/ Sets(<<"credential", a>>, row) \/ Sets(<<"username", a>>, row) => store'[k] = None
      /\ \A row : PutsAt(<<"index">>, row) \/ PutsAt(<<"consumed">>, row) => store'[k] = None
      /\ \A v, t : SetsFor(<<"index">>, v, t) => store'[k] = None
  BY <1>1, <1>2, <1>3 DEF Shaped, Puts, PutsAt, Sets, SetsFor
<1>. USE <1>1, <1>2, <1>3, <1>4, StepsAre
<1>5. CASE scenario = "artifact"
  <2>1. \A v, t : SetsFor(<<"artifact">>, v, t) => store'[k] = None
    BY <1>5 DEF SetsFor, Shaped
  <2>2. CASE Sql
    BY <1>5, <2>2 DEF TablesArtifact
  <2>3. CASE ~Sql
    BY <1>5, <2>1, <2>3 DEF EntriesArtifact
  <2>. QED BY <2>2, <2>3
<1>6. CASE scenario = "session"
  <2>1. \A v : Sets(<<"session">>, v) => store'[k] = None
    BY <1>6 DEF Sets, Shaped
  <2>2. CASE Sql
    BY <1>6, <2>2 DEF TablesSession
  <2>3. CASE ~Sql
    BY <1>6, <2>1, <2>3 DEF EntriesSession
  <2>. QED BY <2>2, <2>3
<1>7. CASE scenario = "credential"
  <2>2. CASE Sql
    BY <1>7, <2>2 DEF TablesCredential
  <2>3. CASE ~Sql
    BY <1>7, <2>3 DEF EntriesCredential
  <2>. QED BY <2>2, <2>3
<1>8. CASE scenario = "grant"
  <2>1. \A s : PutsAt(s, None) => store'[k] = None
    BY DEF PutsAt, Shaped
  <2>2. \A row : In(c, "consent", "upsert") /\ PutsAt(call[c].seen, row) => store'[k] = None
    BY <1>8 DEF Gone, PutsAt, Shaped
  <2>3. CASE Sql
    BY <1>8, <2>1, <2>2, <2>3 DEF TablesGrant
  <2>4. CASE ~Sql
    BY <1>8, <2>1, <2>2, <2>4 DEF EntriesGrant
  <2>. QED BY <2>3, <2>4
<1>9. CASE scenario \in {"client", "identity"}
  BY <1>9 DEF RowStep
<1>10. CASE scenario \in {"claim", "realm"}
  BY <1>10 DEF Aside
<1>. QED BY <1>5, <1>6, <1>7, <1>8, <1>9, <1>10 DEF Shaped

\* A call that ends something holds no copy.
LEMMA EndsHoldNothing ==
  ASSUME Shaped, Gone, NEW c \in Calls, Does(c), scenario' = scenario, call[c].op \in Ends
  PROVE  call'[c].pc \notin {"list", "upsert"}
<1>1. CASE scenario \in Sole
  BY <1>1, RowMovesIs DEF RowMoves
<1>. USE StepsAre, Fielded DEF Ends, Is, In, Shaped
<1>2. CASE scenario = "credential"
  <2>1. CASE Sql
    BY <1>2, <2>1 DEF TablesCredential
  <2>2. CASE ~Sql
    <3>1. call[c].op \in {"create", "save", "destroy"} \/ call[c].pc = "idle"
      BY <1>2, OperationsAre
    <3>2. EntriesCredential(c) /\ call[c].op \notin {"create", "save"}
      BY <1>2, <2>2
    <3>3. \/ In(c, "destroy", "sent") /\ ((\E v : GoesOn(c, "name", v)) \/ GoesOn(c, "credential", None))
          \/ In(c, "destroy", "name") /\ GoesOn(c, "credential", None)
          \/ In(c, "destroy", "credential") /\ Told(c, None)
      BY <3>2 DEF EntriesCredential
    <3>. QED BY <3>3
  <2>. QED BY <2>1, <2>2
<1>3. CASE scenario = "grant"
  <2>1. CASE Sql
    BY <1>3, <2>1 DEF TablesGrant
  <2>2. CASE ~Sql
    BY <1>3, <2>2 DEF EntriesGrant
  <2>. QED BY <2>1, <2>2
<1>4. CASE scenario \in {"claim", "realm"}
  BY <1>4 DEF Aside
<1>. QED BY <1>1, <1>2, <1>3, <1>4 DEF Sole

\* The grants after a step: in a table there is one.
Grants ==
  /\ \A c \in Calls : In(c, "consent", "upsert") => call[c].seen \in Keys /\ call[c].seen[1] = "grant"
  /\ (\A m \in Calls : call[m].op \notin Makes) => Granted = {}
  /\ Sql => \A k, l \in Granted : k = l

LEMMA GrantedIs ==
  ASSUME Shaped, NEW s, NEW row
  PROVE  /\ store' = store => Granted' = Granted
         /\ PutsAt(s, None) => Granted' \subseteq Granted
         /\ PutsAt(s, row) => Granted' \subseteq Granted \cup {s}
BY DEF Shaped, Granted, PutsAt

LEMMA GrantsNext ==
  ASSUME Shaped, Grants, NEW c \in Calls, Does(c), scenario = "grant", scenario' = scenario, Sql' <=> Sql
  PROVE  Grants'
<1>1. Turns(c) /\ IF Sql THEN TablesGrant(c) ELSE EntriesGrant(c)
  BY TurnsIs, StepsAre
<1>2. \A d \in Calls : call'[d].op = call[d].op /\ (d # c => call'[d] = call[d])
  BY <1>1 DEF Turns, Keeps, Still
<1>3. \A k \in Granted \cup {<<"grant", c>>} : k \in Keys /\ k[1] = "grant"
  BY DEF Granted, Keys
<1>4. ASSUME store' = store, \E k \in Granted \cup {<<"grant", c>>} : GoesOn(c, "upsert", k) PROVE Grants'
  BY <1>2, <1>3, <1>4, GrantedIs, Fielded DEF Grants, Is, In, Shaped
<1>5. ASSUME In(c, "consent", "upsert"), Sql => Granted \subseteq {call[c].seen}, \E row : PutsAt(call[c].seen, row), Told(c, None)
      PROVE  Grants'
  <2>1. call'[c].pc = "done"
    BY <1>5, Fielded DEF Is, Shaped
  <2>2. Granted' \subseteq Granted \cup {call[c].seen}
    BY <1>5, GrantedIs
  <2>3. call'[c].op \in Makes
    BY <1>2, <1>5 DEF In, Makes
  <2>. QED BY <1>2, <1>5, <2>1, <2>2, <2>3 DEF Grants, In
<1>6. ASSUME store' = store, call'[c].pc # "upsert" PROVE Grants'
  BY <1>2, <1>6, GrantedIs DEF Grants, In
<1>7. ASSUME \E s : PutsAt(s, None), call'[c].pc # "upsert" PROVE Grants'
  <2>1. Granted' \subseteq Granted
    BY <1>7, GrantedIs
  <2>. QED BY <1>2, <1>7, <2>1 DEF Grants, In
<1>8. Told(c, None) \/ Fails(c, "threw") \/ (\E k : GoesOn(c, "destroy", k)) => call'[c].pc # "upsert"
  BY Fielded DEF Is, Shaped
<1>9. CASE Sql
  BY <1>1, <1>4, <1>5, <1>6, <1>7, <1>8, <1>9 DEF TablesGrant
<1>10. CASE ~Sql
  BY <1>1, <1>4, <1>5, <1>6, <1>7, <1>8, <1>10 DEF EntriesGrant
<1>. QED BY <1>9, <1>10

LEMMA GoneNext ==
  ASSUME Shaped, Apart, Gone, Next
  PROVE  Gone'
<1>. USE NextIs
<1>1. CASE Tick
  <2>1. call' = call /\ store' = store /\ alone' = alone /\ scenario' = scenario
    BY <1>1, AloneIs DEF Tick
  <2>. QED BY <2>1 DEF Gone, Ended, Row, Holds, Granted, In
<1>2. ASSUME NEW c \in Calls, Does(c) PROVE Gone'
  <2>1. Turns(c) /\ alone' = alone
    BY <1>2, TurnsIs, AloneIs
  <2>2. \A d \in Calls : call'[d].op = call[d].op /\ (d # c => call'[d] = call[d])
    BY <2>1 DEF Turns, Keeps, Still
  <2>3. \A e \in Calls : call'[e].op \in Ends => call'[e].pc \notin {"list", "upsert"}
    BY <1>2, <2>2, EndsHoldNothing DEF Gone
  <2>4. ASSUME scenario \in Sole, Ended' PROVE Row' = None /\ \A s \in Calls : ~Holds(s)'
    <3>1. RowMoves(c)
      BY <1>2, <2>4, RowMovesIs
    <3>2. \A m \in Calls : call[m].op \notin Makes
      BY <2>2, <2>4 DEF Ended
    <3>3. CASE Ended
      <4>1. Row = None /\ \A s \in Calls : ~Holds(s)
        BY <2>4, <3>3 DEF Gone
      <4>2. Row' = None
        BY <3>1, <3>2, <4>1 DEF RowMoves, Holds
      <4>3. ~Holds(c)'
        BY <3>1, <4>1 DEF RowMoves
      <4>. QED BY <2>2, <4>1, <4>2, <4>3 DEF Holds
    <3>4. CASE ~Ended
      <4>1. PICK e \in alone : /\ call'[e].op \in Ends \cup (IF Sql THEN {"revoke"} ELSE {}) /\ call'[e].pc \in {"clients", "done"}
        BY <2>1, <2>4 DEF Ended
      <4>2. e = c
        BY <2>2, <3>2, <3>4, <4>1 DEF Ended, Apart
      <4>3. call[c].pc # "clients"
        BY <2>2, <3>2, <3>4, <4>1, <4>2 DEF Ended
      <4>4. Row' = None
        BY <2>2, <3>1, <4>1, <4>2, <4>3 DEF RowMoves
      <4>5. \A s \in Calls : s # c => ~InFlight(s)
        BY <2>1, <4>1, <4>2 DEF Apart, Turns
      <4>6. \A s \in Calls : s # c => ~Holds(s)'
        BY <2>2, <4>5 DEF Holds, InFlight
      <4>7. ~Holds(c)'
        BY <4>1, <4>2 DEF Holds
      <4>. QED BY <4>4, <4>6, <4>7
    <3>. QED BY <3>3, <3>4
  <2>5. \A k \in Keys : k[1] \in Sole \cup {"grant"} /\ k[1] # scenario => store'[k] = None
    BY <1>2, Elsewhere
  <2>6. scenario = "grant" => Grants'
    BY <1>2, GrantsNext DEF Gone, Grants
  <2>. QED BY <2>3, <2>4, <2>5, <2>6 DEF Gone, Grants
<1>3. ASSUME NEW c \in Calls, Dies(c) PROVE Gone'
  <2>1. Turns(c) /\ alone' = alone /\ store' = store /\ call'[c].pc = "dead"
    BY <1>3, TurnsIs, AloneIs, Fielded DEF Dies, Is, Shaped
  <2>2. \A d \in Calls : call'[d].op = call[d].op /\ (d # c => call'[d] = call[d])
    BY <2>1 DEF Turns, Keeps, Still
  <2>3. Row' = Row /\ Granted' = Granted
    BY <2>1 DEF Row, Granted
  <2>4. Ended' => Ended
    BY <2>1, <2>2 DEF Ended, Apart
  <2>. QED BY <2>1, <2>2, <2>3, <2>4 DEF Gone, Holds, In
<1>4. ASSUME NEW c \in Calls, NEW op \in Operations[scenario], NEW a \in Accounts, NEW u \in Usernames, Starts(c, op, a, u)
      PROVE  Gone'
  <2>1. /\ call'[c].pc = "sent" /\ \A d \in Calls : d # c => call'[d] = call[d]
        /\ call[c].op = None /\ store' = store
    BY <1>4, Fielded DEF Starts, Still, Shaped
  <2>2. None \notin Makes
    BY NoneAssumption, TableAssumption DEF Makes
  <2>3. Row' = Row /\ Granted' = Granted
    BY <2>1 DEF Row, Granted
  <2>4. \A d \in alone' : d # c => d \in alone
    BY <1>4, AloneIs
  <2>5. (\A m \in Calls : call'[m].op \notin Makes) => \A m \in Calls : call[m].op \notin Makes
    BY <2>1, <2>2
  <2>6. Ended' => Ended
    <3>1. SUFFICES ASSUME Ended' PROVE Ended
      OBVIOUS
    <3>2. PICK e \in alone' : /\ call'[e].op \in Ends \cup (IF Sql THEN {"revoke"} ELSE {}) /\ call'[e].pc \in {"clients", "done"}
      BY <3>1 DEF Ended
    <3>3. e # c
      BY <2>1, <3>2
    <3>4. e \in alone /\ call'[e] = call[e]
      BY <2>1, <2>4, <3>3 DEF Apart
    <3>. QED BY <2>5, <3>1, <3>2, <3>4 DEF Ended
  <2>. QED BY <2>1, <2>3, <2>5, <2>6 DEF Gone, Holds, In
<1>. QED BY <1>1, <1>2, <1>3, <1>4

-----------------------------------------------------------------------------
(* A session's row. *)

\* What is so of all the calls but one, after a step of that one.
LEMMA Others ==
  ASSUME Shaped, NEW c \in Calls, Turns(c)
  PROVE  /\ \A d \in Calls : call'[d].op = call[d].op /\ call'[d].account = call[d].account /\ (d # c => call'[d] = call[d])
         /\ InFlight(c) /\ \A d \in alone : InFlight(d) => d = c \/ ~Apart
BY DEF Turns, Keeps, Still, Apart

\* None is not a session.
LEMMA SessionsAreNot == None \notin Session
BY TableAssumption DEF Session

LEMMA SessionRowStep ==
  ASSUME Shaped, Apart, SessionRow, NEW c \in Calls, TablesSession(c), Turns(c), alone' = alone,
         scenario = "session", scenario' = scenario, Crossed("save") \subseteq Crossed("save")'
  PROVE  SessionRow'
<1>1. /\ \A d \in Calls : call'[d].op = call[d].op /\ (d # c => call'[d] = call[d])
      /\ \A d \in alone : InFlight(d) => d = c
  BY Others
<1>2. Crossed("save") # {} => Crossed("save")' # {}
  OBVIOUS
<1>3. \A d \in Calls : In(d, "save", "upsert") => InFlight(d)
  BY DEF In, InFlight
<1>. USE Fielded, RowKept, <1>1, <1>2 DEF Shaped, Is, In, Sole
<1>4. CASE In(c, "addClient", "sent") /\ store' = store /\ (Row = None \/ (Row # None /\ c \in Row.clients)) /\ Told(c, None)
  BY <1>4 DEF SessionRow
<1>5. CASE In(c, "addClient", "sent") /\ store' = store /\ Row # None /\ GoesOn(c, "swap", Row.clients)
  BY <1>5 DEF SessionRow
<1>6. CASE /\ In(c, "addClient", "swap") /\ Row # None /\ Row.clients = call[c].seen
           /\ Puts([Row EXCEPT !.clients = @ \cup {c}]) /\ Told(c, None)
  <2>1. Row \in Session /\ Row' = [Row EXCEPT !.clients = @ \cup {c}]
    BY <1>6 DEF SessionRow
  <2>2. Row' \in Session /\ c \in Row'.clients /\ Row.clients \subseteq Row'.clients
    BY <2>1 DEF Session
  <2>3. \A d \in Calls : call'[d].op = "save" /\ call'[d].pc = "upsert" => In(d, "save", "upsert") /\ d \notin alone /\ call'[d] = call[d]
    BY <1>3, <1>6
  <2>4. \A d \in Calls : d # c /\ call'[d].op \in {"addClient", "save"} /\ call'[d].pc = "done" => d \in Row.clients \/ Crossed("save") # {}
    BY <1>6 DEF SessionRow
  <2>5. \A d \in Calls : call'[d].op = "end" /\ call'[d].pc = "done" => Crossed("save") # {}
    BY <1>6 DEF SessionRow
  <2>6. \A d \in Calls : In(d, "save", "upsert") => call[d].seen \in Session
    BY DEF SessionRow
  <2>7. \A d \in Calls : d # c /\ call'[d].op \in {"addClient", "save"} /\ call'[d].pc = "done" => d \in Row'.clients \/ Crossed("save")' # {}
    BY <2>2, <2>4
  <2>8. \A d \in Calls : call'[d].op = "save" /\ call'[d].pc = "upsert" => call'[d].seen \in Session /\ d \notin alone
    BY <2>3, <2>6
  <2>9. \A d \in Calls : call'[d].op \in {"addClient", "save"} /\ call'[d].pc = "done" => d \in Row'.clients \/ Crossed("save")' # {}
    BY <2>2, <2>7
  <2>10. \A d \in Calls : call'[d].op = "end" /\ call'[d].pc = "done" => Crossed("save")' # {}
    BY <2>5
  <2>. QED BY <2>2, <2>8, <2>9, <2>10 DEF SessionRow
<1>7. CASE /\ In(c, "addClient", "swap") /\ ~(Row # None /\ Row.clients = call[c].seen) /\ store' = store
           /\ IF call[c].tries + 1 = Attempts THEN Fails(c, "threw") ELSE Retries(c)
  BY <1>7 DEF SessionRow
<1>8. CASE In(c, "save", "sent") /\ store' = store /\ Row # None /\ GoesOn(c, "upsert", Row)
  BY <1>8 DEF SessionRow
<1>9. CASE In(c, "save", "sent") /\ store' = store /\ Row = None /\ Told(c, None)
  BY <1>9 DEF SessionRow
<1>10. CASE In(c, "save", "upsert") /\ Puts([call[c].seen EXCEPT !.clients = @ \cup {c}]) /\ Told(c, None)
  <2>1. call[c].seen \in Session /\ (c \in alone => Row = call[c].seen)
    BY <1>10 DEF SessionRow
  <2>2. Row' = [call[c].seen EXCEPT !.clients = @ \cup {c}] /\ Row' \in Session /\ c \in Row'.clients
    BY <1>10, <2>1 DEF Session
  <2>3. \A d \in Calls : call'[d].op = "save" /\ call'[d].pc = "upsert" => In(d, "save", "upsert") /\ d \notin alone /\ call'[d] = call[d]
    BY <1>3, <1>10
  <2>4. c \notin alone => Crossed("save") # {}
    BY <1>10 DEF Crossed
  <2>5. c \in alone => Row # None /\ Row.clients \subseteq Row'.clients
    BY <2>1, <2>2, SessionsAreNot DEF Session
  <2>6. \A d \in Calls : call'[d].op = "end" /\ call'[d].pc = "done" => Crossed("save") # {}
    BY <1>10, <2>4, <2>5 DEF SessionRow
  <2>7. \A d \in Calls : call'[d].op \in {"addClient", "save"} /\ call'[d].pc = "done" => d \in Row'.clients \/ Crossed("save") # {}
    BY <1>10, <2>2, <2>4, <2>5 DEF SessionRow
  <2>8. \A d \in Calls : In(d, "save", "upsert") => call[d].seen \in Session
    BY DEF SessionRow
  <2>9. \A d \in Calls : call'[d].op = "save" /\ call'[d].pc = "upsert" => call'[d].seen \in Session /\ d \notin alone
    BY <2>3, <2>8
  <2>. QED BY <2>2, <2>6, <2>7, <2>9 DEF SessionRow
<1>11. CASE In(c, "end", "sent") /\ Puts(None) /\ Told(c, None)
  <2>1. Row' = None
    BY <1>11
  <2>2. \A d \in Calls : call'[d].op = "save" /\ call'[d].pc = "upsert" => In(d, "save", "upsert") /\ d \notin alone /\ call'[d] = call[d]
    BY <1>3, <1>11
  <2>. QED BY <2>1, <2>2 DEF SessionRow
<1>. QED BY <1>4, <1>5, <1>6, <1>7, <1>8, <1>9, <1>10, <1>11 DEF TablesSession

LEMMA SessionRowNext ==
  ASSUME Shaped, Apart, SessionRow, Next, scenario = "session", Sql
  PROVE  SessionRow'
<1>1. scenario' = scenario /\ Crossed("save") \subseteq Crossed("save")'
  BY NextIs, ApartNext, OperationsAre
<1>2. ~Tick
  BY DEF Tick
<1>3. ASSUME NEW c \in Calls, Does(c) PROVE SessionRow'
  BY <1>1, <1>3, TurnsIs, AloneIs, StepsAre, SessionRowStep
<1>4. ASSUME NEW c \in Calls, Dies(c) PROVE SessionRow'
  <2>1. Turns(c) /\ alone' = alone /\ store' = store /\ call'[c].pc = "dead"
    BY <1>4, TurnsIs, AloneIs, Fielded DEF Dies, Is, Shaped
  <2>. QED BY <1>1, <2>1, Others DEF SessionRow, In, Row
<1>5. ASSUME NEW c \in Calls, NEW op \in Operations[scenario], NEW a \in Accounts, NEW u \in Usernames, Starts(c, op, a, u)
      PROVE  SessionRow'
  <2>1. /\ call'[c].pc = "sent" /\ \A d \in Calls : d # c => call'[d] = call[d]
        /\ store' = store /\ \A d \in alone' : d # c => d \in alone
    BY <1>5, Fielded, AloneIs DEF Starts, Still, Shaped
  <2>. QED BY <1>1, <2>1 DEF SessionRow, In, Row
<1>. QED BY <1>2, <1>3, <1>4, <1>5, NextIs

-----------------------------------------------------------------------------
(* A session under its keys. *)

SessionEntry == [value : SUBSET Calls, expires : {Kv!Forever}]
AddedEntry == [value : {None}, expires : {Kv!Forever}]

\* What is kept forever is held.
LEMMA ForeverIsLong == ASSUME Shaped PROVE Kv!Forever \in Nat /\ Kv!Forever > now
BY AdapterAssumption DEF Shaped, Kv!Forever, Kv!Second

LEMMA EntriesAreNot == None \notin SessionEntry /\ None \notin AddedEntry
<1>1. Kv!Forever \in Nat
  BY AdapterAssumption DEF Kv!Forever, Kv!Second
<1>2. None \notin [value : SUBSET Calls, expires : Nat] /\ None \notin [value : {None} \cup Calls \cup [expires : Nat], expires : Nat]
  BY TableAssumption, NoneAssumption
<1>. QED BY <1>1, <1>2 DEF SessionEntry, AddedEntry

LEMMA SessionHeld ==
  ASSUME Shaped, scenario = "session", Row \in SessionEntry \cup {None}
  PROVE  Held(<<"session">>) <=> Row # None
BY ForeverIsLong DEF Held, Had, Row, SessionEntry

\* The keys of a session, after a step.
LEMMA AddedKept ==
  ASSUME Shaped, scenario = "session", scenario' = scenario, NEW d \in Calls
  PROVE  /\ store' = store \/ Puts(None) => store'[<<"added", d>>] = store[<<"added", d>>]
         /\ \A e \in Calls : \A row : PutsAt(<<"added", e>>, row) =>
              store'[<<"added", d>>] = IF d = e THEN row ELSE store[<<"added", d>>]
         /\ \A e \in Calls : \A v : Sets(<<"added", e>>, v) =>
              store'[<<"added", d>>] = IF d = e THEN [value |-> v, expires |-> Kv!Forever] ELSE store[<<"added", d>>]
         /\ \A v : Sets(<<"session">>, v) =>
              store'[<<"added", d>>] = store[<<"added", d>>] /\ Row' = [value |-> v, expires |-> Kv!Forever]
<1>1. <<"added", d>> \in Keys /\ <<"session">> \in Keys /\ <<"session">> # <<"added", d>>
  BY DEF Keys
<1>2. \A e \in Calls : <<"added", d>> = <<"added", e>> <=> d = e
  OBVIOUS
<1>. QED BY <1>1, <1>2 DEF Shaped, Puts, PutsAt, Sets, Row

LEMMA SessionEntriesStep ==
  ASSUME Shaped, Apart, SessionEntries, NEW c \in Calls, EntriesSession(c), Turns(c), alone' = alone,
         scenario = "session", scenario' = scenario,
         Crossed("save") \subseteq Crossed("save")', Crossed("end") \subseteq Crossed("end")'
  PROVE  SessionEntries'
<1>. DEFINE OwnEntries ==
              /\ Row \in SessionEntry \cup {None}
              /\ \A d \in Calls : store[<<"added", d>>] \in AddedEntry \cup {None}
            Hold(s) == Holds(s) =>
              /\ call[s].seen \subseteq Calls
              /\ s \in alone \/ Crossed("end") = {} => Row # None
              /\ s \in alone => Row.value \subseteq call[s].seen
            Emptied(e) == call[e].op = "end" /\ call[e].pc \in {"clients", "done"} => Row = None \/ BothCrossed
            Adds(d) == In(d, "addClient", "done") => Row = None \/ store[<<"added", d>>] # None \/ BothCrossed
            Saves(d) == In(d, "save", "done") => Row = None \/ d \in Row.value \/ Crossed("save") # {}
            Threw(d) == ~In(d, "addClient", "threw")
            All(d) == Hold(d) /\ Emptied(d) /\ Adds(d) /\ Saves(d) /\ Threw(d)
<1>0. OwnEntries /\ \A d \in Calls : All(d)
  BY DEF SessionEntries, SessionEntry, AddedEntry
<1>1. /\ \A d \in Calls : call'[d].op = call[d].op /\ (d # c => call'[d] = call[d])
      /\ \A d \in alone : InFlight(d) => d = c
      /\ InFlight(c)
  BY Others
<1>2. /\ Crossed("save") # {} => Crossed("save")' # {}
      /\ Crossed("end") # {} => Crossed("end")' # {}
      /\ BothCrossed => BothCrossed'
      /\ c \notin alone /\ call[c].op = "save" => Crossed("save") # {}
      /\ c \notin alone /\ call[c].op = "end" => Crossed("end") # {}
  BY DEF BothCrossed, Crossed
<1>3. \A d \in Calls : Holds(d) => InFlight(d)
  BY DEF Holds, InFlight
<1>4. SUFFICES OwnEntries' /\ \A d \in Calls : All(d)'
  BY DEF SessionEntries, SessionEntry, AddedEntry
\* Where the row stands, so does what is known of the others.
<1>5. ASSUME Row' = Row, \A d \in Calls : store'[<<"added", d>>] = store[<<"added", d>>] \/ store'[<<"added", d>>] \in AddedEntry
      PROVE  OwnEntries' /\ \A d \in Calls : d # c => All(d)'
  <2>1. OwnEntries'
    BY <1>0, <1>5
  <2>2. \A d \in Calls : store[<<"added", d>>] # None => store'[<<"added", d>>] # None
    BY <1>5, EntriesAreNot
  <2>3. ASSUME NEW d \in Calls, d # c PROVE All(d)'
    <3>1. All(d) /\ call'[d] = call[d]
      BY <1>0, <1>1, <2>3
    <3>2. Hold(d)'
      BY <1>2, <1>5, <3>1 DEF Holds
    <3>3. Emptied(d)' /\ Adds(d)' /\ Saves(d)' /\ Threw(d)'
      BY <1>2, <1>5, <2>2, <3>1 DEF In
    <3>. QED BY <3>2, <3>3
  <2>. QED BY <2>1, <2>3
<1>6. ASSUME store' = store PROVE Row' = Row /\ \A d \in Calls : store'[<<"added", d>>] = store[<<"added", d>>]
  BY <1>6 DEF Row
<1>7. CASE In(c, "addClient", "sent") /\ store' = store /\ IF Held(<<"session">>) THEN GoesOn(c, "add", None) ELSE Told(c, None)
  <2>1. Held(<<"session">>) <=> Row # None
    BY <1>0, SessionHeld
  <2>2. call'[c].op = "addClient" /\ (call'[c].pc = "add" \/ (call'[c].pc = "done" /\ Row = None))
    BY <1>7, <2>1, Fielded DEF Is, In, Shaped
  <2>3. All(c)'
    BY <1>6, <1>7, <2>2 DEF Holds, In
  <2>. QED BY <1>5, <1>6, <1>7, <2>3
<1>8. CASE In(c, "addClient", "add") /\ Sets(<<"added", c>>, None) /\ Told(c, None)
  <2>1. /\ Row' = Row
        /\ \A d \in Calls : store'[<<"added", d>>] = IF d = c THEN [value |-> None, expires |-> Kv!Forever] ELSE store[<<"added", d>>]
    BY <1>8, RowKept, AddedKept DEF Sole
  <2>2. [value |-> None, expires |-> Kv!Forever] \in AddedEntry
    BY DEF AddedEntry
  <2>3. call'[c].op = "addClient" /\ call'[c].pc = "done"
    BY <1>8, Fielded DEF Is, In, Shaped
  <2>4. All(c)'
    BY <2>1, <2>2, <2>3, EntriesAreNot DEF Holds, In
  <2>. QED BY <1>5, <2>1, <2>2, <2>4
<1>9. CASE In(c, "save", "sent") /\ store' = store /\ IF Held(<<"session">>) THEN GoesOn(c, "list", Row.value) ELSE Told(c, None)
  <2>1. Held(<<"session">>) <=> Row # None
    BY <1>0, SessionHeld
  <2>2. /\ call'[c].op = "save" 
        /\ IF Row # None THEN call'[c].pc = "list" /\ call'[c].seen = Row.value ELSE call'[c].pc = "done"
    BY <1>9, <2>1, Fielded DEF Is, In, Shaped
  <2>3. Row # None => Row.value \subseteq Calls
    BY <1>0 DEF SessionEntry
  <2>4. All(c)'
    BY <1>6, <1>9, <2>2, <2>3 DEF Holds, In
  <2>. QED BY <1>5, <1>6, <1>9, <2>4
<1>10. CASE In(c, "save", "list") /\ store' = store /\ GoesOn(c, "upsert", call[c].seen \cup Added)
  <2>1. call'[c].op = "save" /\ call'[c].pc = "upsert" /\ call'[c].seen = call[c].seen \cup Added
    BY <1>10, Fielded DEF Is, In, Shaped
  <2>2. Added \subseteq Calls /\ Holds(c)
    BY <1>10 DEF Added, Holds, In
  <2>3. All(c)'
    BY <1>0, <1>2, <1>6, <1>10, <2>1, <2>2 DEF Holds, In
  <2>. QED BY <1>5, <1>6, <1>10, <2>3
<1>11. CASE In(c, "save", "upsert") /\ Sets(<<"session">>, call[c].seen \cup {c}) /\ Told(c, None)
  <2>1. /\ Row' = [value |-> call[c].seen \cup {c}, expires |-> Kv!Forever]
        /\ \A d \in Calls : store'[<<"added", d>>] = store[<<"added", d>>]
        /\ call'[c].op = "save" /\ call'[c].pc = "done"
    BY <1>11, AddedKept, Fielded DEF Is, In, Shaped
  <2>2. Holds(c) /\ call[c].op = "save"
    BY <1>11 DEF Holds, In
  <2>3. /\ call[c].seen \subseteq Calls
        /\ c \in alone \/ Crossed("end") = {} => Row # None
        /\ c \in alone => Row.value \subseteq call[c].seen
    BY <1>0, <2>2
  <2>4. Row' \in SessionEntry /\ Row' # None /\ Row'.value = call[c].seen \cup {c}
    BY <2>1, <2>3, EntriesAreNot DEF SessionEntry
  <2>5. OwnEntries'
    BY <1>0, <2>1, <2>4
  <2>6. Row = None => BothCrossed
    BY <1>2, <2>2, <2>3 DEF BothCrossed
  <2>7. ASSUME NEW d \in Calls PROVE All(d)'
    <3>1. Holds(d)' => Holds(d) /\ d \notin alone /\ call'[d] = call[d]
      BY <1>1, <1>3, <2>1 DEF Holds
    <3>2. Hold(d)'
      BY <1>0, <2>4, <3>1
    <3>3. Emptied(d)'
      BY <1>0, <1>1, <1>2, <2>1, <2>6
    <3>4. Adds(d)'
      BY <1>0, <1>1, <1>2, <2>1, <2>6 DEF In
    <3>5. Saves(d)'
      BY <1>0, <1>1, <1>2, <2>1, <2>2, <2>3, <2>4 DEF In
    <3>6. Threw(d)'
      BY <1>0, <1>1, <2>1 DEF In
    <3>. QED BY <3>2, <3>3, <3>4, <3>5, <3>6
  <2>. QED BY <2>5, <2>7
<1>12. CASE In(c, "end", "sent") /\ Puts(None) /\ GoesOn(c, "clients", None)
  <2>1. /\ Row' = None
        /\ \A d \in Calls : store'[<<"added", d>>] = store[<<"added", d>>]
        /\ call'[c].op = "end" /\ call'[c].pc = "clients"
    BY <1>12, AddedKept, RowKept, Fielded DEF Is, In, Shaped, Sole
  <2>2. OwnEntries'
    BY <1>0, <2>1
  <2>3. ASSUME NEW d \in Calls PROVE All(d)'
    <3>1. Holds(d)' => Holds(d) /\ d # c /\ d \notin alone /\ call'[d] = call[d]
      BY <1>1, <1>3, <2>1 DEF Holds
    <3>2. Holds(d)' => Crossed("end")' # {}
      <4>1. SUFFICES ASSUME Holds(d)' PROVE Crossed("end")' # {}
        OBVIOUS
      <4>2. InFlight(d) /\ d # c
        BY <1>3, <3>1, <4>1
      <4>3. c \notin alone
        BY <1>1, <4>2 DEF Apart
      <4>. QED BY <1>2, <1>12, <4>3 DEF In
    <3>3. Hold(d)'
      BY <1>0, <3>1, <3>2
    <3>4. Emptied(d)' /\ Adds(d)' /\ Saves(d)' /\ Threw(d)'
      BY <1>0, <1>1, <2>1 DEF In
    <3>. QED BY <3>3, <3>4
  <2>. QED BY <2>2, <2>3
<1>13. CASE In(c, "end", "clients") /\ (\E d \in Calls : PutsAt(<<"added", d>>, None)) /\ call' = call
  <2>1. PICK e \in Calls : PutsAt(<<"added", e>>, None)
    BY <1>13
  <2>2. /\ Row' = Row
        /\ \A d \in Calls : store'[<<"added", d>>] = IF d = e THEN None ELSE store[<<"added", d>>]
    BY <2>1, RowKept, AddedKept DEF Sole
  <2>3. Row = None \/ BothCrossed
    BY <1>0, <1>13 DEF In
  <2>4. OwnEntries'
    BY <1>0, <2>2
  <2>5. ASSUME NEW d \in Calls PROVE All(d)'
    <3>1. All(d) /\ call'[d] = call[d]
      BY <1>0, <1>13
    <3>2. Hold(d)'
      BY <1>2, <2>2, <3>1 DEF Holds
    <3>3. Emptied(d)' /\ Adds(d)' /\ Saves(d)' /\ Threw(d)'
      BY <1>2, <2>2, <2>3, <3>1 DEF In
    <3>. QED BY <3>2, <3>3
  <2>. QED BY <2>4, <2>5
<1>14. CASE In(c, "end", "clients") /\ store' = store /\ Told(c, None)
  <2>1. call'[c].op = "end" /\ call'[c].pc = "done"
    BY <1>14, Fielded DEF Is, In, Shaped
  <2>2. All(c)'
    BY <1>0, <1>2, <1>6, <1>14, <2>1 DEF Holds, In
  <2>. QED BY <1>5, <1>6, <1>14, <2>2
<1>. QED BY <1>7, <1>8, <1>9, <1>10, <1>11, <1>12, <1>13, <1>14 DEF EntriesSession

LEMMA SessionEntriesNext ==
  ASSUME Shaped, Apart, SessionEntries, Next, scenario = "session", ~Sql
  PROVE  SessionEntries'
<1>1. /\ scenario' = scenario
      /\ Crossed("save") \subseteq Crossed("save")' /\ Crossed("end") \subseteq Crossed("end")'
  BY NextIs, ApartNext, OperationsAre
<1>2. ~Tick
  BY DEF Tick
<1>3. ASSUME NEW c \in Calls, Does(c) PROVE SessionEntries'
  BY <1>1, <1>3, TurnsIs, AloneIs, StepsAre, SessionEntriesStep
<1>0. Crossed("save") # {} => Crossed("save")' # {}
  BY <1>1
<1>4. ASSUME NEW c \in Calls, Dies(c) PROVE SessionEntries'
  <2>1. Turns(c) /\ alone' = alone /\ store' = store /\ call'[c].pc = "dead"
    BY <1>4, TurnsIs, AloneIs, Fielded DEF Dies, Is, Shaped
  <2>2. BothCrossed' = BothCrossed /\ Crossed("end")' = Crossed("end")
    BY <2>1, Others DEF BothCrossed, Crossed
  <2>3. \A d \in Calls : (Holds(d)' => Holds(d)) /\ (call'[d] = call[d] \/ call'[d].pc = "dead") /\ call'[d].op = call[d].op
    BY <2>1, Others DEF Holds
  <2>4. Row' = Row
    BY <1>1, <2>1 DEF Row
  <2>. QED BY <1>0, <2>1, <2>2, <2>3, <2>4 DEF SessionEntries, In, Holds
<1>5. ASSUME NEW c \in Calls, NEW op \in Operations[scenario], NEW a \in Accounts, NEW u \in Usernames, Starts(c, op, a, u)
      PROVE  SessionEntries'
  <2>1. /\ call'[c].pc = "sent" /\ \A d \in Calls : d # c => call'[d] = call[d]
        /\ store' = store /\ \A d \in alone' : d # c => d \in alone
    BY <1>5, Fielded, AloneIs DEF Starts, Still, Shaped
  <2>2. Row' = Row
    BY <1>1, <2>1 DEF Row
  <2>3. /\ BothCrossed => BothCrossed'
        /\ Crossed("end")' = {} => Crossed("end") = {}
    BY <1>1 DEF BothCrossed
  <2>4. \A d \in Calls : Holds(d)' => d # c /\ Holds(d)
    BY <2>1 DEF Holds
  <2>. QED BY <1>0, <2>1, <2>2, <2>3, <2>4 DEF SessionEntries, In
<1>. QED BY <1>2, <1>3, <1>4, <1>5, NextIs

-----------------------------------------------------------------------------
(* An artifact under its keys. *)

ArtifactEntry == [value : KvArtifact, expires : Nat]
IndexEntry == [value : {None}, expires : Nat]

LEMMA ArtifactsAreNot == None \notin ArtifactEntry /\ None \notin IndexEntry /\ None \notin KvArtifact
<1>1. KvArtifact \subseteq [expires : Nat]
  BY AdapterAssumption DEF KvArtifact
<1>. QED BY <1>1, NoneAssumption DEF ArtifactEntry, IndexEntry

\* What a write-back that looked at the clock at a time keeps.
LEMMA LeftReaches ==
  ASSUME Shaped, NEW c \in Calls, call[c].seen \in KvArtifact, call[c].at \in Nat, call[c].at <= now
  PROVE  Left(c) \in Nat /\ Left(c) # None /\ now + Left(c) \in Nat /\ now + Left(c) >= Expiry
<1>1. call[c].seen.expires = Expiry
  BY DEF KvArtifact
<1>2. Expiry \in Nat /\ now \in Nat /\ None \notin Nat
  BY AdapterAssumption, NoneAssumption DEF Shaped
<1>3. Left(c) \in Nat /\ call[c].at + Left(c) >= Expiry
  BY <1>1, <1>2, TtlFromReaches DEF Left
<1>. QED BY <1>2, <1>3

\* The keys of an artifact, after a step.
LEMMA IndexKept ==
  ASSUME Shaped, scenario = "artifact", scenario' = scenario
  PROVE  /\ store' = store \/ (\E row : Puts(row)) => store'[<<"index">>] = store[<<"index">>]
         /\ \A row : PutsAt(<<"consumed">>, row) => store'[<<"index">>] = store[<<"index">>]
         /\ \A row : PutsAt(<<"index">>, row) => store'[<<"index">>] = row
         /\ \A v, t : t # None => (SetsFor(<<"index">>, v, t) => store'[<<"index">>] = [value |-> v, expires |-> now + t])
         /\ \A v, t : t # None => (SetsFor(<<"artifact">>, v, t) =>
              store'[<<"index">>] = store[<<"index">>] /\ Row' = [value |-> v, expires |-> now + t])
<1>1. <<"index">> \in Keys /\ <<"artifact">> \in Keys /\ <<"artifact">> # <<"index">> /\ <<"consumed">> # <<"index">>
  BY DEF Keys
<1>. QED BY <1>1 DEF Shaped, Puts, PutsAt, SetsFor, Row

LEMMA ArtifactEntriesStep ==
  ASSUME Shaped, Apart, ArtifactEntries, NEW c \in Calls, EntriesArtifact(c), Turns(c), alone' = alone,
         scenario = "artifact", scenario' = scenario, now' = now,
         Crossed("save") \subseteq Crossed("save")', Crossed("revoke") \subseteq Crossed("revoke")'
  PROVE  ArtifactEntries'
<1>. DEFINE Own ==
              /\ Row \in ArtifactEntry \cup {None}
              /\ store[<<"index">>] \in IndexEntry \cup {None}
              /\ Row # None => Row.expires >= Expiry
              /\ Indexed => store[<<"index">>].expires >= Expiry
            Reached == Row # None /\ now < Expiry => Indexed \/ RevokeCrossed
            Writes(s) == call[s].op = "save" /\ call[s].pc \in {"upsert", "index"} =>
                           call[s].seen \in KvArtifact /\ call[s].at \in Nat /\ call[s].at <= now
            Finds(s) == In(s, "save", "upsert") => Indexed \/ RevokeCrossed
            Drops(r) == In(r, "revoke", "entry") => Row = None \/ RevokeCrossed
            Revoked(r) == r \in alone /\ In(r, "revoke", "done") =>
              RevokeCrossed \/ Expiry <= now \/ (Row = None /\ \A s \in Calls : ~In(s, "save", "upsert"))
            All(d) == Writes(d) /\ Finds(d) /\ Drops(d) /\ Revoked(d)
<1>0. Own /\ Reached /\ \A d \in Calls : All(d)
  BY DEF ArtifactEntries, ArtifactEntry, IndexEntry
<1>1. /\ \A d \in Calls : call'[d].op = call[d].op /\ (d # c => call'[d] = call[d])
      /\ \A d \in alone : InFlight(d) => d = c
      /\ InFlight(c)
  BY Others
<1>2. /\ RevokeCrossed => RevokeCrossed'
      /\ \A r, s \in Calls : r # s /\ InFlight(r) /\ InFlight(s) /\ call[r].op = "revoke" /\ call[s].op = "save" => RevokeCrossed
  BY DEF RevokeCrossed, Crossed, Apart
<1>3. now \in Nat /\ Expiry \in Nat
  BY AdapterAssumption DEF Shaped
<1>4. SUFFICES Own' /\ Reached' /\ \A d \in Calls : All(d)'
  <2>1. alone \subseteq Calls
    BY DEF Apart
  <2>. QED BY <2>1 DEF ArtifactEntries, ArtifactEntry, IndexEntry
\* Where the keys stand, so does what is known of the others.
<1>5. ASSUME Row' = Row, store'[<<"index">>] = store[<<"index">>]
      PROVE  /\ Own' /\ Reached' /\ (Indexed' <=> Indexed)
             /\ \A d \in Calls : d # c => Writes(d)' /\ Finds(d)' /\ Drops(d)'
             /\ ~(call'[c].op = "save" /\ call'[c].pc = "upsert") => \A d \in Calls : d # c => Revoked(d)'
  <2>1. Indexed' <=> Indexed
    BY <1>5 DEF Indexed
  <2>2. Own' /\ Reached'
    BY <1>0, <1>2, <1>5, <2>1
  <2>3. ASSUME NEW d \in Calls, d # c PROVE Writes(d)' /\ Finds(d)' /\ Drops(d)'
    BY <1>0, <1>1, <1>2, <1>5, <2>1, <2>3 DEF In
  <2>4. ASSUME NEW d \in Calls, d # c, ~(call'[c].op = "save" /\ call'[c].pc = "upsert") PROVE Revoked(d)'
    BY <1>0, <1>1, <1>2, <1>5, <2>4 DEF In
  <2>. QED BY <2>1, <2>2, <2>3, <2>4
<1>6. ASSUME store' = store PROVE Row' = Row /\ store'[<<"index">>] = store[<<"index">>]
  BY <1>6 DEF Row
<1>7. ASSUME call'[c].op \notin {"save", "revoke"} PROVE All(c)'
  BY <1>7 DEF In
<1>8. CASE In(c, "consume", "sent") \/ In(c, "consume", "insert")
  <2>1. Row' = Row /\ store'[<<"index">>] = store[<<"index">>]
    BY <1>6, <1>8, RowKept, IndexKept DEF EntriesArtifact, In, Sole
  <2>. QED BY <1>1, <1>5, <1>7, <1>8, <2>1 DEF In
<1>9. CASE In(c, "save", "sent") /\ store' = store /\ Told(c, None)
  <2>1. call'[c].op = "save" /\ call'[c].pc = "done"
    BY <1>9, Fielded DEF Is, In, Shaped
  <2>2. All(c)'
    BY <2>1 DEF In
  <2>. QED BY <1>5, <1>6, <1>9, <2>1, <2>2
<1>10. CASE /\ In(c, "save", "sent") /\ store' = store /\ Row # None /\ Row.value.expires > now
            /\ GoesOn(c, "upsert", Row.value)
  <2>1. call'[c].op = "save" /\ call'[c].pc = "upsert" /\ call'[c].seen = Row.value /\ call'[c].at = now
    BY <1>10, Fielded DEF Is, In, Shaped
  <2>2. Row.value \in KvArtifact /\ now < Expiry
    BY <1>0, <1>10 DEF ArtifactEntry, KvArtifact
  <2>3. Indexed \/ RevokeCrossed
    BY <1>0, <1>10, <2>2
  <2>4. All(c)'
    BY <1>2, <1>3, <1>5, <1>6, <1>10, <2>1, <2>2, <2>3 DEF In
  <2>5. ASSUME NEW d \in Calls, d # c PROVE Revoked(d)'
    BY <1>0, <1>1, <1>2, <1>3, <1>10, <2>2, <2>5 DEF In
  <2>. QED BY <1>5, <1>6, <1>10, <2>4, <2>5
<1>11. CASE In(c, "save", "upsert") /\ SetsFor(<<"artifact">>, call[c].seen, Left(c)) /\ Goes(c, "index")
  <2>1. /\ call[c].seen \in KvArtifact /\ call[c].at \in Nat /\ call[c].at <= now /\ (Indexed \/ RevokeCrossed)
    BY <1>0, <1>11 DEF In
  <2>2. Left(c) \in Nat /\ Left(c) # None /\ now + Left(c) \in Nat /\ now + Left(c) >= Expiry
    BY <2>1, LeftReaches
  <2>3. store'[<<"index">>] = store[<<"index">>] /\ Row' = [value |-> call[c].seen, expires |-> now + Left(c)]
    BY <1>11, <2>2, IndexKept
  <2>4. call'[c].op = "save" /\ call'[c].pc = "index" /\ call'[c].seen = call[c].seen /\ call'[c].at = call[c].at
    BY <1>11, Fielded DEF Is, In, Shaped
  <2>5. Indexed' <=> Indexed
    BY <2>3 DEF Indexed
  <2>6. Own'
    BY <1>0, <2>1, <2>2, <2>3, <2>5 DEF ArtifactEntry
  <2>7. Reached'
    BY <1>2, <2>1, <2>5
  <2>8. All(c)'
    BY <2>1, <2>4 DEF In
  <2>9. ASSUME NEW d \in Calls, d # c PROVE All(d)'
    <3>1. call'[d] = call[d] /\ call[c].op = "save"
      BY <1>1, <1>11, <2>9 DEF In
    <3>2. In(d, "revoke", "entry") => RevokeCrossed
      BY <1>1, <1>2, <2>9, <3>1 DEF In, InFlight
    <3>3. Writes(d)' /\ Finds(d)' /\ Drops(d)'
      BY <1>0, <1>2, <2>5, <3>1, <3>2 DEF In
    <3>4. Revoked(d)'
      BY <1>0, <1>2, <1>11, <3>1 DEF In
    <3>. QED BY <3>3, <3>4
  <2>. QED BY <2>6, <2>7, <2>8, <2>9
<1>12. CASE In(c, "save", "index") /\ SetsFor(<<"index">>, None, Left(c)) /\ Told(c, None)
  <2>1. call[c].seen \in KvArtifact /\ call[c].at \in Nat /\ call[c].at <= now
    BY <1>0, <1>12 DEF In
  <2>2. Left(c) \in Nat /\ Left(c) # None /\ now + Left(c) \in Nat /\ now + Left(c) >= Expiry
    BY <2>1, LeftReaches
  <2>3. store'[<<"index">>] = [value |-> None, expires |-> now + Left(c)] /\ Row' = Row
    BY <1>12, <2>2, IndexKept, RowKept DEF Sole
  <2>4. call'[c].op = "save" /\ call'[c].pc = "done"
    BY <1>12, Fielded DEF Is, In, Shaped
  <2>5. store'[<<"index">>] \in IndexEntry /\ Indexed'
    BY <2>2, <2>3, ArtifactsAreNot DEF IndexEntry, Indexed
  <2>6. Own' /\ Reached'
    BY <1>0, <2>2, <2>3, <2>5
  <2>7. ASSUME NEW d \in Calls PROVE All(d)'
    BY <1>0, <1>1, <1>2, <2>3, <2>4, <2>5 DEF In
  <2>. QED BY <2>6, <2>7
<1>13. CASE In(c, "destroy", "sent") /\ Puts(None) /\ Told(c, None)
  <2>1. Row' = None /\ store'[<<"index">>] = store[<<"index">>]
    BY <1>13, RowKept, IndexKept DEF Sole
  <2>2. call'[c].op = "destroy" /\ call'[c].pc = "done"
    BY <1>13, Fielded DEF Is, In, Shaped
  <2>3. Own' /\ Reached' /\ (Indexed' <=> Indexed)
    BY <1>0, <2>1 DEF Indexed
  <2>4. ASSUME NEW d \in Calls PROVE All(d)'
    BY <1>0, <1>1, <1>2, <2>1, <2>2, <2>3 DEF In
  <2>. QED BY <2>3, <2>4
<1>14. CASE In(c, "revoke", "sent") /\ store' = store /\ IF Held(<<"index">>) THEN GoesOn(c, "artifact", None) ELSE Told(c, None)
  <2>1. call'[c].op = "revoke" /\ IF Held(<<"index">>) THEN call'[c].pc = "artifact" ELSE call'[c].pc = "done"
    BY <1>14, Fielded DEF Is, In, Shaped
  <2>2. ~Held(<<"index">>) => ~Indexed \/ Expiry <= now
    BY <1>0, <1>3 DEF Held, Had, Indexed, IndexEntry
  <2>3. ~Held(<<"index">>) => RevokeCrossed \/ Expiry <= now \/ (Row = None /\ \A s \in Calls : ~In(s, "save", "upsert"))
    BY <1>0, <1>3, <2>2
  <2>4. Revoked(c)'
    BY <1>1, <1>2, <1>6, <1>14, <2>1, <2>3 DEF In
  <2>5. Writes(c)' /\ Finds(c)' /\ Drops(c)'
    BY <2>1 DEF In
  <2>. QED BY <1>5, <1>6, <1>14, <2>1, <2>4, <2>5
<1>15. CASE In(c, "revoke", "artifact") /\ Puts(None) /\ GoesOn(c, "entry", None)
  <2>1. Row' = None /\ store'[<<"index">>] = store[<<"index">>]
    BY <1>15, RowKept, IndexKept DEF Sole
  <2>2. call'[c].op = "revoke" /\ call'[c].pc = "entry"
    BY <1>15, Fielded DEF Is, In, Shaped
  <2>3. Own' /\ Reached' /\ (Indexed' <=> Indexed)
    BY <1>0, <2>1 DEF Indexed
  <2>4. ASSUME NEW d \in Calls PROVE All(d)'
    BY <1>0, <1>1, <1>2, <2>1, <2>2, <2>3 DEF In
  <2>. QED BY <2>3, <2>4
<1>16. CASE In(c, "revoke", "entry") /\ PutsAt(<<"index">>, None) /\ Told(c, None)
  <2>1. Row' = Row /\ store'[<<"index">>] = None
    BY <1>16, RowKept, IndexKept DEF Sole
  <2>2. call'[c].op = "revoke" /\ call'[c].pc = "done"
    BY <1>16, Fielded DEF Is, In, Shaped
  <2>3. Row = None \/ RevokeCrossed
    BY <1>0, <1>16
  <2>4. (\E s \in Calls : In(s, "save", "upsert")) => RevokeCrossed
    BY <1>1, <1>2, <1>16 DEF In, InFlight
  <2>5. Own' /\ Reached'
    BY <1>0, <1>2, <2>1, <2>3 DEF Indexed
  <2>6. ASSUME NEW d \in Calls PROVE All(d)'
    <3>1. Writes(d)' /\ Drops(d)'
      BY <1>0, <1>1, <1>2, <2>1, <2>2 DEF In
    <3>2. Finds(d)'
      BY <1>1, <1>2, <2>2, <2>4 DEF In
    <3>3. Revoked(d)'
      BY <1>0, <1>1, <1>2, <2>1, <2>2, <2>3, <2>4 DEF In
    <3>. QED BY <3>1, <3>2, <3>3
  <2>. QED BY <2>5, <2>6
<1>. QED BY <1>8, <1>9, <1>10, <1>11, <1>12, <1>13, <1>14, <1>15, <1>16 DEF EntriesArtifact

LEMMA ArtifactEntriesNext ==
  ASSUME Shaped, Apart, ArtifactEntries, Next, scenario = "artifact", ~Sql
  PROVE  ArtifactEntries'
<1>1. /\ scenario' = scenario
      /\ Crossed("save") \subseteq Crossed("save")' /\ Crossed("revoke") \subseteq Crossed("revoke")'
  BY NextIs, ApartNext, OperationsAre
<1>2. RevokeCrossed => RevokeCrossed'
  BY <1>1 DEF RevokeCrossed
<1>3. now \in Nat /\ Expiry \in Nat /\ alone \subseteq Calls
  BY AdapterAssumption DEF Shaped, Apart
<1>4. CASE Tick
  <2>1. call' = call /\ store' = store /\ alone' = alone /\ now' = now + 1
    BY <1>4, AloneIs DEF Tick
  <2>2. RevokeCrossed' = RevokeCrossed /\ Row' = Row /\ (Indexed' <=> Indexed)
    BY <1>1, <2>1 DEF RevokeCrossed, Crossed, Row, Indexed
  <2>. QED BY <1>3, <2>1, <2>2 DEF ArtifactEntries, In
<1>5. ASSUME now' = now, NEW c \in Calls, Does(c) PROVE ArtifactEntries'
  BY <1>1, <1>5, TurnsIs, AloneIs, StepsAre, ArtifactEntriesStep
<1>6. ASSUME now' = now, NEW c \in Calls, Dies(c) PROVE ArtifactEntries'
  <2>1. Turns(c) /\ alone' = alone /\ store' = store /\ call'[c].pc = "dead"
    BY <1>6, TurnsIs, AloneIs, Fielded DEF Dies, Is, Shaped
  <2>2. Row' = Row /\ (Indexed' <=> Indexed)
    BY <1>1, <2>1 DEF Row, Indexed
  <2>3. \A d \in Calls : call'[d].pc # "dead" => call'[d] = call[d]
    BY <2>1, Others
  <2>4. \A s \in Calls : call'[s].op = "save" /\ call'[s].pc = "upsert" => In(s, "save", "upsert")
    BY <2>3 DEF In
  <2>5. \A s \in Calls : call'[s].op = "save" /\ call'[s].pc \in {"upsert", "index"} =>
           call'[s].seen \in KvArtifact /\ call'[s].at \in Nat /\ call'[s].at <= now'
    BY <1>6, <2>3 DEF ArtifactEntries
  <2>6. \A r \in Calls : call'[r].op = "revoke" /\ call'[r].pc = "entry" => Row = None \/ RevokeCrossed
    BY <2>3 DEF ArtifactEntries, In
  <2>7. \A r \in alone : call'[r].op = "revoke" /\ call'[r].pc = "done" =>
           RevokeCrossed \/ Expiry <= now \/ (Row = None /\ \A s \in Calls : ~In(s, "save", "upsert"))
    BY <1>3, <2>3 DEF ArtifactEntries, In
  <2>8. \A s \in Calls : In(s, "save", "upsert") => Indexed \/ RevokeCrossed
    BY DEF ArtifactEntries
  <2>. QED BY <1>2, <1>6, <2>1, <2>2, <2>4, <2>5, <2>6, <2>7, <2>8 DEF ArtifactEntries, In
<1>7. ASSUME now' = now, NEW c \in Calls, NEW op \in Operations[scenario], NEW a \in Accounts, NEW u \in Usernames, Starts(c, op, a, u)
      PROVE  ArtifactEntries'
  <2>1. /\ call'[c].pc = "sent" /\ \A d \in Calls : d # c => call'[d] = call[d]
        /\ store' = store /\ \A d \in alone' : d # c => d \in alone
    BY <1>7, Fielded, AloneIs DEF Starts, Still, Shaped
  <2>2. Row' = Row /\ (Indexed' <=> Indexed)
    BY <1>1, <2>1 DEF Row, Indexed
  <2>3. \A d \in alone' : d # c => call'[d] = call[d]
    BY <1>3, <2>1
  <2>. QED BY <1>2, <1>3, <1>7, <2>1, <2>2, <2>3 DEF ArtifactEntries, In
<1>. QED BY <1>4, <1>5, <1>6, <1>7, NextIs

-----------------------------------------------------------------------------
(* Credentials: who was told of one. *)

\* The credentials after a step on one of the keys.
LEMMA CredentialsKept ==
  ASSUME Shaped, NEW b \in Accounts
  PROVE  /\ store' = store => Credential(b)' = Credential(b)
         /\ \A a, row : PutsAt(<<"credential", a>>, row) => Credential(b)' = IF a = b THEN row ELSE Credential(b)
         /\ \A a, v : Sets(<<"credential", a>>, v) =>
              Credential(b)' = IF a = b THEN [value |-> v, expires |-> Kv!Forever] ELSE Credential(b)
         /\ \A u, row : PutsAt(<<"username", u>>, row) => Credential(b)' = Credential(b)
         /\ \A u, v : Sets(<<"username", u>>, v) => Credential(b)' = Credential(b)
<1>1. <<"credential", b>> \in Keys
  BY CredentialKeys
<1>2. \A a : <<"credential", a>> = <<"credential", b>> <=> a = b
  OBVIOUS
<1>3. \A u : <<"username", u>> # <<"credential", b>>
  OBVIOUS
<1>. QED BY <1>1, <1>2, <1>3 DEF Shaped, Credential, PutsAt, Sets

LEMMA AnsweredNext ==
  ASSUME Shaped, Answered, Next, scenario = "credential"
  PROVE  Answered'
<1>1. ~Tick
  BY DEF Tick
<1>2. ASSUME NEW c \in Calls, Does(c) PROVE Answered'
  <2>1. Turns(c) /\ IF Sql THEN TablesCredential(c) ELSE EntriesCredential(c)
    BY <1>2, TurnsIs, StepsAre
  <2>2. \A d \in Calls : call'[d].op = call[d].op /\ (d # c => call'[d] = call[d])
    BY <2>1, Others
  <2>3. /\ \A v : Told(c, v) => call'[c].answer = v
        /\ \A p, s : GoesOn(c, p, s) => call'[c].pc = p
        /\ \A p : Goes(c, p) \/ Fails(c, p) => call'[c].pc = p
        /\ \A p, u : Renames(c, p, u) => call'[c].pc = p
    BY Fielded DEF Is, Shaped
  <2>4. call[c].op = "create" /\ call'[c].pc = "done" => call'[c].answer \in BOOLEAN
    <3>1. CASE Sql
      BY <2>1, <2>3, <3>1 DEF TablesCredential, In
    <3>2. CASE ~Sql
      BY <2>1, <2>3, <3>2 DEF EntriesCredential, In
    <3>. QED BY <3>1, <3>2
  <2>. QED BY <2>2, <2>4 DEF Answered, In
<1>3. ASSUME NEW c \in Calls, Dies(c) PROVE Answered'
  <2>1. Turns(c) /\ call'[c].pc = "dead"
    BY <1>3, TurnsIs, Fielded DEF Dies, Is, Shaped
  <2>. QED BY <2>1, Others DEF Answered, In
<1>4. ASSUME NEW c \in Calls, NEW op \in Operations[scenario], NEW a \in Accounts, NEW u \in Usernames, Starts(c, op, a, u)
      PROVE  Answered'
  <2>1. call'[c].pc = "sent" /\ \A d \in Calls : d # c => call'[d] = call[d]
    BY <1>4, Fielded DEF Starts, Still, Shaped
  <2>. QED BY <2>1 DEF Answered, In
<1>. QED BY <1>1, <1>2, <1>3, <1>4, NextIs

-----------------------------------------------------------------------------
(* Credentials in a table. *)

RowOf(c) ==
  /\ WasMade(c) => Credential(call[c].account) # None /\ Credential(call[c].account).username = call[c].username
  /\ In(c, "save", "upsert") => call[c].seen # None /\ Credential(call[c].account) = call[c].seen
Unlike(c, d) == WasMade(c) /\ WasMade(d) => call[c].account # call[d].account /\ call[c].username # call[d].username

LEMMA CredentialRowsAre ==
  CredentialRows <=> (Nobody("destroy") => (\A c \in Calls : RowOf(c)) /\ \A c, d \in Calls : c # d => Unlike(c, d))
BY DEF CredentialRows, RowOf, Unlike, WasMade

LEMMA CredentialRowsStep ==
  ASSUME Shaped, CredentialRows, NEW c \in Calls, TablesCredential(c), Turns(c), Nobody("destroy"), scenario = "credential"
  PROVE  (\A d \in Calls : RowOf(d)') /\ \A d, e \in Calls : d # e => Unlike(d, e)'
<1>. DEFINE a == call[c].account
            u == call[c].username
<1>1. \A d \in Calls : call'[d].op = call[d].op /\ call'[d].account = call[d].account /\ (d # c => call'[d] = call[d])
  BY Others
<1>2. call'[c].op # "save" => call'[c].username = u
  BY DEF Turns, Keeps
<1>3. a \in Accounts /\ (call[c].op = "create" => u \in Usernames) /\ \A d \in Calls : WasMade(d) \/ In(d, "save", "upsert") => call[d].account \in Accounts
  BY DEF Shaped, WasMade, In, Turns, InFlight
<1>4. (\A d \in Calls : RowOf(d)) /\ \A d, e \in Calls : d # e => Unlike(d, e)
  BY CredentialRowsAre
<1>5. /\ \A v : Told(c, v) => call'[c].pc = "done" /\ call'[c].answer = v
      /\ \A p, s : GoesOn(c, p, s) => call'[c].pc = p /\ call'[c].seen = s
      /\ \A p : Fails(c, p) => call'[c].pc = p
  BY Fielded DEF Is, Shaped
<1>6. ASSUME NEW d \in Calls, d # c PROVE (WasMade(d)' <=> WasMade(d)) /\ (In(d, "save", "upsert")' <=> In(d, "save", "upsert"))
  BY <1>1, <1>6 DEF WasMade, In
<1>7. call[c].op \in {"create", "save"}
  BY OperationsAre DEF Shaped, Turns, InFlight, Nobody
\* Where the credentials stand, so does what is known of the others.
<1>8. ASSUME \A b \in Accounts : Credential(b)' = Credential(b), ~WasMade(c)',
             In(c, "save", "upsert")' => call'[c].seen # None /\ Credential(a) = call'[c].seen
      PROVE  (\A d \in Calls : RowOf(d)') /\ \A d, e \in Calls : d # e => Unlike(d, e)'
  <2>1. RowOf(c)'
    BY <1>1, <1>3, <1>8 DEF RowOf
  <2>2. ASSUME NEW d \in Calls, d # c PROVE RowOf(d)'
    BY <1>1, <1>3, <1>4, <1>6, <1>8, <2>2 DEF RowOf
  <2>3. ASSUME NEW d \in Calls, NEW e \in Calls, d # e PROVE Unlike(d, e)'
    BY <1>1, <1>4, <1>6, <1>8, <2>3 DEF Unlike
  <2>. QED BY <2>1, <2>2, <2>3
<1>9. CASE /\ In(c, "create", "sent") /\ ~Taken(a, u)
           /\ PutsAt(<<"credential", a>>, [username |-> u]) /\ Told(c, TRUE)
  <2>1. \A b \in Accounts : Credential(b)' = IF b = a THEN [username |-> u] ELSE Credential(b)
    BY <1>9, CredentialsKept
  <2>2. [username |-> u] # None
    BY <1>3, <1>9, TableAssumption DEF In
  <2>3. WasMade(c)' /\ call'[c].username = u /\ call'[c].account = a /\ ~In(c, "save", "upsert")'
    BY <1>1, <1>2, <1>5, <1>9 DEF WasMade, In
  <2>4. \A b \in Accounts : Credential(b) # None => b # a /\ Credential(b).username # u
    BY <1>9 DEF Taken
  <2>5. ASSUME NEW d \in Calls, d # c, WasMade(d) PROVE call[d].account # a /\ call[d].username # u
    BY <1>3, <1>4, <2>4, <2>5 DEF RowOf
  <2>6. RowOf(c)'
    BY <1>3, <2>1, <2>2, <2>3 DEF RowOf
  <2>7. ASSUME NEW d \in Calls, d # c PROVE RowOf(d)'
    BY <1>1, <1>3, <1>4, <1>6, <2>1, <2>4, <2>7 DEF RowOf
  <2>8. ASSUME NEW d \in Calls, NEW e \in Calls, d # e PROVE Unlike(d, e)'
    BY <1>1, <1>4, <1>6, <2>3, <2>5, <2>8 DEF Unlike
  <2>. QED BY <2>6, <2>7, <2>8
<1>10. CASE call[c].op = "create" /\ store' = store /\ (Told(c, FALSE) \/ GoesOn(c, "collided", None) \/ Fails(c, "threw"))
  <2>1. ~WasMade(c)' /\ ~In(c, "save", "upsert")'
    BY <1>1, <1>5, <1>10 DEF WasMade, In
  <2>. QED BY <1>8, <1>10, <2>1, CredentialsKept
<1>11. CASE In(c, "save", "sent") /\ store' = store /\ Credential(a) # None /\ GoesOn(c, "upsert", Credential(a))
  <2>1. ~WasMade(c)' /\ call'[c].seen = Credential(a)
    BY <1>1, <1>5, <1>11 DEF WasMade, In
  <2>. QED BY <1>8, <1>11, <2>1, CredentialsKept
<1>12. CASE call[c].op = "save" /\ store' = store /\ (Told(c, None) \/ Fails(c, "threw"))
  <2>1. ~WasMade(c)' /\ ~In(c, "save", "upsert")'
    BY <1>1, <1>5, <1>12 DEF WasMade, In
  <2>. QED BY <1>8, <1>12, <2>1, CredentialsKept
<1>13. CASE In(c, "save", "upsert") /\ PutsAt(<<"credential", a>>, call[c].seen) /\ Told(c, None)
  <2>1. ~WasMade(c)' /\ ~In(c, "save", "upsert")'
    BY <1>1, <1>5, <1>13 DEF WasMade, In
  <2>2. Credential(a) = call[c].seen
    BY <1>4, <1>13 DEF RowOf
  <2>3. \A b \in Accounts : Credential(b)' = Credential(b)
    BY <1>13, <2>2, CredentialsKept
  <2>. QED BY <1>8, <2>1, <2>3
<1>. QED BY <1>7, <1>9, <1>10, <1>11, <1>12, <1>13 DEF TablesCredential, In

LEMMA NobodyBefore ==
  ASSUME Shaped, Next, Nobody("destroy")'
  PROVE  Nobody("destroy")
<1>1. CASE Tick
  BY <1>1 DEF Tick, Nobody
<1>2. ASSUME NEW c \in Calls, Turns(c) PROVE Nobody("destroy")
  BY <1>2, Others DEF Nobody
<1>3. ASSUME NEW c \in Calls, NEW op \in Operations[scenario], NEW a \in Accounts, NEW u \in Usernames, Starts(c, op, a, u)
      PROVE  Nobody("destroy")
  <2>1. call[c].op # "destroy" /\ \A d \in Calls : d # c => call'[d] = call[d]
    BY <1>3, Fielded, TableAssumption DEF Starts, Still, Shaped
  <2>. QED BY <2>1 DEF Nobody
<1>. QED BY <1>1, <1>2, <1>3, NextIs, TurnsIs

LEMMA CredentialRowsNext ==
  ASSUME Shaped, CredentialRows, Next, scenario = "credential", Sql
  PROVE  CredentialRows'
<1>. DEFINE Kept == (\A d \in Calls : RowOf(d)) /\ \A d, e \in Calls : d # e => Unlike(d, e)
<1>1. SUFFICES ASSUME Nobody("destroy")' PROVE Kept'
  BY DEF CredentialRows, RowOf, Unlike, WasMade
<1>2. Nobody("destroy") /\ ~Tick
  BY <1>1, NobodyBefore DEF Tick
<1>3. Kept
  BY <1>2, CredentialRowsAre
<1>4. ASSUME NEW c \in Calls, Does(c) PROVE Kept'
  BY <1>2, <1>4, TurnsIs, StepsAre, CredentialRowsStep
<1>5. ASSUME NEW c \in Calls, call'[c].pc \notin {"done", "upsert"}, \A d \in Calls : d # c => call'[d] = call[d], store' = store
      PROVE  Kept'
  <2>1. \A d \in Calls : WasMade(d)' \/ In(d, "save", "upsert")' => d # c
    BY <1>5 DEF WasMade, In
  <2>2. ASSUME NEW d \in Calls, d # c PROVE (WasMade(d)' <=> WasMade(d)) /\ (In(d, "save", "upsert")' <=> In(d, "save", "upsert")) /\ call'[d] = call[d]
    BY <1>5, <2>2 DEF WasMade, In
  <2>3. \A a : Credential(a)' = Credential(a)
    BY <1>5 DEF Credential
  <2>4. ASSUME NEW d \in Calls PROVE RowOf(d)'
    BY <1>3, <2>1, <2>2, <2>3 DEF RowOf
  <2>5. ASSUME NEW d \in Calls, NEW e \in Calls, d # e PROVE Unlike(d, e)'
    BY <1>3, <2>1, <2>2, <2>5 DEF Unlike
  <2>. QED BY <2>4, <2>5
<1>6. ASSUME NEW c \in Calls, Dies(c) PROVE Kept'
  <2>1. Turns(c) /\ store' = store /\ call'[c].pc = "dead"
    BY <1>6, TurnsIs, Fielded DEF Dies, Is, Shaped
  <2>2. \A d \in Calls : d # c => call'[d] = call[d]
    BY <2>1, Others
  <2>. HIDE DEF Kept
  <2>. QED BY <1>5, <2>1, <2>2
<1>7. ASSUME NEW c \in Calls, NEW op \in Operations[scenario], NEW a \in Accounts, NEW u \in Usernames, Starts(c, op, a, u)
      PROVE  Kept'
  <2>1. call'[c].pc = "sent" /\ store' = store /\ \A d \in Calls : d # c => call'[d] = call[d]
    BY <1>7, Fielded DEF Starts, Still, Shaped
  <2>. HIDE DEF Kept
  <2>. QED BY <1>5, <2>1
<1>. HIDE DEF Kept
<1>. QED BY <1>2, <1>4, <1>6, <1>7, NextIs

-----------------------------------------------------------------------------
(* Credentials and their names under keys. *)

\* No entry of a credential or a name is None.
LEMMA NamesAreNot == None \notin CredentialEntry /\ None \notin NameEntry
<1>1. Kv!Forever \in Nat
  BY AdapterAssumption DEF Kv!Forever, Kv!Second
<1>2. None \notin [value : [username : Usernames], expires : Nat] /\ None \notin [value : Accounts, expires : Nat]
  BY TableAssumption
<1>. QED BY <1>1, <1>2 DEF CredentialEntry, NameEntry, Credentials

LEMMA CredentialHeld ==
  ASSUME Shaped, CredentialTypes
  PROVE  /\ \A a \in Accounts : Held(<<"credential", a>>) <=> Credential(a) # None
         /\ \A u \in Usernames : Held(<<"username", u>>) <=> NameOf(u) # None
BY ForeverIsLong DEF CredentialTypes, Held, Had, Credential, NameOf, CredentialEntry, NameEntry

\* The names after a step on one of the keys.
LEMMA NamesKept ==
  ASSUME Shaped, NEW v \in Usernames
  PROVE  /\ store' = store => NameOf(v)' = NameOf(v)
         /\ \A u, row : PutsAt(<<"username", u>>, row) => NameOf(v)' = IF v = u THEN row ELSE NameOf(v)
         /\ \A u, x : Sets(<<"username", u>>, x) =>
              NameOf(v)' = IF v = u THEN [value |-> x, expires |-> Kv!Forever] ELSE NameOf(v)
         /\ \A a, row : PutsAt(<<"credential", a>>, row) => NameOf(v)' = NameOf(v)
         /\ \A a, x : Sets(<<"credential", a>>, x) => NameOf(v)' = NameOf(v)
<1>1. <<"username", v>> \in Keys
  BY DEF Keys
<1>2. \A u : <<"username", u>> = <<"username", v>> <=> u = v
  OBVIOUS
<1>3. \A a : <<"credential", a>> # <<"username", v>>
  OBVIOUS
<1>. QED BY <1>1, <1>2, <1>3 DEF Shaped, NameOf, PutsAt, Sets

\* A step, by what it does to the credentials, to the names and to its call.
CredentialSet(a, x) == \A b \in Accounts : Credential(b)' = IF b = a THEN x ELSE Credential(b)
NameSet(u, x) == \A v \in Usernames : NameOf(v)' = IF v = u THEN x ELSE NameOf(v)
CredentialsStand == \A b \in Accounts : Credential(b)' = Credential(b)
NamesStand == \A v \in Usernames : NameOf(v)' = NameOf(v)
Lasting(x) == [value |-> x, expires |-> Kv!Forever]
Creates(c) ==
  LET a == call[c].account u == call[c].username IN
  /\ call[c].op = "create"
  /\ \/ /\ call[c].pc = "sent" /\ NameOf(u) = None /\ CredentialsStand /\ NameSet(u, Lasting(a))
        /\ call'[c].pc = "insert"
     \/ call[c].pc = "sent" /\ CredentialsStand /\ NamesStand /\ call'[c].pc = "done" /\ call'[c].answer = FALSE
     \/ /\ call[c].pc = "insert" /\ Credential(a) = None /\ CredentialSet(a, Lasting([username |-> u])) /\ NamesStand
        /\ call'[c].pc = "done" /\ call'[c].answer = TRUE
     \/ call[c].pc = "insert" /\ CredentialsStand /\ NamesStand /\ call'[c].pc = "undo"
     \/ /\ call[c].pc = "undo" /\ CredentialsStand /\ NameSet(u, None)
        /\ call'[c].pc = "done" /\ call'[c].answer = FALSE
Savings(c) ==
  LET a == call[c].account row == call[c].seen IN
  /\ call[c].op = "save"
  /\ \/ /\ call[c].pc = "sent" /\ CredentialsStand /\ NamesStand
        /\ IF Credential(a) # None THEN call'[c].pc = "upsert" /\ call'[c].seen = Credential(a).value
           ELSE call'[c].pc = "done"
     \/ /\ call[c].pc = "upsert" /\ CredentialsStand /\ NamesStand /\ call'[c].seen = row
        /\ IF Credential(a) # None /\ Credential(a).value.username # row.username
           THEN call'[c].pc = "name" ELSE call'[c].pc = "write"
     \/ /\ call[c].pc = "name" /\ CredentialsStand
        /\ \/ NameSet(row.username, Lasting(a)) /\ call'[c].pc = "unname" /\ call'[c].seen = row
           \/ NamesStand /\ call'[c].pc = "threw"
     \/ /\ call[c].pc = "unname" /\ CredentialsStand /\ (\E u : NameSet(u, None))
        /\ call'[c].pc = "write" /\ call'[c].seen = row
     \/ call[c].pc = "write" /\ CredentialSet(a, Lasting(row)) /\ NamesStand /\ call'[c].pc = "done"
Destroys(c) ==
  LET a == call[c].account row == call[c].seen IN
  /\ call[c].op = "destroy"
  /\ \/ /\ call[c].pc = "sent" /\ CredentialsStand /\ NamesStand
        /\ IF Credential(a) # None THEN call'[c].pc = "name" /\ call'[c].seen = Credential(a).value
           ELSE call'[c].pc = "credential"
     \/ /\ call[c].pc = "name" /\ CredentialsStand /\ NameSet(row.username, None)
        /\ call'[c].pc = "credential"
     \/ call[c].pc = "credential" /\ CredentialSet(a, None) /\ NamesStand /\ call'[c].pc = "done"

LEMMA CredentialEffect ==
  ASSUME Shaped, CredentialTypes, NEW c \in Calls, EntriesCredential(c), Turns(c), scenario = "credential"
  PROVE  Creates(c) \/ Savings(c) \/ Destroys(c)
<1>. DEFINE a == call[c].account
            u == call[c].username
            row == call[c].seen
<1>1. a \in Accounts /\ (call[c].op # "save" => u \in Usernames)
  BY DEF Shaped, Turns, InFlight
<1>2. /\ Held(<<"credential", a>>) <=> Credential(a) # None
      /\ call[c].op # "save" => (Held(<<"username", u>>) <=> NameOf(u) # None)
  BY <1>1, CredentialHeld
<1>3. /\ store' = store => CredentialsStand /\ NamesStand
      /\ \A x : PutsAt(<<"credential", a>>, x) => CredentialSet(a, x) /\ NamesStand
      /\ \A x : Sets(<<"credential", a>>, x) => CredentialSet(a, Lasting(x)) /\ NamesStand
      /\ \A v, x : PutsAt(<<"username", v>>, x) => NameSet(v, x) /\ CredentialsStand
      /\ \A v, x : Sets(<<"username", v>>, x) => NameSet(v, Lasting(x)) /\ CredentialsStand
  BY CredentialsKept, NamesKept DEF CredentialSet, NameSet, CredentialsStand, NamesStand, Lasting
<1>4. /\ \A v : Told(c, v) => call'[c].pc = "done" /\ call'[c].answer = v
      /\ \A p, s : GoesOn(c, p, s) => call'[c].pc = p /\ call'[c].seen = s
      /\ \A p : Goes(c, p) => call'[c].pc = p /\ call'[c].seen = row
      /\ \A p : Fails(c, p) => call'[c].pc = p
      /\ \A p, v : Renames(c, p, v) => call'[c].pc = p /\ call'[c].seen = row
  BY Fielded DEF Is, Shaped
<1>5. call[c].op \in {"create", "save", "destroy"}
  BY OperationsAre DEF Shaped, Turns, InFlight
<1>6. CASE call[c].op = "create"
  <2>1. \/ In(c, "create", "sent") /\ ~Held(<<"username", u>>) /\ Sets(<<"username", u>>, a) /\ GoesOn(c, "insert", None)
        \/ In(c, "create", "sent") /\ store' = store /\ Told(c, FALSE)
        \/ /\ In(c, "create", "insert") /\ ~Held(<<"credential", a>>)
           /\ Sets(<<"credential", a>>, [username |-> u]) /\ Told(c, TRUE)
        \/ In(c, "create", "insert") /\ store' = store /\ GoesOn(c, "undo", None)
        \/ In(c, "create", "undo") /\ PutsAt(<<"username", u>>, None) /\ Told(c, FALSE)
    BY <1>6 DEF EntriesCredential, In
  <2>. QED BY <1>2, <1>3, <1>4, <1>6, <2>1 DEF Creates, In
<1>7. CASE call[c].op = "save"
  <2>1. \/ /\ In(c, "save", "sent") /\ store' = store
           /\ IF Held(<<"credential", a>>) THEN GoesOn(c, "upsert", Credential(a).value) ELSE Told(c, None)
        \/ /\ In(c, "save", "upsert") /\ store' = store
           /\ IF Held(<<"credential", a>>) /\ Credential(a).value.username # row.username
              THEN Renames(c, "name", Credential(a).value.username) ELSE Goes(c, "write")
        \/ In(c, "save", "name") /\ Sets(<<"username", row.username>>, a) /\ Goes(c, "unname")
        \/ In(c, "save", "name") /\ store' = store /\ Fails(c, "threw")
        \/ In(c, "save", "unname") /\ PutsAt(<<"username", u>>, None) /\ Goes(c, "write")
        \/ In(c, "save", "write") /\ Sets(<<"credential", a>>, row) /\ Told(c, None)
    BY <1>7 DEF EntriesCredential, In
  <2>. QED BY <1>2, <1>3, <1>4, <1>7, <2>1 DEF Savings, In
<1>8. CASE call[c].op = "destroy"
  <2>1. \/ /\ In(c, "destroy", "sent") /\ store' = store
           /\ IF Held(<<"credential", a>>) THEN GoesOn(c, "name", Credential(a).value) ELSE GoesOn(c, "credential", None)
        \/ In(c, "destroy", "name") /\ PutsAt(<<"username", row.username>>, None) /\ GoesOn(c, "credential", None)
        \/ In(c, "destroy", "credential") /\ PutsAt(<<"credential", a>>, None) /\ Told(c, None)
    BY <1>8 DEF EntriesCredential, In
  <2>. QED BY <1>2, <1>3, <1>4, <1>8, <2>1 DEF Destroys, In
<1>. QED BY <1>5, <1>6, <1>7, <1>8

LEMMA CredentialTypesStep ==
  ASSUME Shaped, CredentialTypes, NEW c \in Calls, Turns(c), scenario = "credential",
         Creates(c) \/ Savings(c) \/ Destroys(c)
  PROVE  CredentialTypes'
<1>. DEFINE a == call[c].account
            u == call[c].username
            row == call[c].seen
            Seen(s) == Saving(s) \/ In(s, "destroy", "name") => call[s].seen \in Credentials
<1>1. \A d \in Calls : call'[d].op = call[d].op /\ (d # c => call'[d] = call[d])
  BY Others
<1>2. a \in Accounts /\ (call[c].op # "save" => u \in Usernames)
  BY DEF Shaped, Turns, InFlight
<1>3. /\ \A b \in Accounts : Credential(b) \in CredentialEntry \cup {None}
      /\ \A v \in Usernames : NameOf(v) \in NameEntry \cup {None}
      /\ \A s \in Calls : Seen(s)
  BY DEF CredentialTypes
<1>4. /\ \A x \in Credentials : Lasting(x) \in CredentialEntry
      /\ \A b \in Accounts : Lasting(b) \in NameEntry
      /\ \A v \in Usernames : [username |-> v] \in Credentials
      /\ \A b \in Accounts : Credential(b) # None => Credential(b).value \in Credentials
  BY <1>3 DEF Lasting, CredentialEntry, NameEntry, Credentials
<1>5. \A s \in Calls : s # c => Seen(s)'
  <2>1. ASSUME NEW s \in Calls, s # c PROVE Seen(s)'
    <3>1. (Saving(s)' <=> Saving(s)) /\ (In(s, "destroy", "name")' <=> In(s, "destroy", "name")) /\ call'[s] = call[s]
      BY <1>1, <2>1 DEF Saving, In
    <3>. QED BY <1>3, <3>1
  <2>. QED BY <2>1
<1>6. SUFFICES /\ \A b \in Accounts : Credential(b)' \in CredentialEntry \cup {None}
               /\ \A v \in Usernames : NameOf(v)' \in NameEntry \cup {None}
               /\ Seen(c)'
  BY <1>5 DEF CredentialTypes
<1>7. CASE Creates(c)
  <2>1. call'[c].op = "create"
    BY <1>1, <1>7 DEF Creates
  <2>2. Seen(c)'
    BY <2>1 DEF Saving, In
  <2>3. /\ \A b \in Accounts : Credential(b)' \in CredentialEntry \cup {None}
        /\ \A v \in Usernames : NameOf(v)' \in NameEntry \cup {None}
    BY <1>2, <1>3, <1>4, <1>7 DEF Creates, CredentialSet, NameSet, CredentialsStand, NamesStand
  <2>. QED BY <2>2, <2>3
<1>8. CASE Savings(c)
  <2>1. Saving(c) => row \in Credentials
    BY <1>3
  <2>2. Seen(c)'
    BY <1>1, <1>2, <1>4, <1>8, <2>1 DEF Savings, Saving, In
  <2>3. /\ \A b \in Accounts : Credential(b)' \in CredentialEntry \cup {None}
        /\ \A v \in Usernames : NameOf(v)' \in NameEntry \cup {None}
    BY <1>2, <1>3, <1>4, <1>8, <2>1 DEF Savings, Saving, CredentialSet, NameSet, CredentialsStand, NamesStand
  <2>. QED BY <2>2, <2>3
<1>9. CASE Destroys(c)
  <2>1. Seen(c)'
    BY <1>1, <1>2, <1>4, <1>9 DEF Destroys, Saving, In
  <2>2. /\ \A b \in Accounts : Credential(b)' \in CredentialEntry \cup {None}
        /\ \A v \in Usernames : NameOf(v)' \in NameEntry \cup {None}
    BY <1>2, <1>3, <1>9 DEF Destroys, CredentialSet, NameSet, CredentialsStand, NamesStand
  <2>. QED BY <2>1, <2>2
<1>. QED BY <1>7, <1>8, <1>9

\* Of a call that claimed a name, and of two.
Claims(c) == Making(c) \/ WasMade(c)
Carries(s) == Saving(s) => /\ call[s].pc \in {"upsert", "write"} /\ Credential(call[s].account) # None
                           /\ Credential(call[s].account).value = call[s].seen
OwnerOf(c) ==
  /\ Claims(c) => NameOf(call[c].username) # None
  /\ WasMade(c) => Credential(call[c].account) # None
  /\ Carries(c)
Differ(c, d) ==
  /\ Claims(c) /\ Claims(d) => call[c].username # call[d].username
  /\ WasMade(c) /\ WasMade(d) => call[c].account # call[d].account

LEMMA OwnersAre ==
  Owners <=> (Nobody("destroy") => (\A c \in Calls : OwnerOf(c)) /\ \A c, d \in Calls : c # d => Differ(c, d))
BY DEF Owners, OwnerOf, Differ, Claims, Carries

\* The other calls stay as they were.
LEMMA OthersClaim ==
  ASSUME NEW c \in Calls, \A d \in Calls : d # c => call'[d] = call[d], NEW d \in Calls, d # c
  PROVE  /\ (Claims(d)' <=> Claims(d)) /\ (Making(d)' <=> Making(d)) /\ (WasMade(d)' <=> WasMade(d)) /\ (Saving(d)' <=> Saving(d))
         /\ \A pc : In(d, "destroy", pc)' <=> In(d, "destroy", pc)
BY DEF Claims, Making, WasMade, Saving, In

\* What the calls that claim or write are about.
LEMMA AreAbout ==
  ASSUME Shaped, NEW c \in Calls
  PROVE  /\ Claims(c) => call[c].username \in Usernames /\ call[c].account \in Accounts
         /\ Saving(c) => call[c].account \in Accounts
BY DEF Shaped, Claims, Making, WasMade, Saving, In

LEMMA OwnersStep ==
  ASSUME Shaped, CredentialTypes, Owners, Nobody("destroy"), NEW c \in Calls, Turns(c), scenario = "credential",
         Creates(c) \/ Savings(c)
  PROVE  (\A d \in Calls : OwnerOf(d)') /\ \A d, e \in Calls : d # e => Differ(d, e)'
<1>. DEFINE a == call[c].account
            u == call[c].username
<1>1. \A d \in Calls : call'[d].op = call[d].op /\ call'[d].account = call[d].account /\ (d # c => call'[d] = call[d])
  BY Others
<1>2. call'[c].op # "save" => call'[c].username = u
  BY DEF Turns, Keeps
<1>3. a \in Accounts /\ (call[c].op # "save" => u \in Usernames)
  BY DEF Shaped, Turns, InFlight
<1>4. (\A d \in Calls : OwnerOf(d)) /\ \A d, e \in Calls : d # e => Differ(d, e)
  BY OwnersAre
<1>5. \A b \in Accounts : Lasting(b) # None
  BY NamesAreNot DEF Lasting, NameEntry
<1>6. \A v \in Usernames : Lasting([username |-> v]) # None
  BY NamesAreNot DEF Lasting, CredentialEntry, Credentials
\* The others' names and credentials stand, but for a name they do not have.
<1>7. ASSUME \A d \in Calls : d # c /\ Claims(d) => NameOf(call[d].username)' # None,
             \A d \in Calls : d # c /\ (WasMade(d) \/ Saving(d)) =>
               /\ Credential(call[d].account)' # None
               /\ Saving(d) => Credential(call[d].account)'.value = call[d].seen,
             OwnerOf(c)', \A d \in Calls : d # c => Differ(c, d)' /\ Differ(d, c)'
      PROVE  (\A d \in Calls : OwnerOf(d)') /\ \A d, e \in Calls : d # e => Differ(d, e)'
  <2>1. ASSUME NEW d \in Calls, d # c PROVE OwnerOf(d)'
    <3>1. OwnerOf(d) /\ call'[d] = call[d]
      BY <1>1, <1>4, <2>1
    <3>2. (Claims(d)' <=> Claims(d)) /\ (WasMade(d)' <=> WasMade(d)) /\ (Saving(d)' <=> Saving(d))
      BY <1>1, <2>1, OthersClaim
    <3>3. Carries(d)'
      BY <1>7, <2>1, <3>1, <3>2 DEF OwnerOf, Carries
    <3>. QED BY <1>7, <2>1, <3>1, <3>2, <3>3 DEF OwnerOf
  <2>2. ASSUME NEW d \in Calls, NEW e \in Calls, d # c, e # c, d # e PROVE Differ(d, e)'
    <3>1. Differ(d, e) /\ call'[d] = call[d] /\ call'[e] = call[e]
      BY <1>1, <1>4, <2>2
    <3>2. (Claims(d)' <=> Claims(d)) /\ (WasMade(d)' <=> WasMade(d)) /\ (Claims(e)' <=> Claims(e)) /\ (WasMade(e)' <=> WasMade(e))
      BY <1>1, <2>2, OthersClaim
    <3>. QED BY <3>1, <3>2 DEF Differ
  <2>. QED BY <1>7, <2>1, <2>2
<1>8. ASSUME NEW d \in Calls, d # c
      PROVE  /\ call'[d] = call[d] /\ (Claims(d)' <=> Claims(d)) /\ (WasMade(d)' <=> WasMade(d))
             /\ Claims(d) => NameOf(call[d].username) # None /\ call[d].username \in Usernames /\ call[d].account \in Accounts
             /\ WasMade(d) \/ Saving(d) => Credential(call[d].account) # None /\ call[d].account \in Accounts
             /\ Saving(d) => Credential(call[d].account).value = call[d].seen
             /\ WasMade(d) => Claims(d)
             /\ Differ(c, d) /\ Differ(d, c)
  <2>1. OwnerOf(d) /\ Differ(c, d) /\ Differ(d, c)
    BY <1>4, <1>8
  <2>2. WasMade(d) => Claims(d)
    BY DEF Claims
  <2>. QED BY <1>1, <1>8, <2>1, <2>2, OthersClaim, AreAbout DEF OwnerOf, Carries
\* The call's own.
<1>9. /\ call'[c].pc \notin {"insert", "undo"} => ~Making(c)'
      /\ ~(call'[c].pc = "done" /\ call'[c].answer = TRUE) => ~WasMade(c)'
      /\ call[c].op = "save" => ~Claims(c)' /\ ~Claims(c) /\ ~WasMade(c)'
      /\ call[c].op = "create" => ~Saving(c)'
  BY <1>1 DEF Making, WasMade, In, Claims, Saving
<1>10. CASE Creates(c)
  <2>0. call[c].op = "create" /\ ~Saving(c)' /\ call'[c].username = u /\ call'[c].account = a /\ u \in Usernames
    BY <1>1, <1>2, <1>3, <1>9, <1>10 DEF Creates
  <2>1. CASE /\ call[c].pc = "sent" /\ NameOf(u) = None /\ CredentialsStand /\ NameSet(u, Lasting(a))
             /\ call'[c].pc = "insert"
    <3>1. ASSUME NEW d \in Calls, d # c, Claims(d) PROVE call[d].username # u
      BY <1>8, <2>1, <3>1
    <3>2. NameOf(u)' # None /\ ~WasMade(c)'
      BY <1>3, <1>5, <1>9, <2>0, <2>1 DEF NameSet
    <3>3. OwnerOf(c)'
      BY <2>0, <3>2 DEF OwnerOf, Carries
    <3>4. ASSUME NEW d \in Calls, d # c PROVE Differ(c, d)' /\ Differ(d, c)'
      BY <1>8, <2>0, <3>1, <3>2, <3>4 DEF Differ
    <3>5. ASSUME NEW d \in Calls, d # c, Claims(d) PROVE NameOf(call[d].username)' # None
      BY <1>8, <2>1, <3>1, <3>5 DEF NameSet
    <3>6. ASSUME NEW d \in Calls, d # c, WasMade(d) \/ Saving(d)
          PROVE  /\ Credential(call[d].account)' # None
                 /\ Saving(d) => Credential(call[d].account)'.value = call[d].seen
      BY <1>8, <2>1, <3>6 DEF CredentialsStand
    <3>. QED BY <1>7, <3>3, <3>4, <3>5, <3>6
  <2>2. CASE call[c].pc = "sent" /\ CredentialsStand /\ NamesStand /\ call'[c].pc = "done" /\ call'[c].answer = FALSE
    <3>1. ~Claims(c)' /\ ~WasMade(c)'
      BY <1>9, <2>2 DEF Claims
    <3>2. OwnerOf(c)' /\ \A d \in Calls : Differ(c, d)' /\ Differ(d, c)'
      BY <2>0, <3>1 DEF OwnerOf, Carries, Differ
    <3>3. ASSUME NEW d \in Calls, d # c, Claims(d) PROVE NameOf(call[d].username)' # None
      BY <1>8, <2>2, <3>3 DEF NamesStand
    <3>4. ASSUME NEW d \in Calls, d # c, WasMade(d) \/ Saving(d)
          PROVE  /\ Credential(call[d].account)' # None
                 /\ Saving(d) => Credential(call[d].account)'.value = call[d].seen
      BY <1>8, <2>2, <3>4 DEF CredentialsStand
    <3>. QED BY <1>7, <3>2, <3>3, <3>4
  <2>3. CASE /\ call[c].pc = "insert" /\ Credential(a) = None /\ CredentialSet(a, Lasting([username |-> u])) /\ NamesStand
             /\ call'[c].pc = "done" /\ call'[c].answer = TRUE
    <3>1. Claims(c) /\ ~WasMade(c)
      BY <2>0, <2>3 DEF Claims, Making, WasMade, In
    <3>2. NameOf(u)' # None /\ Credential(a)' # None
      BY <1>3, <1>4, <1>6, <2>0, <2>3, <3>1 DEF OwnerOf, NamesStand, CredentialSet
    <3>3. OwnerOf(c)'
      BY <2>0, <3>2 DEF OwnerOf, Carries
    <3>4. ASSUME NEW d \in Calls, d # c, WasMade(d) \/ Saving(d) PROVE call[d].account # a
      BY <1>8, <2>3, <3>4
    <3>5. ASSUME NEW d \in Calls, d # c PROVE Differ(c, d)' /\ Differ(d, c)'
      BY <1>8, <2>0, <3>1, <3>4, <3>5 DEF Differ
    <3>6. ASSUME NEW d \in Calls, d # c, Claims(d) PROVE NameOf(call[d].username)' # None
      BY <1>8, <2>3, <3>6 DEF NamesStand
    <3>7. ASSUME NEW d \in Calls, d # c, WasMade(d) \/ Saving(d)
          PROVE  /\ Credential(call[d].account)' # None
                 /\ Saving(d) => Credential(call[d].account)'.value = call[d].seen
      BY <1>8, <2>3, <3>4, <3>7 DEF CredentialSet
    <3>. QED BY <1>7, <3>3, <3>5, <3>6, <3>7
  <2>4. CASE call[c].pc = "insert" /\ CredentialsStand /\ NamesStand /\ call'[c].pc = "undo"
    <3>1. Claims(c) /\ ~WasMade(c) /\ ~WasMade(c)'
      BY <1>9, <2>0, <2>4 DEF Claims, Making, WasMade, In
    <3>2. NameOf(u)' # None
      BY <1>4, <2>0, <2>4, <3>1 DEF OwnerOf, NamesStand
    <3>3. OwnerOf(c)'
      BY <2>0, <3>1, <3>2 DEF OwnerOf, Carries
    <3>4. ASSUME NEW d \in Calls, d # c PROVE Differ(c, d)' /\ Differ(d, c)'
      BY <1>8, <2>0, <3>1, <3>4 DEF Differ
    <3>5. ASSUME NEW d \in Calls, d # c, Claims(d) PROVE NameOf(call[d].username)' # None
      BY <1>8, <2>4, <3>5 DEF NamesStand
    <3>6. ASSUME NEW d \in Calls, d # c, WasMade(d) \/ Saving(d)
          PROVE  /\ Credential(call[d].account)' # None
                 /\ Saving(d) => Credential(call[d].account)'.value = call[d].seen
      BY <1>8, <2>4, <3>6 DEF CredentialsStand
    <3>. QED BY <1>7, <3>3, <3>4, <3>5, <3>6
  <2>5. CASE /\ call[c].pc = "undo" /\ CredentialsStand /\ NameSet(u, None)
             /\ call'[c].pc = "done" /\ call'[c].answer = FALSE
    <3>1. ~Claims(c)' /\ ~WasMade(c)'
      BY <1>9, <2>5 DEF Claims
    <3>2. OwnerOf(c)' /\ \A d \in Calls : Differ(c, d)' /\ Differ(d, c)'
      BY <2>0, <3>1 DEF OwnerOf, Carries, Differ
    <3>3. Claims(c)
      BY <2>0, <2>5 DEF Claims, Making
    <3>4. ASSUME NEW d \in Calls, d # c, Claims(d) PROVE NameOf(call[d].username)' # None
      BY <1>8, <2>5, <3>3, <3>4 DEF NameSet, Differ
    <3>5. ASSUME NEW d \in Calls, d # c, WasMade(d) \/ Saving(d)
          PROVE  /\ Credential(call[d].account)' # None
                 /\ Saving(d) => Credential(call[d].account)'.value = call[d].seen
      BY <1>8, <2>5, <3>5 DEF CredentialsStand
    <3>. QED BY <1>7, <3>2, <3>4, <3>5
  <2>. QED BY <1>10, <2>1, <2>2, <2>3, <2>4, <2>5 DEF Creates
<1>11. CASE Savings(c)
  <2>0. call[c].op = "save" /\ ~Claims(c)' /\ ~WasMade(c)' /\ Carries(c) /\ call'[c].op = "save" /\ call'[c].account = a
    BY <1>1, <1>4, <1>9, <1>11 DEF Savings, OwnerOf
  <2>1. \A d \in Calls : Differ(c, d)' /\ Differ(d, c)'
    BY <2>0 DEF Differ
  <2>2. call[c].pc \notin {"name", "unname"}
    BY <2>0 DEF Carries, Saving
  <2>3. ASSUME CredentialsStand, NamesStand, Carries(c)'
        PROVE  (\A d \in Calls : OwnerOf(d)') /\ \A d, e \in Calls : d # e => Differ(d, e)'
    <3>1. OwnerOf(c)'
      BY <2>0, <2>3 DEF OwnerOf
    <3>3. ASSUME NEW d \in Calls, d # c, Claims(d) PROVE NameOf(call[d].username)' # None
      BY <1>8, <2>3, <3>3 DEF NamesStand
    <3>4. ASSUME NEW d \in Calls, d # c, WasMade(d) \/ Saving(d)
          PROVE  /\ Credential(call[d].account)' # None
                 /\ Saving(d) => Credential(call[d].account)'.value = call[d].seen
      BY <1>8, <2>3, <3>4 DEF CredentialsStand
    <3>. QED BY <1>7, <2>1, <3>1, <3>3, <3>4
  <2>4. CASE /\ call[c].pc = "sent" /\ CredentialsStand /\ NamesStand
             /\ IF Credential(a) # None THEN call'[c].pc = "upsert" /\ call'[c].seen = Credential(a).value
                ELSE call'[c].pc = "done"
    <3>1. Carries(c)'
      BY <1>3, <2>0, <2>4 DEF Carries, Saving, CredentialsStand
    <3>. QED BY <2>3, <2>4, <3>1
  <2>5. CASE /\ call[c].pc = "upsert" /\ CredentialsStand /\ NamesStand /\ call'[c].seen = call[c].seen
             /\ IF Credential(a) # None /\ Credential(a).value.username # call[c].seen.username
                THEN call'[c].pc = "name" ELSE call'[c].pc = "write"
    <3>1. Credential(a) # None /\ Credential(a).value = call[c].seen
      BY <2>0, <2>5 DEF Carries, Saving
    <3>2. Carries(c)'
      BY <1>3, <2>0, <2>5, <3>1 DEF Carries, Saving, CredentialsStand
    <3>. QED BY <2>3, <2>5, <3>2
  <2>6. CASE call[c].pc = "write" /\ CredentialSet(a, Lasting(call[c].seen)) /\ NamesStand /\ call'[c].pc = "done"
    <3>1. Credential(a) # None /\ Credential(a).value = call[c].seen
      BY <2>0, <2>6 DEF Carries, Saving
    <3>2. Credential(a) \in CredentialEntry
      BY <1>3, <3>1 DEF CredentialTypes
    <3>3. Lasting(call[c].seen) \in CredentialEntry /\ Lasting(call[c].seen).value = call[c].seen
      BY <3>1, <3>2 DEF CredentialEntry, Lasting
    <3>4. Lasting(call[c].seen) # None
      BY <3>3, NamesAreNot
    <3>5. OwnerOf(c)'
      BY <2>0, <2>6 DEF OwnerOf, Carries, Saving
    <3>6. ASSUME NEW d \in Calls, d # c, Claims(d) PROVE NameOf(call[d].username)' # None
      BY <1>8, <2>6, <3>6 DEF NamesStand
    <3>7. ASSUME NEW d \in Calls, d # c, WasMade(d) \/ Saving(d)
          PROVE  /\ Credential(call[d].account)' # None
                 /\ Saving(d) => Credential(call[d].account)'.value = call[d].seen
      BY <1>8, <2>6, <3>1, <3>3, <3>4, <3>7 DEF CredentialSet
    <3>. QED BY <1>7, <2>1, <3>5, <3>6, <3>7
  <2>. QED BY <1>11, <2>2, <2>4, <2>5, <2>6 DEF Savings
<1>. QED BY <1>10, <1>11

\* A name and its credential, a credential and its name, and what the calls on their way know of them.
HasCredential(u) ==
  NameOf(u) # None =>
    \/ Credential(NameOf(u).value) # None /\ Credential(NameOf(u).value).value.username = u
    \/ \E c \in Calls : Making(c) /\ call[c].account = NameOf(u).value /\ call[c].username = u
HasName(a) ==
  Credential(a) # None =>
    \/ NameOf(Credential(a).value.username) # None /\ NameOf(Credential(a).value.username).value = a
    \/ \E d \in Calls : In(d, "destroy", "credential") /\ call[d].account = a
Maker(c) ==
  Making(c) =>
    /\ NameOf(call[c].username) # None /\ NameOf(call[c].username).value = call[c].account
    /\ \A d \in Calls : Making(d) /\ d # c => call[d].username # call[c].username
    /\ \A a \in Accounts : Credential(a) # None => Credential(a).value.username # call[c].username
Dropping(d) ==
  In(d, "destroy", "name") => Credential(call[d].account) # None /\ Credential(call[d].account).value = call[d].seen
Dropped(d) ==
  In(d, "destroy", "credential") /\ Credential(call[d].account) # None =>
    NameOf(Credential(call[d].account).value.username) = None
Resolved ==
  /\ \A u \in Usernames : HasCredential(u)
  /\ \A a \in Accounts : HasName(a)
  /\ \A c \in Calls : Maker(c) /\ Carries(c) /\ Dropping(c) /\ Dropped(c)

LEMMA ResolvingIs == Resolving <=> (Orderly => Resolved)
BY DEF Resolving, Resolved, HasCredential, HasName, Maker, Carries, Dropping, Dropped

LEMMA OrderlyBefore ==
  ASSUME Shaped, Apart, Next, Orderly', scenario = "credential"
  PROVE  Orderly
<1>1. Crossed("destroy") \subseteq Crossed("destroy")' /\ ~Tick
  BY ApartNext, OperationsAre DEF Tick
<1>2. \A c \in Calls \ alone : call[c].op # "destroy"
  BY <1>1 DEF Orderly, Crossed
<1>3. ASSUME NEW c \in Calls, Turns(c) PROVE \A d \in Calls : call[d].pc # "dead"
  <2>1. \A d \in Calls : d # c => call'[d] = call[d]
    BY <1>3, Others
  <2>2. call[c].pc # "dead"
    BY <1>3 DEF Turns, InFlight
  <2>. QED BY <2>1, <2>2 DEF Orderly
<1>4. ASSUME NEW c \in Calls, NEW op \in Operations[scenario], NEW a \in Accounts, NEW u \in Usernames, Starts(c, op, a, u)
      PROVE  \A d \in Calls : call[d].pc # "dead"
  <2>1. call[c].pc # "dead" /\ \A d \in Calls : d # c => call'[d] = call[d]
    BY <1>4, Fielded DEF Starts, Still, Shaped
  <2>. QED BY <2>1 DEF Orderly
<1>. QED BY <1>1, <1>2, <1>3, <1>4, NextIs, TurnsIs DEF Orderly

\* What is known of the calls that do not move.
LEMMA ResolvedOthers ==
  ASSUME Shaped, CredentialTypes, Resolved, NEW c \in Calls, \A d \in Calls : d # c => call'[d] = call[d], NEW d \in Calls, d # c
  PROVE  /\ call'[d] = call[d] /\ (Making(d)' <=> Making(d)) /\ (Saving(d)' <=> Saving(d))
         /\ \A pc : In(d, "destroy", pc)' <=> In(d, "destroy", pc)
         /\ Making(d) => /\ call[d].username \in Usernames /\ call[d].account \in Accounts
                         /\ NameOf(call[d].username) # None /\ NameOf(call[d].username).value = call[d].account
                         /\ \A e \in Calls : Making(e) /\ e # d => call[e].username # call[d].username
                         /\ \A a \in Accounts : Credential(a) # None => Credential(a).value.username # call[d].username
         /\ Saving(d) => /\ call[d].account \in Accounts /\ call[d].pc \in {"upsert", "write"}
                         /\ Credential(call[d].account) # None /\ Credential(call[d].account).value = call[d].seen
BY OthersClaim, AreAbout DEF Resolved, Maker, Carries, Claims

\* While nothing is being destroyed.
Quiet == \A d \in Calls : call[d].op = "destroy" => ~InFlight(d)
LEMMA QuietIs ==
  ASSUME Quiet
  PROVE  \A d \in Calls : ~In(d, "destroy", "name") /\ ~In(d, "destroy", "credential")
BY DEF Quiet, In, InFlight

LEMMA ValuesAre ==
  ASSUME CredentialTypes
  PROVE  /\ \A u \in Usernames : NameOf(u) # None => NameOf(u).value \in Accounts
         /\ \A a \in Accounts : Credential(a) # None => Credential(a).value.username \in Usernames
BY DEF CredentialTypes, NameEntry, CredentialEntry, Credentials

\* A step that leaves the names and the credentials, and whose call makes what it made.
CredentialsAlike ==
  \A b \in Accounts : IF Credential(b) = None THEN Credential(b)' = None
                     ELSE Credential(b)' # None /\ Credential(b)'.value = Credential(b).value
LEMMA StandStep ==
  ASSUME Shaped, CredentialTypes, Resolved, Quiet, Quiet', NEW c \in Calls, \A d \in Calls : d # c => call'[d] = call[d],
         CredentialsAlike, NamesStand, Making(c)' <=> Making(c), Carries(c)',
         Making(c) => call'[c].username = call[c].username /\ call'[c].account = call[c].account
  PROVE  Resolved'
<1>1. \A d \in Calls : /\ Making(d)' <=> Making(d)
                       /\ Making(d) => call'[d].username = call[d].username /\ call'[d].account = call[d].account
  BY ResolvedOthers
<1>2. \A d \in Calls : ~In(d, "destroy", "name")' /\ ~In(d, "destroy", "credential")' /\ ~In(d, "destroy", "credential")
  BY QuietIs DEF Quiet, In, InFlight
<1>3. ASSUME NEW u \in Usernames PROVE HasCredential(u)'
  <2>1. HasCredential(u) /\ NameOf(u)' = NameOf(u)
    BY <1>3 DEF Resolved, NamesStand
  <2>2. NameOf(u) # None => NameOf(u).value \in Accounts
    BY <1>3, ValuesAre
  <2>. QED BY <1>1, <2>1, <2>2 DEF HasCredential, CredentialsAlike
<1>4. ASSUME NEW a \in Accounts PROVE HasName(a)'
  <2>1. Credential(a) # None =>
           /\ NameOf(Credential(a).value.username) # None /\ NameOf(Credential(a).value.username).value = a
           /\ Credential(a).value.username \in Usernames
    BY <1>2, <1>4, ValuesAre DEF Resolved, HasName
  <2>2. IF Credential(a) = None THEN Credential(a)' = None
        ELSE Credential(a)' # None /\ Credential(a)'.value = Credential(a).value
    BY <1>4 DEF CredentialsAlike
  <2>. QED BY <2>1, <2>2 DEF HasName, NamesStand
<1>5. ASSUME NEW d \in Calls PROVE Maker(d)'
  <2>1. Making(d) => call[d].username \in Usernames
    BY AreAbout DEF Claims
  <2>2. SUFFICES ASSUME Making(d)' PROVE Maker(d)'
    BY DEF Maker
  <2>3. Making(d) /\ Maker(d) /\ call'[d].username = call[d].username /\ call'[d].account = call[d].account
    BY <1>1, <2>2 DEF Resolved
  <2>4. NameOf(call[d].username)' = NameOf(call[d].username)
    BY <2>1, <2>3 DEF NamesStand
  <2>5. \A b \in Accounts : Credential(b)' # None => Credential(b) # None /\ Credential(b)'.value = Credential(b).value
    BY DEF CredentialsAlike
  <2>. QED BY <1>1, <2>3, <2>4, <2>5 DEF Maker
<1>6. ASSUME NEW d \in Calls, d # c PROVE Carries(d)'
  <2>1. SUFFICES ASSUME Saving(d) PROVE Carries(d)'
    BY <1>6, ResolvedOthers DEF Carries
  <2>2. /\ call'[d] = call[d] /\ call[d].account \in Accounts /\ call[d].pc \in {"upsert", "write"}
        /\ Credential(call[d].account) # None /\ Credential(call[d].account).value = call[d].seen
    BY <1>6, <2>1, ResolvedOthers
  <2>3. Credential(call[d].account)' # None /\ Credential(call[d].account)'.value = Credential(call[d].account).value
    BY <2>2 DEF CredentialsAlike
  <2>. QED BY <2>2, <2>3 DEF Carries
<1>. QED BY <1>2, <1>3, <1>4, <1>5, <1>6 DEF Resolved, Dropping, Dropped

LEMMA ResolvedCreates ==
  ASSUME Shaped, CredentialTypes, Resolved, Quiet, Quiet', NEW c \in Calls, Turns(c), Creates(c), scenario = "credential"
  PROVE  Resolved'
<1>. DEFINE a == call[c].account
            u == call[c].username
<1>1. /\ \A d \in Calls : d # c => call'[d] = call[d]
      /\ call'[c].op = "create" /\ call[c].op = "create" /\ call'[c].account = a /\ call'[c].username = u
      /\ a \in Accounts /\ u \in Usernames /\ ~Saving(c)' /\ ~Saving(c)
  BY Others DEF Turns, Keeps, Shaped, InFlight, Creates, Saving
<1>2. \A d \in Calls : ~In(d, "destroy", "name")' /\ ~In(d, "destroy", "credential")' /\ ~In(d, "destroy", "credential")
  BY QuietIs DEF Quiet, In, InFlight
<1>3. \A d \in Calls : Dropping(d)' /\ Dropped(d)'
  BY <1>2 DEF Dropping, Dropped
<1>4. Carries(c)' /\ Maker(c)
  BY <1>1 DEF Carries, Resolved
<1>5. \A b \in Accounts : Credential(b) # None =>
        /\ NameOf(Credential(b).value.username) # None /\ NameOf(Credential(b).value.username).value = b
        /\ Credential(b).value.username \in Usernames
  BY <1>2, ValuesAre DEF Resolved, HasName
<1>6. CASE /\ call[c].pc = "sent" /\ NameOf(u) = None /\ CredentialsStand /\ NameSet(u, Lasting(a))
           /\ call'[c].pc = "insert"
  <2>1. Making(c)' /\ ~Making(c)
    BY <1>1, <1>6 DEF Making
  <2>2. \A v \in Usernames : NameOf(v)' = IF v = u THEN Lasting(a) ELSE NameOf(v)
    BY <1>6 DEF NameSet
  <2>3. Lasting(a) # None /\ Lasting(a).value = a
    BY <1>1, NamesAreNot DEF Lasting, NameEntry
  <2>4. \A b \in Accounts : Credential(b)' = Credential(b)
    BY <1>6 DEF CredentialsStand
  <2>5. \A d \in Calls : Making(d) => call[d].username # u /\ call[d].username \in Usernames
    BY <1>6, AreAbout DEF Resolved, Maker, Claims
  <2>6. ASSUME NEW v \in Usernames PROVE HasCredential(v)'
    <3>1. CASE v = u
      BY <1>1, <2>1, <2>2, <2>3, <3>1 DEF HasCredential
    <3>2. CASE v # u
      <4>1. HasCredential(v) /\ NameOf(v)' = NameOf(v)
        BY <2>2, <3>2 DEF Resolved
      <4>2. NameOf(v) # None => NameOf(v).value \in Accounts
        BY ValuesAre
      <4>3. \A d \in Calls : Making(d) => Making(d)' /\ call'[d] = call[d]
        BY <1>1, <2>1, ResolvedOthers
      <4>. QED BY <2>4, <4>1, <4>2, <4>3 DEF HasCredential
    <3>. QED BY <3>1, <3>2
  <2>7. ASSUME NEW b \in Accounts PROVE HasName(b)'
    BY <1>5, <1>6, <2>2, <2>4 DEF HasName
  <2>8. Maker(c)'
    <3>1. NameOf(u)' = Lasting(a)
      BY <1>1, <2>2
    <3>2. \A d \in Calls : Making(d)' /\ d # c => call'[d].username # u
      BY <1>1, <2>5, ResolvedOthers
    <3>3. \A b \in Accounts : Credential(b)' # None => Credential(b)'.value.username # u
      BY <1>5, <1>6, <2>4
    <3>. QED BY <1>1, <2>3, <3>1, <3>2, <3>3 DEF Maker
  <2>9. ASSUME NEW d \in Calls, d # c PROVE Maker(d)' /\ Carries(d)'
    <3>1. Carries(d)'
      BY <1>1, <2>4, <2>9, ResolvedOthers DEF Carries
    <3>2. SUFFICES ASSUME Making(d) PROVE Maker(d)'
      BY <1>1, <2>9, <3>1, ResolvedOthers DEF Maker
    <3>3. /\ call'[d] = call[d] /\ call[d].username \in Usernames /\ call[d].username # u
          /\ NameOf(call[d].username) # None /\ NameOf(call[d].username).value = call[d].account
          /\ \A e \in Calls : Making(e) /\ e # d => call[e].username # call[d].username
          /\ \A b \in Accounts : Credential(b) # None => Credential(b).value.username # call[d].username
      BY <1>1, <2>5, <2>9, <3>2, ResolvedOthers
    <3>4. \A e \in Calls : Making(e)' /\ e # d => call'[e].username # call[d].username
      BY <1>1, <3>3, ResolvedOthers
    <3>. QED BY <2>2, <2>4, <3>3, <3>4 DEF Maker
  <2>. QED BY <1>3, <1>4, <2>6, <2>7, <2>8, <2>9 DEF Resolved
<1>7. CASE call[c].pc = "sent" /\ CredentialsStand /\ NamesStand /\ call'[c].pc = "done" /\ call'[c].answer = FALSE
  <2>1. ~Making(c)' /\ ~Making(c)
    BY <1>7 DEF Making
  <2>. QED BY <1>1, <1>4, <1>7, <2>1, StandStep DEF CredentialsStand, CredentialsAlike
<1>8. CASE call[c].pc = "insert" /\ CredentialsStand /\ NamesStand /\ call'[c].pc = "undo"
  <2>1. Making(c)' /\ Making(c)
    BY <1>1, <1>8 DEF Making
  <2>. QED BY <1>1, <1>4, <1>8, <2>1, StandStep DEF CredentialsStand, CredentialsAlike
<1>9. CASE /\ call[c].pc = "insert" /\ Credential(a) = None /\ CredentialSet(a, Lasting([username |-> u])) /\ NamesStand
           /\ call'[c].pc = "done" /\ call'[c].answer = TRUE
  <2>1. Making(c) /\ ~Making(c)'
    BY <1>1, <1>9 DEF Making
  <2>2. /\ NameOf(u) # None /\ NameOf(u).value = a
        /\ \A d \in Calls : Making(d) /\ d # c => call[d].username # u
    BY <1>4, <2>1 DEF Maker
  <2>3. \A b \in Accounts : Credential(b)' = IF b = a THEN Lasting([username |-> u]) ELSE Credential(b)
    BY <1>9 DEF CredentialSet
  <2>4. Lasting([username |-> u]).value.username = u
    BY DEF Lasting
  <2>5. \A v \in Usernames : NameOf(v)' = NameOf(v)
    BY <1>9 DEF NamesStand
  <2>6. Lasting([username |-> u]) # None
    BY <1>1, NamesAreNot DEF Lasting, CredentialEntry, Credentials
  <2>7. ASSUME NEW v \in Usernames PROVE HasCredential(v)'
    <3>1. CASE v = u
      BY <1>1, <2>2, <2>3, <2>4, <2>5, <2>6, <3>1 DEF HasCredential
    <3>2. CASE v # u
      <4>1. HasCredential(v) /\ NameOf(v)' = NameOf(v)
        BY <2>5 DEF Resolved
      <4>2. NameOf(v) # None => NameOf(v).value \in Accounts
        BY ValuesAre
      <4>3. \A d \in Calls : Making(d) /\ d # c => Making(d)' /\ call'[d] = call[d]
        BY <1>1, ResolvedOthers
      <4>4. \A b \in Accounts : Credential(b) # None => Credential(b)' = Credential(b)
        BY <1>9, <2>3
      <4>. QED BY <3>2, <4>1, <4>2, <4>3, <4>4 DEF HasCredential
    <3>. QED BY <3>1, <3>2
  <2>8. ASSUME NEW b \in Accounts PROVE HasName(b)'
    <3>1. CASE b = a
      BY <1>1, <2>2, <2>3, <2>4, <2>5, <3>1 DEF HasName
    <3>2. CASE b # a
      BY <1>5, <2>3, <2>5, <3>2 DEF HasName
    <3>. QED BY <3>1, <3>2
  <2>9. Maker(c)'
    BY <2>1 DEF Maker
  <2>10. ASSUME NEW d \in Calls, d # c PROVE Maker(d)' /\ Carries(d)'
    <3>1. Carries(d)'
      BY <1>1, <1>9, <2>3, <2>10, ResolvedOthers DEF Carries
    <3>2. SUFFICES ASSUME Making(d) PROVE Maker(d)'
      BY <1>1, <2>10, <3>1, ResolvedOthers DEF Maker
    <3>3. /\ call'[d] = call[d] /\ call[d].username \in Usernames /\ call[d].username # u
          /\ NameOf(call[d].username) # None /\ NameOf(call[d].username).value = call[d].account
          /\ \A e \in Calls : Making(e) /\ e # d => call[e].username # call[d].username
          /\ \A b \in Accounts : Credential(b) # None => Credential(b).value.username # call[d].username
      BY <1>1, <2>2, <2>10, <3>2, ResolvedOthers
    <3>4. \A e \in Calls : Making(e)' /\ e # d => call'[e].username # call[d].username
      BY <1>1, <2>1, <3>3, ResolvedOthers
    <3>5. \A b \in Accounts : Credential(b)' # None => Credential(b)'.value.username # call[d].username
      BY <2>3, <2>4, <3>3
    <3>. QED BY <2>5, <3>3, <3>4, <3>5 DEF Maker
  <2>. QED BY <1>3, <1>4, <2>7, <2>8, <2>9, <2>10 DEF Resolved
<1>10. CASE /\ call[c].pc = "undo" /\ CredentialsStand /\ NameSet(u, None)
            /\ call'[c].pc = "done" /\ call'[c].answer = FALSE
  <2>1. Making(c) /\ ~Making(c)'
    BY <1>1, <1>10 DEF Making
  <2>2. /\ \A d \in Calls : Making(d) /\ d # c => call[d].username # u
        /\ \A b \in Accounts : Credential(b) # None => Credential(b).value.username # u
    BY <1>4, <2>1 DEF Maker
  <2>3. \A v \in Usernames : NameOf(v)' = IF v = u THEN None ELSE NameOf(v)
    BY <1>10 DEF NameSet
  <2>4. \A b \in Accounts : Credential(b)' = Credential(b)
    BY <1>10 DEF CredentialsStand
  <2>5. ASSUME NEW v \in Usernames PROVE HasCredential(v)'
    <3>1. CASE v = u
      BY <2>3, <3>1 DEF HasCredential
    <3>2. CASE v # u
      <4>1. HasCredential(v) /\ NameOf(v)' = NameOf(v)
        BY <2>3, <3>2 DEF Resolved
      <4>2. NameOf(v) # None => NameOf(v).value \in Accounts
        BY ValuesAre
      <4>3. \A d \in Calls : Making(d) /\ d # c => Making(d)' /\ call'[d] = call[d]
        BY <1>1, ResolvedOthers
      <4>. QED BY <2>4, <3>2, <4>1, <4>2, <4>3 DEF HasCredential
    <3>. QED BY <3>1, <3>2
  <2>6. ASSUME NEW b \in Accounts PROVE HasName(b)'
    BY <1>5, <2>2, <2>3, <2>4 DEF HasName
  <2>7. Maker(c)'
    BY <2>1 DEF Maker
  <2>8. ASSUME NEW d \in Calls, d # c PROVE Maker(d)' /\ Carries(d)'
    <3>1. Carries(d)'
      BY <1>1, <2>4, <2>8, ResolvedOthers DEF Carries
    <3>2. SUFFICES ASSUME Making(d) PROVE Maker(d)'
      BY <1>1, <2>8, <3>1, ResolvedOthers DEF Maker
    <3>3. /\ call'[d] = call[d] /\ call[d].username \in Usernames /\ call[d].username # u
          /\ NameOf(call[d].username) # None /\ NameOf(call[d].username).value = call[d].account
          /\ \A e \in Calls : Making(e) /\ e # d => call[e].username # call[d].username
          /\ \A b \in Accounts : Credential(b) # None => Credential(b).value.username # call[d].username
      BY <1>1, <2>2, <2>8, <3>2, ResolvedOthers
    <3>4. \A e \in Calls : Making(e)' /\ e # d => call'[e].username # call[d].username
      BY <1>1, <2>1, <3>3, ResolvedOthers
    <3>. QED BY <2>3, <2>4, <3>3, <3>4 DEF Maker
  <2>. QED BY <1>3, <1>4, <2>5, <2>6, <2>7, <2>8 DEF Resolved
<1>. QED BY <1>6, <1>7, <1>8, <1>9, <1>10 DEF Creates

LEMMA ResolvedSavings ==
  ASSUME Shaped, CredentialTypes, Resolved, Quiet, Quiet', NEW c \in Calls, Turns(c), Savings(c), scenario = "credential"
  PROVE  Resolved'
<1>. DEFINE a == call[c].account
            row == call[c].seen
<1>1. /\ \A d \in Calls : d # c => call'[d] = call[d]
      /\ call'[c].op = "save" /\ call[c].op = "save" /\ call'[c].account = a /\ a \in Accounts
      /\ ~Making(c)' /\ ~Making(c)
  BY Others DEF Shaped, Turns, InFlight, Savings, Making
<1>2. Carries(c)
  BY DEF Resolved
<1>3. ASSUME CredentialsAlike, NamesStand, Carries(c)' PROVE Resolved'
  BY <1>1, <1>3, StandStep
<1>4. CredentialsStand => CredentialsAlike
  BY DEF CredentialsStand, CredentialsAlike
<1>5. call[c].pc \notin {"name", "unname"}
  BY <1>1, <1>2 DEF Carries, Saving
<1>6. CASE /\ call[c].pc = "sent" /\ CredentialsStand /\ NamesStand
           /\ IF Credential(a) # None THEN call'[c].pc = "upsert" /\ call'[c].seen = Credential(a).value
              ELSE call'[c].pc = "done"
  <2>1. Carries(c)'
    BY <1>1, <1>6 DEF Carries, Saving, CredentialsStand
  <2>. QED BY <1>3, <1>4, <1>6, <2>1
<1>7. CASE /\ call[c].pc = "upsert" /\ CredentialsStand /\ NamesStand /\ call'[c].seen = row
           /\ IF Credential(a) # None /\ Credential(a).value.username # row.username
              THEN call'[c].pc = "name" ELSE call'[c].pc = "write"
  <2>1. Credential(a) # None /\ Credential(a).value = row
    BY <1>1, <1>2, <1>7 DEF Carries, Saving
  <2>2. Carries(c)'
    BY <1>1, <1>7, <2>1 DEF Carries, Saving, CredentialsStand
  <2>. QED BY <1>3, <1>4, <1>7, <2>2
<1>8. CASE call[c].pc = "write" /\ CredentialSet(a, Lasting(row)) /\ NamesStand /\ call'[c].pc = "done"
  <2>1. Credential(a) # None /\ Credential(a).value = row
    BY <1>1, <1>2, <1>8 DEF Carries, Saving
  <2>2. row \in Credentials
    BY <1>1, <1>8 DEF CredentialTypes, Saving
  <2>3. Lasting(row) # None /\ Lasting(row).value = row
    BY <2>2, NamesAreNot DEF Lasting, CredentialEntry
  <2>4. CredentialsAlike
    BY <1>8, <2>1, <2>3 DEF CredentialsAlike, CredentialSet
  <2>5. Carries(c)'
    BY <1>8 DEF Carries, Saving
  <2>. QED BY <1>3, <1>8, <2>4, <2>5
<1>. QED BY <1>5, <1>6, <1>7, <1>8 DEF Savings

LEMMA ResolvedDestroys ==
  ASSUME Shaped, CredentialTypes, Resolved, NEW c \in Calls, \A d \in Calls : InFlight(d) => d = c,
         Turns(c), Destroys(c), scenario = "credential"
  PROVE  Resolved'
<1>. DEFINE a == call[c].account
            row == call[c].seen
<1>1. /\ \A d \in Calls : d # c => call'[d] = call[d]
      /\ call'[c].op = "destroy" /\ call[c].op = "destroy" /\ call'[c].account = a /\ a \in Accounts
  BY Others DEF Shaped, Turns, InFlight, Destroys
<1>2. /\ \A d \in Calls : ~Making(d) /\ ~Saving(d) /\ ~Making(d)' /\ ~Saving(d)'
      /\ \A d \in Calls : \A pc \in {"name", "credential"} : In(d, "destroy", pc) \/ In(d, "destroy", pc)' => d = c
  <2>1. ASSUME NEW d \in Calls, d # c
        PROVE  ~Making(d) /\ ~Saving(d) /\ ~In(d, "destroy", "name") /\ ~In(d, "destroy", "credential") /\ call'[d] = call[d]
    BY <1>1, <2>1 DEF Making, Saving, In, InFlight
  <2>2. ~Making(c) /\ ~Saving(c) /\ ~Making(c)' /\ ~Saving(c)'
    BY <1>1 DEF Making, Saving
  <2>. QED BY <2>1, <2>2 DEF Making, Saving, In
<1>3. \A d \in Calls : Maker(d)' /\ Carries(d)'
  BY <1>2 DEF Maker, Carries
<1>4. \A d \in Calls : d # c => Dropping(d)' /\ Dropped(d)'
  BY <1>2 DEF Dropping, Dropped
<1>5. \A u \in Usernames : NameOf(u) # None =>
        /\ Credential(NameOf(u).value) # None /\ Credential(NameOf(u).value).value.username = u
        /\ NameOf(u).value \in Accounts
  BY <1>2, ValuesAre DEF Resolved, HasCredential
<1>6. ASSUME ~In(c, "destroy", "credential"), NEW b \in Accounts, Credential(b) # None
      PROVE  /\ NameOf(Credential(b).value.username) # None /\ NameOf(Credential(b).value.username).value = b
             /\ Credential(b).value.username \in Usernames
  BY <1>2, <1>6, ValuesAre DEF Resolved, HasName
<1>7. SUFFICES /\ \A u \in Usernames : HasCredential(u)'
               /\ \A b \in Accounts : HasName(b)'
               /\ Dropping(c)' /\ Dropped(c)'
  BY <1>3, <1>4 DEF Resolved
<1>8. CASE /\ call[c].pc = "sent" /\ CredentialsStand /\ NamesStand
           /\ IF Credential(a) # None THEN call'[c].pc = "name" /\ call'[c].seen = Credential(a).value
              ELSE call'[c].pc = "credential"
  <2>1. \A u \in Usernames : HasCredential(u)'
    BY <1>5, <1>8 DEF HasCredential, CredentialsStand, NamesStand
  <2>2. ~In(c, "destroy", "credential")
    BY <1>8 DEF In
  <2>3. ASSUME NEW b \in Accounts PROVE HasName(b)'
    BY <1>6, <1>8, <2>2 DEF HasName, CredentialsStand, NamesStand
  <2>4. Dropping(c)' /\ Dropped(c)'
    BY <1>1, <1>8 DEF Dropping, Dropped, In, CredentialsStand
  <2>. QED BY <2>1, <2>3, <2>4
<1>9. CASE call[c].pc = "name" /\ CredentialsStand /\ NameSet(row.username, None) /\ call'[c].pc = "credential"
  <2>1. Credential(a) # None /\ Credential(a).value = row
    BY <1>1, <1>9 DEF Resolved, Dropping, In
  <2>2. ~In(c, "destroy", "credential")
    BY <1>9 DEF In
  <2>3. NameOf(row.username) # None /\ NameOf(row.username).value = a /\ row.username \in Usernames
    BY <1>1, <1>6, <2>1, <2>2
  <2>4. /\ \A v \in Usernames : NameOf(v)' = IF v = row.username THEN None ELSE NameOf(v)
        /\ \A b \in Accounts : Credential(b)' = Credential(b)
    BY <1>9 DEF NameSet, CredentialsStand
  <2>5. \A u \in Usernames : HasCredential(u)'
    BY <1>5, <2>4 DEF HasCredential
  <2>6. ASSUME NEW b \in Accounts PROVE HasName(b)'
    <3>1. CASE b = a
      BY <1>1, <1>9, <3>1 DEF HasName, In
    <3>2. CASE b # a
      <4>1. SUFFICES ASSUME Credential(b) # None PROVE HasName(b)'
        BY <2>4 DEF HasName
      <4>2. /\ NameOf(Credential(b).value.username) # None /\ NameOf(Credential(b).value.username).value = b
            /\ Credential(b).value.username \in Usernames
        BY <1>6, <2>2, <4>1
      <4>3. Credential(b).value.username # row.username
        BY <2>3, <3>2, <4>2
      <4>. QED BY <2>4, <4>2, <4>3 DEF HasName
    <3>. QED BY <3>1, <3>2
  <2>7. Dropping(c)'
    BY <1>9 DEF Dropping, In
  <2>8. Dropped(c)'
    BY <1>1, <2>1, <2>3, <2>4 DEF Dropped
  <2>. QED BY <2>5, <2>6, <2>7, <2>8
<1>10. CASE call[c].pc = "credential" /\ CredentialSet(a, None) /\ NamesStand /\ call'[c].pc = "done"
  <2>1. Credential(a) # None => NameOf(Credential(a).value.username) = None
    BY <1>1, <1>10 DEF Resolved, Dropped, In
  <2>2. /\ \A v \in Usernames : NameOf(v)' = NameOf(v)
        /\ \A b \in Accounts : Credential(b)' = IF b = a THEN None ELSE Credential(b)
    BY <1>10 DEF CredentialSet, NamesStand
  <2>3. ASSUME NEW u \in Usernames PROVE HasCredential(u)'
    <3>1. SUFFICES ASSUME NameOf(u) # None PROVE HasCredential(u)'
      BY <2>2 DEF HasCredential
    <3>2. /\ Credential(NameOf(u).value) # None /\ Credential(NameOf(u).value).value.username = u
          /\ NameOf(u).value \in Accounts
      BY <1>5, <3>1
    <3>3. NameOf(u).value # a
      BY <2>1, <3>1, <3>2
    <3>. QED BY <2>2, <3>2, <3>3 DEF HasCredential
  <2>4. ASSUME NEW b \in Accounts PROVE HasName(b)'
    <3>1. CASE b = a
      BY <1>1, <2>2, <3>1 DEF HasName
    <3>2. CASE b # a
      <4>1. SUFFICES ASSUME Credential(b) # None PROVE HasName(b)'
        BY <2>2, <3>2 DEF HasName
      <4>2. HasName(b) /\ \A d \in Calls : In(d, "destroy", "credential") => call[d].account = a
        BY <1>2 DEF Resolved
      <4>3. NameOf(Credential(b).value.username) # None /\ NameOf(Credential(b).value.username).value = b
        BY <3>2, <4>1, <4>2 DEF HasName
      <4>4. Credential(b).value.username \in Usernames
        BY <4>1, ValuesAre
      <4>. QED BY <2>2, <3>2, <4>3, <4>4 DEF HasName
    <3>. QED BY <3>1, <3>2
  <2>5. Dropping(c)' /\ Dropped(c)'
    BY <1>10 DEF Dropping, Dropped, In
  <2>. QED BY <2>3, <2>4, <2>5
<1>. QED BY <1>8, <1>9, <1>10 DEF Destroys

\* The entries keep their values, the names their owners and what they resolve to, whatever the step.
LEMMA EntriesNext ==
  ASSUME Shaped, Apart, CredentialTypes, Owners, Resolving, Next, scenario = "credential", ~Sql
  PROVE  CredentialTypes' /\ Owners' /\ Resolving'
<1>1. ~Tick /\ scenario' = scenario
  BY NextIs DEF Tick
<1>2. /\ Nobody("destroy")' => Nobody("destroy")
      /\ Orderly' => Orderly
  BY NobodyBefore, OrderlyBefore
<1>3. ASSUME NEW c \in Calls, Does(c) PROVE CredentialTypes' /\ Owners' /\ Resolving'
  <2>1. Turns(c) /\ alone' = alone /\ (Creates(c) \/ Savings(c) \/ Destroys(c))
    BY <1>3, TurnsIs, StepsAre, AloneIs, CredentialEffect
  <2>2. CredentialTypes'
    BY <2>1, CredentialTypesStep
  <2>3. Owners'
    <3>1. SUFFICES ASSUME Nobody("destroy")' PROVE (\A d \in Calls : OwnerOf(d)') /\ \A d, e \in Calls : d # e => Differ(d, e)'
      BY DEF Owners, OwnerOf, Differ, Claims, Carries
    <3>2. Nobody("destroy") /\ ~Destroys(c)
      BY <1>2, <3>1 DEF Nobody, Destroys
    <3>. QED BY <2>1, <3>2, OwnersStep
  <2>4. Resolving'
    <3>1. SUFFICES ASSUME Orderly' PROVE Resolved'
      BY DEF Resolving, Resolved, HasCredential, HasName, Maker, Carries, Dropping, Dropped
    <3>2. Orderly /\ Resolved
      BY <1>2, <3>1, ResolvingIs
    <3>3. \A d, e \in Calls : call[d].op = "destroy" /\ InFlight(d) /\ InFlight(e) => e = d
      BY <3>2 DEF Orderly, Apart
    <3>4. /\ InFlight(c) /\ \A d \in Calls : d # c => call'[d] = call[d]
          /\ call'[c].op = call[c].op
      BY <2>1, Others
    <3>5. CASE call[c].op = "destroy"
      <4>1. Destroys(c) /\ \A d \in Calls : InFlight(d) => d = c
        BY <2>1, <3>3, <3>4, <3>5 DEF Creates, Savings
      <4>. QED BY <2>1, <3>2, <4>1, ResolvedDestroys
    <3>6. CASE call[c].op # "destroy"
      <4>1. Quiet
        BY <3>3, <3>4, <3>6 DEF Quiet
      <4>2. Quiet'
        BY <3>4, <3>6, <4>1 DEF Quiet, InFlight
      <4>3. Creates(c) \/ Savings(c)
        BY <2>1, <3>6 DEF Destroys
      <4>. QED BY <2>1, <3>2, <4>1, <4>2, <4>3, ResolvedCreates, ResolvedSavings
    <3>. QED BY <3>5, <3>6
  <2>. QED BY <2>2, <2>3, <2>4
<1>4. ASSUME NEW c \in Calls, \A d \in Calls : d # c => call'[d] = call[d], store' = store,
             call'[c].pc \in {"sent", "dead"}, call[c].pc = "idle" \/ call'[c].pc = "dead"
      PROVE  CredentialTypes' /\ Owners' /\ Resolving'
  <2>1. /\ ~Claims(c)' /\ ~Making(c)' /\ ~WasMade(c)' /\ ~Saving(c)' /\ ~In(c, "destroy", "name")' /\ ~In(c, "destroy", "credential")'
        /\ \A a : Credential(a)' = Credential(a)
        /\ \A u : NameOf(u)' = NameOf(u)
    BY <1>4 DEF Claims, Making, WasMade, Saving, In, Credential, NameOf
  <2>2. ASSUME NEW d \in Calls, d # c
        PROVE  /\ call'[d] = call[d]
               /\ (Claims(d)' <=> Claims(d)) /\ (Making(d)' <=> Making(d)) /\ (WasMade(d)' <=> WasMade(d)) /\ (Saving(d)' <=> Saving(d))
               /\ \A pc : In(d, "destroy", pc)' <=> In(d, "destroy", pc)
    BY <1>4, <2>2, OthersClaim
  <2>3. CredentialTypes'
    BY <2>1, <2>2 DEF CredentialTypes
  <2>4. Owners'
    <3>1. SUFFICES ASSUME Nobody("destroy")' PROVE (\A d \in Calls : OwnerOf(d)') /\ \A d, e \in Calls : d # e => Differ(d, e)'
      BY DEF Owners, OwnerOf, Differ, Claims, Carries
    <3>2. (\A d \in Calls : OwnerOf(d)) /\ \A d, e \in Calls : d # e => Differ(d, e)
      BY <1>2, <3>1, OwnersAre
    <3>3. ASSUME NEW d \in Calls PROVE OwnerOf(d)'
      BY <2>1, <2>2, <3>2 DEF OwnerOf, Carries
    <3>4. ASSUME NEW d \in Calls, NEW e \in Calls, d # e PROVE Differ(d, e)'
      BY <2>1, <2>2, <3>2, <3>4 DEF Differ
    <3>. QED BY <3>3, <3>4
  <2>5. Resolving'
    <3>1. SUFFICES ASSUME Orderly' PROVE Resolved'
      BY DEF Resolving, Resolved, HasCredential, HasName, Maker, Carries, Dropping, Dropped
    <3>2. Resolved /\ call[c].pc = "idle"
      BY <1>2, <1>4, <3>1, ResolvingIs DEF Orderly
    <3>3. ~Making(c) /\ ~In(c, "destroy", "credential")
      BY <3>2 DEF Making, In
    <3>4. \A d \in Calls : /\ (Making(d) => Making(d)' /\ call'[d] = call[d])
                           /\ (In(d, "destroy", "credential") => In(d, "destroy", "credential")' /\ call'[d] = call[d])
      BY <2>2, <3>3
    <3>5. ASSUME NEW u \in Usernames PROVE HasCredential(u)'
      BY <2>1, <3>2, <3>4 DEF Resolved, HasCredential
    <3>6. ASSUME NEW a \in Accounts PROVE HasName(a)'
      BY <2>1, <3>2, <3>4 DEF Resolved, HasName
    <3>7. ASSUME NEW d \in Calls PROVE Carries(d)' /\ Dropping(d)' /\ Dropped(d)'
      BY <2>1, <2>2, <3>2 DEF Resolved, Carries, Dropping, Dropped
    <3>8. ASSUME NEW d \in Calls PROVE Maker(d)'
      BY <2>1, <2>2, <3>2 DEF Resolved, Maker
    <3>. QED BY <3>5, <3>6, <3>7, <3>8 DEF Resolved
  <2>. QED BY <2>3, <2>4, <2>5
<1>5. ASSUME NEW c \in Calls, Dies(c) PROVE CredentialTypes' /\ Owners' /\ Resolving'
  <2>1. Turns(c) /\ store' = store /\ call'[c].pc = "dead"
    BY <1>5, TurnsIs, Fielded DEF Dies, Is, Shaped
  <2>2. \A d \in Calls : d # c => call'[d] = call[d]
    BY <2>1, Others
  <2>. QED BY <1>4, <2>1, <2>2
<1>6. ASSUME NEW c \in Calls, NEW op \in Operations[scenario], NEW a \in Accounts, NEW u \in Usernames, Starts(c, op, a, u)
      PROVE  CredentialTypes' /\ Owners' /\ Resolving'
  <2>1. /\ call'[c].pc = "sent" /\ call[c].pc = "idle" /\ store' = store
        /\ \A d \in Calls : d # c => call'[d] = call[d]
    BY <1>6, Fielded DEF Starts, Still, Shaped
  <2>. QED BY <1>4, <2>1
<1>. QED BY <1>1, <1>3, <1>5, <1>6, NextIs

-----------------------------------------------------------------------------
(* The retries of an addition. *)

\* The calls that are over, after a step.
LEMMA OverIs ==
  ASSUME IsFiniteSet(Calls), NEW c \in Calls, NEW d \in Calls, d # c, \A e \in Calls : e # c => call'[e] = call[e], call[c].pc # "done"
  PROVE  /\ Cardinality(Over(d)) \in Nat /\ Cardinality(Over(d)') \in Nat
         /\ call'[c].pc = "done" => Cardinality(Over(d)') = Cardinality(Over(d)) + 1
         /\ call'[c].pc # "done" => Over(d)' = Over(d)
<1>1. IsFiniteSet(Over(d)) /\ IsFiniteSet(Over(d)')
  <2>1. Over(d) \in SUBSET Calls /\ Over(d)' \in SUBSET Calls
    BY DEF Over
  <2>. QED BY <2>1, FS_Subset
<1>2. c \notin Over(d)
  BY DEF Over
<1>3. call'[c].pc = "done" => Over(d)' = Over(d) \cup {c}
  BY DEF Over
<1>4. call'[c].pc # "done" => Over(d)' = Over(d)
  BY DEF Over
<1>. QED BY <1>1, <1>2, <1>3, <1>4, FS_CardinalityType, FS_AddElement

\* No call is over that it is not one of.
LEMMA OverBound ==
  ASSUME IsFiniteSet(Calls), NEW c \in Calls
  PROVE  /\ Cardinality(Over(c)) \in Nat /\ Cardinality(Calls) \in Nat
         /\ Cardinality(Over(c)) + 1 <= Cardinality(Calls)
<1>1. IsFiniteSet(Calls \ {c}) /\ Cardinality(Calls \ {c}) = Cardinality(Calls) - 1
  BY FS_RemoveElement
<1>2. Over(c) \in SUBSET (Calls \ {c})
  BY DEF Over
<1>3. IsFiniteSet(Over(c)) /\ Cardinality(Over(c)) <= Cardinality(Calls \ {c})
  BY <1>1, <1>2, FS_Subset
<1>. QED BY <1>1, <1>3, FS_CardinalityType

\* An addition that has tried as often as there are calls that are over has not tried its last.
LEMMA TriesNext ==
  ASSUME Shaped, Apart, IsFiniteSet(Calls), Cardinality(Calls) <= Attempts, \A c \in Calls : Tries(c), Next,
         scenario = "session", Sql
  PROVE  \A c \in Calls : Tries(c)'
<1>0. ~Tick /\ scenario' = scenario
  BY NextIs DEF Tick
<1>1. Attempts \in Nat
  BY AdapterAssumption
\* Another's step: where it changes the row it is over with it.
<1>2. ASSUME NEW c \in Calls, \A e \in Calls : e # c => call'[e] = call[e], call[c].pc # "done",
             Row' = Row \/ call'[c].pc = "done", NEW d \in Calls, d # c
      PROVE  Tries(d)'
  <2>1. call'[d] = call[d] /\ Tries(d)
    BY <1>2
  <2>2. /\ Cardinality(Over(d)) \in Nat /\ Cardinality(Over(d)') \in Nat
        /\ call'[c].pc = "done" => Cardinality(Over(d)') = Cardinality(Over(d)) + 1
        /\ call'[c].pc # "done" => Cardinality(Over(d)') = Cardinality(Over(d)) /\ Row' = Row
    BY <1>2, OverIs
  <2>3. Cardinality(Over(d))' = Cardinality(Over(d)')
    OBVIOUS
  <2>. QED BY <2>1, <2>2, <2>3 DEF Tries, In
<1>3. ASSUME NEW c \in Calls, Does(c) PROVE \A d \in Calls : Tries(d)'
  <2>1. TablesSession(c) /\ InFlight(c) /\ Tries(c)
    BY <1>3, TurnsIs, StepsAre, Others
  <2>2. /\ \A e \in Calls : e # c => call'[e] = call[e]
        /\ call'[c].op = call[c].op /\ call[c].pc # "done"
    BY <1>3, TurnsIs, Others DEF InFlight
  <2>3. Cardinality(Over(c)') = Cardinality(Over(c)) /\ Cardinality(Over(c)) \in Nat
        /\ Cardinality(Over(c)) + 1 <= Attempts
    <3>1. Over(c)' = Over(c)
      BY <2>2 DEF Over
    <3>. QED BY <1>1, <3>1, OverBound
  <2>. USE Fielded DEF Is, In, Shaped
  <2>4. (Row' = Row \/ call'[c].pc = "done") /\ Tries(c)'
    <3>1. CASE In(c, "addClient", "sent") /\ store' = store /\ Told(c, None)
      BY <3>1 DEF Tries
    <3>2. CASE In(c, "addClient", "sent") /\ store' = store /\ Row # None /\ GoesOn(c, "swap", Row.clients)
      <4>1. Row' = Row
        BY <1>0, <3>2 DEF Row
      <4>2. call'[c].pc = "swap" /\ call'[c].seen = Row.clients /\ call'[c].tries = call[c].tries
        BY <3>2
      <4>. QED BY <2>1, <2>2, <2>3, <3>2, <4>1, <4>2 DEF Tries
    <3>3. CASE In(c, "addClient", "swap") /\ Told(c, None)
      BY <3>3 DEF Tries
    <3>4. CASE /\ In(c, "addClient", "swap") /\ ~(Row # None /\ Row.clients = call[c].seen) /\ store' = store
               /\ IF call[c].tries + 1 = Attempts THEN Fails(c, "threw") ELSE Retries(c)
      <4>1. call[c].tries \in Nat /\ call[c].tries + 1 <= Cardinality(Over(c))
        BY <2>1, <3>4 DEF Tries
      <4>2. Retries(c)
        BY <1>1, <2>3, <3>4, <4>1
      <4>3. call'[c].pc = "sent" /\ call'[c].tries = call[c].tries + 1
        BY <4>2
      <4>4. Row' = Row
        BY <1>0, <3>4 DEF Row
      <4>. QED BY <2>3, <4>1, <4>3, <4>4 DEF Tries
    <3>5. CASE call[c].op \in {"save", "end"} /\ (store' = store \/ Told(c, None))
      <4>1. Row' = Row \/ call'[c].pc = "done"
        BY <1>0, <3>5 DEF Row
      <4>2. Tries(c)'
        BY <2>2, <3>5 DEF Tries
      <4>. QED BY <4>1, <4>2
    <3>. QED BY <2>1, <3>1, <3>2, <3>3, <3>4, <3>5 DEF TablesSession
  <2>. QED BY <1>2, <2>2, <2>4
<1>4. ASSUME NEW c \in Calls, Dies(c) PROVE \A d \in Calls : Tries(d)'
  <2>1. Turns(c) /\ store' = store /\ call'[c].pc = "dead" /\ call[c].pc # "done"
    BY <1>4, TurnsIs, Fielded DEF Dies, Is, Shaped
  <2>2. \A d \in Calls : d # c => call'[d] = call[d]
    BY <2>1, Others
  <2>3. Row' = Row
    BY <1>0, <2>1 DEF Row
  <2>4. Tries(c)'
    BY <2>1 DEF Tries, In
  <2>. QED BY <1>2, <2>1, <2>2, <2>3, <2>4
<1>5. ASSUME NEW c \in Calls, NEW op \in Operations[scenario], NEW a \in Accounts, NEW u \in Usernames, Starts(c, op, a, u)
      PROVE  \A d \in Calls : Tries(d)'
  <2>1. /\ call'[c].pc = "sent" /\ call[c].pc = "idle" /\ store' = store /\ call'[c].tries = 0
        /\ \A d \in Calls : d # c => call'[d] = call[d]
    BY <1>5, Fielded DEF Starts, Still, Shaped
  <2>2. Row' = Row
    BY <1>0, <2>1 DEF Row
  <2>3. Over(c)' = Over(c) /\ Cardinality(Over(c)) \in Nat
    BY <2>1, OverBound DEF Over
  <2>4. Tries(c)'
    BY <2>1, <2>3 DEF Tries, In
  <2>. QED BY <1>2, <2>1, <2>2, <2>4
<1>. QED BY <1>0, <1>3, <1>4, <1>5, NextIs

-----------------------------------------------------------------------------
(* The invariant. *)

\* What there is to begin with.
LEMMA FirstKeys ==
  ASSUME Init
  PROVE  /\ \A k \in Keys : k[1] \in Sole \cup {"grant"} /\ k[1] # scenario => store[k] = None
         /\ Granted = {}
<1>1. store = Stored0
  BY DEF Init
<1>2. ASSUME NEW k \in Keys, k[1] \in Sole \cup {"grant"}, k[1] # scenario \/ scenario = "grant" PROVE store[k] = None
  <2>1. k # <<"index">> /\ k # <<"username", Name>> /\ k # <<"credential", Somebody>>
    BY <1>2 DEF Sole
  <2>2. k # <<scenario>> \/ scenario = "grant"
    BY <1>2
  <2>. QED BY <1>1, <2>1, <2>2 DEF Stored0
<1>. QED BY <1>2 DEF Granted

LEMMA FirstShaped ==
  ASSUME Init
  PROVE  Shaped /\ Apart /\ Gone /\ \A c \in Calls : call[c].pc = "idle"
<1>1. /\ DOMAIN call = Calls /\ \A c \in Calls : call[c] = Idle
      /\ store = Stored0 /\ now = 0 /\ alone = {} /\ scenario \in Scenarios
  BY DEF Init
<1>2. DOMAIN Idle = Fields /\ Idle.pc = "idle" /\ Idle.op = None /\ Idle.tries = 0
  BY DEF Idle, Fields
<1>3. scenario \in {"artifact", "session", "claim", "credential", "realm", "client", "identity", "grant"}
  BY <1>1, TableAssumption
<1>4. Shaped
  BY <1>1, <1>2, <1>3, AdapterAssumption DEF Shaped, Formed, Stored0
<1>5. Apart
  BY <1>1 DEF Apart
<1>6. None \notin Ends /\ None \notin {"consent"}
  BY TableAssumption, NoneAssumption DEF Ends
<1>7. Gone
  BY <1>1, <1>2, <1>6, FirstKeys DEF Gone, Ended, In
<1>. QED BY <1>1, <1>2, <1>4, <1>5, <1>7

LEMMA FirstSession ==
  ASSUME Init, scenario = "session"
  PROVE  IF Sql THEN SessionRow ELSE SessionEntries
<1>1. /\ \A c \in Calls : call[c].pc = "idle"
      /\ store = Stored0 /\ <<"session">> \in Keys
  BY FirstShaped DEF Init, Keys
<1>2. CASE Sql
  <2>1. Row = [clients |-> {}]
    BY <1>1, <1>2 DEF Stored0, Row, Sql
  <2>. QED BY <1>1, <1>2, <2>1 DEF SessionRow, Session, In
<1>3. CASE ~Sql
  <2>1. Row = [value |-> {}, expires |-> Kv!Forever]
    BY <1>1, <1>3 DEF Stored0, Row, Sql
  <2>2. \A d \in Calls : store[<<"added", d>>] = None
    BY <1>1 DEF Stored0, Keys
  <2>. QED BY <1>1, <1>3, <2>1, <2>2 DEF SessionEntries, Holds, In
<1>. QED BY <1>2, <1>3

LEMMA FirstArtifact ==
  ASSUME Init, scenario = "artifact", ~Sql
  PROVE  ArtifactEntries
<1>1. /\ \A c \in Calls : call[c].pc = "idle"
      /\ store = Stored0 /\ <<"artifact">> \in Keys /\ <<"index">> \in Keys /\ alone = {}
  BY FirstShaped DEF Init, Keys
<1>2. Expiry \in Nat
  BY AdapterAssumption
<1>3. /\ Row = [value |-> [expires |-> Expiry], expires |-> Kv!TtlFrom(Expiry, 0)]
      /\ store[<<"index">>] = [value |-> None, expires |-> Kv!TtlFrom(Expiry, 0)]
  BY <1>1 DEF Stored0, Row, Sql
<1>4. Kv!TtlFrom(Expiry, 0) \in Nat /\ Kv!TtlFrom(Expiry, 0) >= Expiry
  BY <1>2, TtlFromReaches
<1>5. Row \in ArtifactEntry /\ store[<<"index">>] \in IndexEntry /\ Row.expires >= Expiry /\ store[<<"index">>].expires >= Expiry
  BY <1>3, <1>4 DEF ArtifactEntry, IndexEntry, KvArtifact
<1>6. Indexed
  BY <1>5, ArtifactsAreNot DEF Indexed
<1>. QED BY <1>1, <1>5, <1>6 DEF ArtifactEntries, ArtifactEntry, IndexEntry, In

LEMMA FirstCredential ==
  ASSUME Init, scenario = "credential"
  PROVE  Answered /\ IF Sql THEN CredentialRows ELSE CredentialTypes /\ Owners /\ Resolving
<1>1. /\ \A c \in Calls : call[c].pc = "idle"
      /\ store = Stored0 /\ Somebody \in Accounts /\ Name \in Usernames
  BY FirstShaped, TableAssumption DEF Init, Somebody, Name
<1>2. Answered /\ CredentialRows /\ Owners
  BY <1>1 DEF Answered, CredentialRows, Owners, Making, WasMade, Saving, In
<1>3. CASE ~Sql
  <2>1. \A a \in Accounts : Credential(a) = IF a = Somebody THEN Lasting([username |-> Name]) ELSE None
    BY <1>1, <1>3, CredentialKeys DEF Stored0, Credential, Sql, Lasting
  <2>2. \A u \in Usernames : NameOf(u) = IF u = Name THEN Lasting(Somebody) ELSE None
    BY <1>1, <1>3 DEF Stored0, NameOf, Sql, Lasting, Keys
  <2>3. /\ Lasting([username |-> Name]) \in CredentialEntry /\ Lasting(Somebody) \in NameEntry
        /\ Lasting([username |-> Name]).value.username = Name /\ Lasting(Somebody).value = Somebody
    BY <1>1 DEF Lasting, CredentialEntry, NameEntry, Credentials
  <2>4. Lasting([username |-> Name]) # None /\ Lasting(Somebody) # None
    BY <2>3, NamesAreNot
  <2>5. CredentialTypes
    BY <1>1, <2>1, <2>2, <2>3 DEF CredentialTypes, Saving, In
  <2>6. \A u \in Usernames : HasCredential(u)
    BY <1>1, <2>1, <2>2, <2>3, <2>4 DEF HasCredential
  <2>7. \A a \in Accounts : HasName(a)
    BY <1>1, <2>1, <2>2, <2>3, <2>4 DEF HasName
  <2>8. Resolved
    BY <1>1, <2>6, <2>7 DEF Resolved, Maker, Carries, Dropping, Dropped, Making, Saving, In
  <2>. QED BY <1>2, <1>3, <2>5, <2>8, ResolvingIs
<1>. QED BY <1>2, <1>3

LEMMA KInvFirst == ASSUME Init PROVE KInv
BY FirstShaped, FirstSession, FirstArtifact, FirstCredential DEF KInv

LEMMA KInvNext ==
  ASSUME KInv, [Next]_all
  PROVE  KInv'
<1>1. CASE UNCHANGED all
  <2>1. /\ Shaped' <=> Shaped
        /\ Apart' <=> Apart
    BY <1>1 DEF all, vars, Shaped, Apart, Formed, InFlight
  <2>2. Gone' <=> Gone
    BY <1>1 DEF all, vars, Gone, Ended, Row, Holds, Granted, In, Sql
  <2>3. (SessionRow' <=> SessionRow) /\ (SessionEntries' <=> SessionEntries)
    BY <1>1 DEF all, vars, SessionRow, SessionEntries, BothCrossed, Crossed, Row, Holds, In
  <2>4. ArtifactEntries' <=> ArtifactEntries
    BY <1>1 DEF all, vars, ArtifactEntries, Indexed, RevokeCrossed, Crossed, Row, In
  <2>5. (Answered' <=> Answered) /\ (CredentialRows' <=> CredentialRows) /\ (CredentialTypes' <=> CredentialTypes)
    BY <1>1 DEF all, vars, Answered, CredentialRows, CredentialTypes, Nobody, Credential, NameOf, Saving, In
  <2>6. Owners' <=> Owners
    BY <1>1 DEF all, vars, Owners, Nobody, Credential, NameOf, Making, WasMade, Saving, In
  <2>7. Resolving' <=> Resolving
    BY <1>1 DEF all, vars, Resolving, Orderly, Credential, NameOf, Making, Saving, In
  <2>. QED BY <1>1, <2>1, <2>2, <2>3, <2>4, <2>5, <2>6, <2>7 DEF all, vars, KInv, Sql
<1>2. CASE Next
  <2>1. scenario' = scenario /\ (Sql' <=> Sql)
    BY <1>2, NextIs DEF KInv
  <2>2. Shaped' /\ Apart' /\ Gone'
    BY <1>2, ShapedNext, ApartNext, GoneNext DEF KInv
  <2>3. scenario = "session" => IF Sql THEN SessionRow' ELSE SessionEntries'
    BY <1>2, SessionRowNext, SessionEntriesNext DEF KInv
  <2>4. scenario = "artifact" /\ ~Sql => ArtifactEntries'
    BY <1>2, ArtifactEntriesNext DEF KInv
  <2>5. scenario = "credential" => Answered' /\ IF Sql THEN CredentialRows' ELSE CredentialTypes' /\ Owners' /\ Resolving'
    BY <1>2, AnsweredNext, CredentialRowsNext, EntriesNext DEF KInv
  <2>. QED BY <2>1, <2>2, <2>3, <2>4, <2>5 DEF KInv
<1>. QED BY <1>1, <1>2

-----------------------------------------------------------------------------
(* What follows from it. *)

LEMMA HeldIs == \A k : Kv!Held(k) <=> Held(k)
BY DEF Kv!Held, Held, Had

\* Of a session's list, apart from the retries.
LEMMA ListedIs ==
  ASSUME KInv, scenario = "session", NEW c \in Calls
  PROVE  /\ call[c].op \in {"addClient", "save"} /\ call[c].pc = "done" /\ Listed # None => c \in Listed \/ WrittenOver(c)
         /\ In(c, "end", "done") => Listed = None \/ WrittenOver(c)
         /\ ~Sql => ~In(c, "addClient", "threw")
<1>1. CASE Sql
  <2>1. SessionRow /\ Listed = IF Row = None THEN None ELSE Row.clients
    BY <1>1 DEF KInv, Listed, Sql, Row
  <2>2. Crossed("save") # {} => WrittenOver(c)
    BY <1>1 DEF WrittenOver, Sql
  <2>. QED BY <1>1, <2>1, <2>2 DEF SessionRow, In
<1>2. CASE ~Sql
  <2>1. SessionEntries /\ Shaped /\ backend = "kv"
    BY <1>2 DEF KInv, Sql
  <2>2. /\ Row \in SessionEntry \cup {None}
        /\ \A d \in Calls : store[<<"added", d>>] \in AddedEntry \cup {None}
    BY <2>1 DEF SessionEntries, SessionEntry, AddedEntry
  <2>3. Held(<<"session">>) <=> Row # None
    BY <2>1, <2>2, SessionHeld
  <2>4. store[<<"added", c>>] # None => Held(<<"added", c>>)
    BY <2>1, <2>2, ForeverIsLong DEF Held, Had, AddedEntry
  <2>5. Listed = IF Row # None THEN Row.value \cup {d \in Calls : Held(<<"added", d>>)} ELSE None
    BY <2>1, <2>3, HeldIs DEF Listed, Row
  <2>6. BothCrossed => WrittenOver(c)
    BY DEF BothCrossed, WrittenOver
  <2>7. Crossed("save") # {} /\ call[c].op = "save" => WrittenOver(c)
    BY DEF WrittenOver
  <2>8. In(c, "addClient", "done") /\ Row # None => c \in Listed \/ WrittenOver(c)
    BY <2>1, <2>4, <2>5, <2>6 DEF SessionEntries
  <2>9. In(c, "save", "done") /\ Row # None => c \in Listed \/ WrittenOver(c)
    BY <2>1, <2>5, <2>7 DEF SessionEntries, In
  <2>10. In(c, "end", "done") => Row = None \/ WrittenOver(c)
    BY <2>1, <2>6 DEF SessionEntries, In
  <2>11. ~In(c, "addClient", "threw")
    BY <2>1 DEF SessionEntries
  <2>. QED BY <2>5, <2>8, <2>9, <2>10, <2>11 DEF In
<1>. QED BY <1>1, <1>2

LEMMA GrantGoesIs == ASSUME KInv PROVE GrantGoes
<1>. SUFFICES ASSUME NEW r \in Calls, In(r, "revoke", "done"), r \in alone
     PROVE  Life # "free" \/ (backend = "kv" /\ Crossed("revoke") # {} /\ Crossed("save") # {})
  BY DEF GrantGoes
<1>1. scenario = "artifact" /\ Shaped
  BY OperationsAre DEF KInv, Shaped, In
<1>2. CASE Sql
  <2>1. \A m \in Calls : call[m].op \notin Makes
    <3>1. \A m \in Calls : call[m].op \in {"consume", "save", "destroy", "revoke", "prune", None}
      BY <1>1, OperationsAre DEF Shaped
    <3>. QED BY <3>1, NoneAssumption, TableAssumption DEF Makes
  <2>2. Ended
    BY <1>2, <2>1 DEF Ended, In
  <2>3. Row = None
    BY <1>1, <2>2 DEF KInv, Gone, Sole
  <2>4. Life = SqlLife /\ SqlLife = "absent"
    BY <1>1, <1>2, <2>3 DEF Life, Once, Sql, SqlLife, Row, Drizzle!Live
  <2>. QED BY <2>4
<1>3. CASE ~Sql
  <2>1. ArtifactEntries /\ backend = "kv"
    BY <1>1, <1>3 DEF KInv, Sql
  <2>2. RevokeCrossed \/ Expiry <= now \/ Row = None
    BY <2>1 DEF ArtifactEntries
  <2>3. Row # None => Row.value.expires = Expiry
    BY <2>1 DEF ArtifactEntries, KvArtifact
  <2>4. Expiry <= now \/ Row = None => Life # "free"
    <3>1. Life = KvLife
      BY <1>1, <2>1 DEF Life, Once
    <3>2. Kv!Held(<<"artifact">>) => Row # None
      BY <1>1 DEF Kv!Held, Row
    <3>3. Row # None => Kv!Artifact.expires = Expiry
      BY <1>1, <2>3 DEF Kv!Artifact, Row
    <3>4. Expiry <= now => ~(Expiry > now)
      BY AdapterAssumption, <1>1 DEF Shaped
    <3>. QED BY <1>1, <3>1, <3>2, <3>3, <3>4 DEF KvLife
  <2>. QED BY <2>1, <2>2, <2>4 DEF RevokeCrossed
<1>. QED BY <1>2, <1>3

LEMMA DestroyedStaysIs == ASSUME KInv PROVE DestroyedStays
<1>. SUFFICES ASSUME \E e \in alone : call[e].op \in Ends /\ call[e].pc = "done", \A m \in Calls : call[m].op \notin Makes,
                     NEW k \in Keys, k[1] \in {"artifact", "session", "client", "identity", "grant"}
              PROVE  store[k] = None
  BY DEF DestroyedStays, Kv!Held
<1>1. Ended /\ Gone
  BY DEF Ended, KInv
<1>2. CASE k[1] # scenario
  BY <1>1, <1>2 DEF Gone, Sole
<1>3. CASE k[1] = scenario /\ scenario = "grant"
  BY <1>1, <1>3 DEF Gone, Granted
<1>4. CASE k[1] = scenario /\ scenario # "grant"
  <2>1. scenario \in Sole
    BY <1>4 DEF Sole
  <2>2. k = <<scenario>>
    BY <1>4, <2>1 DEF Keys, Sole
  <2>. QED BY <1>1, <2>1, <2>2 DEF Gone, Row
<1>. QED BY <1>2, <1>3, <1>4

LEMMA CreatedOnceIs == ASSUME KInv PROVE CreatedOnce
<1>. SUFFICES ASSUME scenario = "credential", NEW c \in Calls, NEW d \in Calls,
                     c # d, In(c, "create", "done"), In(d, "create", "done"), call[c].answer, call[d].answer,
                     call[c].username = call[d].username \/ call[c].account = call[d].account,
                     Nobody("destroy")
              PROVE  FALSE
  BY DEF CreatedOnce, Nobody
<1>1. Answered
  BY DEF KInv
<1>2. call[c].answer = TRUE /\ call[d].answer = TRUE
  <2>1. call[c].answer \in BOOLEAN /\ call[d].answer \in BOOLEAN
    BY <1>1 DEF Answered
  <2>. QED BY <2>1
<1>3. CASE Sql
  BY <1>2, <1>3 DEF KInv, CredentialRows
<1>4. CASE ~Sql
  BY <1>2, <1>4 DEF KInv, Owners, WasMade
<1>. QED BY <1>3, <1>4

LEMMA NamesResolveIs == ASSUME KInv PROVE NamesResolve
<1>. SUFFICES ASSUME scenario = "credential", backend = "kv", NEW u \in Usernames,
                     Kv!Held(<<"username", u>>), Kv!Held(<<"credential", store[<<"username", u>>].value>>),
                     \A c \in Calls : ~InFlight(c) /\ call[c].pc # "dead",
                     \A c \in Calls \ alone : call[c].op # "destroy"
              PROVE  store[<<"credential", store[<<"username", u>>].value>>].value.username = u
  BY DEF NamesResolve
<1>1. Resolving
  BY DEF KInv, Sql
<1>2. HasCredential(u)
  BY <1>1, ResolvingIs DEF Orderly, Resolved
<1>3. \A c \in Calls : ~Making(c)
  BY DEF Making, InFlight
<1>4. NameOf(u) # None
  BY DEF Kv!Held, NameOf
<1>5. Credential(NameOf(u).value).value.username = u
  BY <1>2, <1>3, <1>4 DEF HasCredential
<1>. QED BY <1>5 DEF Credential, NameOf

LEMMA OneConsentIs == ASSUME KInv PROVE OneConsent
<1>. SUFFICES ASSUME scenario = "grant", Sql PROVE Cardinality(Drizzle!Stored("grant")) <= 1
  BY DEF OneConsent, Sql
<1>1. Drizzle!Stored("grant") = Granted
  BY DEF Drizzle!Stored, Drizzle!Keys, Keys, Granted
<1>2. \A k, l \in Granted : k = l
  BY DEF KInv, Gone
<1>3. CASE Granted = {}
  BY <1>1, <1>3, FS_EmptySet
<1>4. CASE Granted # {}
  <2>1. PICK k \in Granted : TRUE
    BY <1>4
  <2>2. Granted = {k}
    BY <1>2, <2>1
  <2>3. Cardinality({k}) = 1
    BY FS_Singleton
  <2>. QED BY <1>1, <2>2, <2>3
<1>. QED BY <1>3, <1>4

\* What is known of every table holds in every state: which calls hold a copy of a row that
\* another may write over, that what ended alone is gone and no copy of it is held, which names
\* and credentials belong together, and who was told of them.
THEOREM TablesKeep == Spec => []KInv
<1>1. Init => KInv
  BY KInvFirst
<1>2. KInv /\ [Next]_all => KInv'
  BY KInvNext
<1>. QED BY <1>1, <1>2, PTL DEF Spec

\* A client whose addition was answered is on the session's list and an ended session stays
\* ended, but for a whole row written over them; and no addition runs out of retries where there
\* are as many as there are calls to retry for: each retry is a call that was answered in between
\* (adapter.ts:74; kv.ts:171-184; drizzle, kysely and typeorm/index.ts, addClient).
THEOREM ClientsStayListed ==
  ASSUME IsFiniteSet(Calls), Cardinality(Calls) <= Attempts
  PROVE  Spec => []ClientsAreListed
<1>. DEFINE TInv == scenario = "session" /\ Sql => \A c \in Calls : Tries(c)
<1>1. Init => TInv
  <2>. SUFFICES ASSUME Init, NEW c \in Calls PROVE Tries(c)
    OBVIOUS
  <2>1. call[c].pc = "idle"
    BY FirstShaped
  <2>. QED BY <2>1 DEF Tries, In
<1>2. KInv /\ TInv /\ [Next]_all => TInv'
  <2>. SUFFICES ASSUME KInv, TInv, [Next]_all PROVE TInv'
    OBVIOUS
  <2>1. CASE UNCHANGED all
    <3>1. \A c \in Calls : Tries(c)' <=> Tries(c)
      BY <2>1 DEF all, vars, Tries, Over, Row, In
    <3>. QED BY <2>1, <3>1 DEF all, vars, Sql
  <2>2. CASE Next
    <3>1. Shaped /\ Apart /\ scenario' = scenario /\ (Sql' <=> Sql)
      BY <2>2, NextIs DEF KInv
    <3>. QED BY <2>2, <3>1, TriesNext
  <2>. QED BY <2>1, <2>2
<1>3. KInv /\ TInv => ClientsAreListed
  <2>. SUFFICES ASSUME KInv, TInv, scenario = "session", NEW c \in Calls
       PROVE  /\ call[c].op \in {"addClient", "save"} /\ call[c].pc = "done" /\ Listed # None => c \in Listed \/ WrittenOver(c)
              /\ In(c, "end", "done") => Listed = None \/ WrittenOver(c)
              /\ ~In(c, "addClient", "threw")
    BY DEF ClientsAreListed
  <2>1. ~In(c, "addClient", "threw")
    BY ListedIs DEF Tries
  <2>. QED BY <2>1, ListedIs
<1>. HIDE DEF TInv
<1>. QED BY <1>1, <1>2, <1>3, TablesKeep, PTL DEF Spec

\* A revocation, a destruction, an end that no call crossed reaches everything: it leaves nothing
\* of the grant, and what is gone stays away until somebody makes it again, over every adapter
\* (adapter.ts:43-47, 66-71; kv.ts:113-126).
THEOREM RevocationsReach == Spec => []RevokeReaches
<1>1. KInv => RevokeReaches
  BY GrantGoesIs, DestroyedStaysIs DEF RevokeReaches
<1>. QED BY <1>1, TablesKeep, PTL

\* Of two sign-ups for one name or one account one is told it was made, unless a credential was
\* destroyed; a name finds the account that has it when no call is on its way, none died and no
\* destruction crossed another call; and two first consents are one grant in the tables
\* (kv.ts:249-269; adapter.ts:115-116).
THEOREM OneOfEachName == Spec => []OneOfAName
<1>1. KInv => OneOfAName
  BY CreatedOnceIs, NamesResolveIs, OneConsentIs DEF OneOfAName
<1>. QED BY <1>1, TablesKeep, PTL
==================================================================================
