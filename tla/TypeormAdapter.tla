----------------------------- MODULE TypeormAdapter -----------------------------
(***************************************************************************)
(* adapters/typeorm/index.ts: the contract on repositories.  TypeORM does  *)
(* not say whether an insert wrote, so insert-if-absent is an insert and,  *)
(* when that fails, a look at what it collided with.                       *)
(***************************************************************************)
EXTENDS AdapterCalls

Live(row, at) == row # None /\ row.expires > at
Artifact == store[<<"artifact">>]
Session == store[<<"session">>]
Stored(table) == {k \in Keys : k[1] = table /\ store[k] # None}

\* artifacts.consume: UPDATE where not consumed and live, RETURNING
Consume(c) ==
  /\ In(c, "consume", "sent")
  /\ IF Live(Artifact, call[c].at) /\ ~Artifact.consumed
     THEN Put(<<"artifact">>, [Artifact EXCEPT !.consumed = TRUE]) /\ Answer(c, TRUE)
     ELSE Keep /\ Answer(c, FALSE)

FindArtifact(c) ==
  /\ In(c, "save", "sent") /\ scenario = "artifact" /\ Keep
  /\ IF Live(Artifact, call[c].at) THEN To(c, "upsert", Artifact) ELSE Answer(c, None)

\* orUpdate names the columns to write: consumed_at is not among them.
UpsertArtifact(c) ==
  /\ In(c, "save", "upsert") /\ scenario = "artifact"
  /\ Put(<<"artifact">>, IF Artifact = None THEN call[c].seen
                         ELSE [call[c].seen EXCEPT !.consumed = Artifact.consumed])
  /\ Answer(c, None)

DestroyArtifact(c) ==
  In(c, "destroy", "sent") /\ scenario = "artifact" /\ Delete(<<"artifact">>) /\ Answer(c, None)
RevokeByGrantId(c) == In(c, "revoke", "sent") /\ Delete(<<"artifact">>) /\ Answer(c, None)

\* prune selects the expired, then deletes them one by one by their keys.
Prune(c) ==
  /\ In(c, "prune", "sent") /\ Keep
  /\ IF Artifact # None /\ Artifact.expires <= call[c].at THEN To(c, "sweep", None) ELSE Answer(c, None)
Sweep(c) == In(c, "prune", "sweep") /\ Delete(<<"artifact">>) /\ Answer(c, None)

\* addClient compares the text of the list with the text it read.
ReadClients(c) ==
  /\ In(c, "addClient", "sent") /\ Keep
  /\ IF Session = None \/ (Session # None /\ c \in Session.clients) THEN Answer(c, None)
     ELSE To(c, "swap", Session.clients)
\* Mutant: the list is written over without a look at what it is now.
SwapAnyway(c) ==
  /\ In(c, "addClient", "swap")
  /\ IF Session = None THEN Keep ELSE Put(<<"session">>, [Session EXCEPT !.clients = call[c].seen \cup {c}])
  /\ Answer(c, None)
SwapClients(c) ==
  /\ In(c, "addClient", "swap")
  /\ IF Session # None /\ Session.clients = call[c].seen
     THEN Put(<<"session">>, [Session EXCEPT !.clients = @ \cup {c}]) /\ Answer(c, None)
     ELSE /\ Keep
          /\ IF call[c].tries + 1 = Attempts THEN Throw(c)
             ELSE call' = [call EXCEPT ![c].pc = "sent", ![c].tries = @ + 1, ![c].seen = None]

\* The whole row is written, the list of clients with it.
FindSession(c) ==
  /\ In(c, "save", "sent") /\ scenario = "session" /\ Keep
  /\ IF Session # None THEN To(c, "upsert", Session) ELSE Answer(c, None)
UpsertSession(c) ==
  /\ In(c, "save", "upsert") /\ scenario = "session"
  /\ Put(<<"session">>, [call[c].seen EXCEPT !.clients = @ \cup {c}]) /\ Answer(c, None)

EndSession(c) == In(c, "end", "sent") /\ Delete(<<"session">>) /\ Answer(c, None)

\* insertIfAbsent: the insert fails, and only a row that is there makes it a lost race.
Insert(c, key, row, collides) ==
  IF collides THEN Keep /\ To(c, "collided", None) ELSE Put(key, row) /\ Answer(c, TRUE)
Collided(c, collides) ==
  /\ call[c].pc = "collided" /\ Keep
  /\ IF collides THEN Answer(c, FALSE) ELSE Throw(c)

\* replay.claim: a lapsed claim is cleared, then the insert decides.
ClearLapsed(c) ==
  LET row == store[<<"claim">>] IN
  /\ In(c, "claim", "sent")
  /\ IF row # None /\ row.expires <= call[c].at THEN Delete(<<"claim">>) ELSE Keep
  /\ To(c, "insert", None)
Claim(c) ==
  /\ In(c, "claim", "insert")
  /\ Insert(c, <<"claim">>, [expires |-> call[c].at + Ttl], store[<<"claim">>] # None)
ClaimCollided(c) == In(c, "claim", "collided") /\ Collided(c, store[<<"claim">>] # None)

\* Both the account and the username are unique, and either is a lost race.
Collides(account, username) ==
  \E k \in Stored("credential") : k[2] = account \/ store[k].username = username

CreateCredential(c) ==
  LET a == call[c].account u == call[c].username IN
  /\ scenario = "credential"
  /\ \/ In(c, "create", "sent") /\ Insert(c, <<"credential", a>>, [username |-> u], Collides(a, u))
     \/ In(c, "create", "collided") /\ Collided(c, Collides(a, u))

FindCredential(c) ==
  LET row == store[<<"credential", call[c].account>>] IN
  /\ In(c, "save", "sent") /\ scenario = "credential" /\ Keep
  /\ IF row # None THEN To(c, "upsert", row) ELSE Answer(c, None)

\* The conflict is on the account: another account's username still makes it fail.
UpsertCredential(c) ==
  LET a == call[c].account row == call[c].seen IN
  /\ In(c, "save", "upsert") /\ scenario = "credential"
  /\ IF \E k \in Stored("credential") : k[2] # a /\ store[k].username = row.username
     THEN Keep /\ Throw(c)
     ELSE Put(<<"credential", a>>, row) /\ Answer(c, None)

DestroyCredential(c) ==
  /\ In(c, "destroy", "sent") /\ scenario = "credential"
  /\ Delete(<<"credential", call[c].account>>) /\ Answer(c, None)

CreateRealm(c) ==
  /\ scenario = "realm"
  /\ \/ In(c, "create", "sent") /\ Insert(c, <<"realm">>, [by |-> c], store[<<"realm">>] # None)
     \/ In(c, "create", "collided") /\ Collided(c, store[<<"realm">>] # None)
DestroyRealm(c) == In(c, "destroy", "sent") /\ scenario = "realm" /\ Delete(<<"realm">>) /\ Answer(c, None)

\* findByAccountAndClient: a first consent is written under an id of its own.
FindGrant(c) ==
  /\ In(c, "consent", "sent") /\ Keep
  /\ To(c, "upsert", IF Stored("grant") = {} THEN <<"grant", c>> ELSE CHOOSE k \in Stored("grant") : TRUE)

\* The conflict is on the id: a second grant of the account to the client fails.
UpsertGrant(c) ==
  /\ In(c, "consent", "upsert")
  /\ IF Stored("grant") \subseteq {call[c].seen}
     THEN Put(call[c].seen, [by |-> c]) /\ Answer(c, None)
     ELSE Keep /\ Throw(c)

\* management.revoke takes the grant there is.
DestroyGrant(c) ==
  \/ In(c, "withdraw", "sent") /\ Keep /\ IF Stored("grant") = {} THEN Answer(c, None)
                                           ELSE \E k \in Stored("grant") : To(c, "destroy", k)
  \/ In(c, "withdraw", "destroy") /\ Delete(call[c].seen) /\ Answer(c, None)

FindClient(c) == scenario = "client" /\ Looked(c, store[<<"client">>])
UpsertClient(c) == scenario = "client" /\ call[c].pc = "upsert" /\ Put(<<"client">>, call[c].seen) /\ Answer(c, None)
DestroyClient(c) == scenario = "client" /\ In(c, "destroy", "sent") /\ Delete(<<"client">>) /\ Answer(c, None)

FindIdentity(c) == scenario = "identity" /\ Looked(c, store[<<"identity">>])
UpsertIdentity(c) == In(c, "link", "upsert") /\ Put(<<"identity">>, call[c].seen) /\ Answer(c, None)
DestroyIdentity(c) == In(c, "unlink", "sent") /\ Delete(<<"identity">>) /\ Answer(c, None)

Next == \E c \in Calls :
  \/ Consume(c) \/ FindArtifact(c) \/ UpsertArtifact(c) \/ DestroyArtifact(c) \/ RevokeByGrantId(c) \/ Prune(c) \/ Sweep(c)
  \/ ReadClients(c) \/ SwapClients(c) \/ FindSession(c) \/ UpsertSession(c) \/ EndSession(c)
  \/ ClearLapsed(c) \/ Claim(c) \/ ClaimCollided(c)
  \/ CreateCredential(c) \/ FindCredential(c) \/ UpsertCredential(c) \/ DestroyCredential(c)
  \/ CreateRealm(c) \/ DestroyRealm(c) \/ FindGrant(c) \/ UpsertGrant(c) \/ DestroyGrant(c)
  \/ FindClient(c) \/ UpsertClient(c) \/ DestroyClient(c)
  \/ FindIdentity(c) \/ UpsertIdentity(c) \/ DestroyIdentity(c)
================================================================================
