------------------------------- MODULE KvAdapter -------------------------------
(***************************************************************************)
(* adapters/kv.ts over the memory store or Redis: an operation is several  *)
(* commands on keys, and only insert is atomic in what it checks and does. *)
(***************************************************************************)
EXTENDS AdapterCalls

Second == 2  \* in ticks

\* An entry that has run out is absent to find, insert and scan alike.
Held(key) == store[key] # None /\ store[key].expires > now
Forever == MaxTime + Second * (Expiry + Ttl) + 1
Set(key, value, ttl) == Put(key, [value |-> value, expires |-> IF ttl = None THEN Forever ELSE now + ttl])

\* insert: SET NX
Insert(key, value, ttl) == ~Held(key) /\ Set(key, value, ttl)

\* What is left of an expiry, in whole seconds and at least one.
TtlFrom(expires, at) ==
  IF expires <= at THEN Second ELSE Second * (((expires - at) + Second - 1) \div Second)

Artifact == store[<<"artifact">>].value

\* consume: the artifact is read, then its consumption is inserted under a key of its own.
ReadForConsume(c) ==
  /\ In(c, "consume", "sent") /\ Keep
  /\ IF Held(<<"artifact">>) /\ Artifact.expires > now THEN To(c, "insert", Artifact) ELSE Answer(c, FALSE)
Consume(c) ==
  LET ttl == TtlFrom(call[c].seen.expires, call[c].at) IN
  /\ In(c, "consume", "insert")
  /\ \/ Insert(<<"consumed">>, None, ttl) /\ Answer(c, TRUE)
     \/ Held(<<"consumed">>) /\ Keep /\ Answer(c, FALSE)

FindArtifact(c) ==
  /\ In(c, "save", "sent") /\ scenario = "artifact" /\ Keep
  /\ IF Held(<<"artifact">>) /\ Artifact.expires > now THEN To(c, "upsert", Artifact) ELSE Answer(c, None)

\* upsert: the artifact without its consumption, then its entry in the index of its grant.
UpsertArtifact(c) ==
  LET row == call[c].seen ttl == TtlFrom(row.expires, call[c].at) IN
  /\ scenario = "artifact"
  /\ \/ In(c, "save", "upsert") /\ Set(<<"artifact">>, row, ttl)
        /\ call' = [call EXCEPT ![c].pc = "index"]
     \/ In(c, "save", "index") /\ Set(<<"index">>, None, ttl) /\ Answer(c, None)

DestroyArtifact(c) ==
  In(c, "destroy", "sent") /\ scenario = "artifact" /\ Delete(<<"artifact">>) /\ Answer(c, None)

\* Mutant: the entry goes first.
RevokeEntryFirst(c) ==
  \/ /\ In(c, "revoke", "sent") /\ Keep
     /\ IF Held(<<"index">>) THEN To(c, "entry", None) ELSE Answer(c, None)
  \/ In(c, "revoke", "entry") /\ Delete(<<"index">>) /\ To(c, "artifact", None)
  \/ In(c, "revoke", "artifact") /\ Delete(<<"artifact">>) /\ Answer(c, None)

\* revokeByGrantId: what a scan of the index yields is destroyed, then its entry.
RevokeByGrantId(c) ==
  \/ /\ In(c, "revoke", "sent") /\ Keep
     /\ IF Held(<<"index">>) THEN To(c, "artifact", None) ELSE Answer(c, None)
  \/ In(c, "revoke", "artifact") /\ Delete(<<"artifact">>) /\ To(c, "entry", None)
  \/ In(c, "revoke", "entry") /\ Delete(<<"index">>) /\ Answer(c, None)

\* addClient: each client is a key of its own.
AddClient(c) ==
  \/ /\ In(c, "addClient", "sent") /\ Keep
     /\ IF Held(<<"session">>) THEN To(c, "add", None) ELSE Answer(c, None)
  \/ In(c, "addClient", "add") /\ Set(<<"added", c>>, None, None) /\ Answer(c, None)

\* Mutant: a session is made where none was found.
FindSessionOrMake(c) ==
  /\ scenario = "session" /\ Keep
  /\ \/ In(c, "save", "sent") /\ To(c, "list", IF Held(<<"session">>) THEN store[<<"session">>].value ELSE {})
     \/ In(c, "save", "list") /\ To(c, "upsert", call[c].seen \cup {d \in Calls : Held(<<"added", d>>)})

\* What find scans of the added clients goes into the value, for whoever writes it back.
FindSession(c) ==
  /\ scenario = "session" /\ Keep
  /\ \/ /\ In(c, "save", "sent")
        /\ IF Held(<<"session">>) THEN To(c, "list", store[<<"session">>].value) ELSE Answer(c, None)
     \/ In(c, "save", "list") /\ To(c, "upsert", call[c].seen \cup {d \in Calls : Held(<<"added", d>>)})
UpsertSession(c) ==
  /\ In(c, "save", "upsert") /\ scenario = "session"
  /\ Set(<<"session">>, call[c].seen \cup {c}, None) /\ Answer(c, None)

EndSession(c) ==
  \/ In(c, "end", "sent") /\ Delete(<<"session">>) /\ To(c, "clients", None)
  \/ \E d \in Calls : /\ In(c, "end", "clients") /\ Held(<<"added", d>>)
                      /\ Delete(<<"added", d>>) /\ call' = call
  \/ /\ In(c, "end", "clients") /\ \A d \in Calls : ~Held(<<"added", d>>)
     /\ Keep /\ Answer(c, None)

Claim(c) ==
  /\ In(c, "claim", "sent")
  /\ \/ Insert(<<"claim">>, None, Ttl) /\ Answer(c, TRUE)
     \/ Held(<<"claim">>) /\ Keep /\ Answer(c, FALSE)

\* Mutant: the name is looked up, then written.
CreateLookedUp(c) ==
  LET a == call[c].account u == call[c].username IN
  /\ scenario = "credential"
  /\ \/ /\ In(c, "create", "sent") /\ Keep
        /\ IF Held(<<"username", u>>) THEN Answer(c, FALSE) ELSE To(c, "name", None)
     \/ In(c, "create", "name") /\ Set(<<"username", u>>, a, None) /\ To(c, "insert", None)
     \/ In(c, "create", "insert") /\ Set(<<"credential", a>>, [username |-> u], None) /\ Answer(c, TRUE)

\* Mutant: a refusal leaves the name claimed.
CreateNotUndone(c) ==
  LET a == call[c].account u == call[c].username IN
  /\ scenario = "credential"
  /\ \/ /\ In(c, "create", "sent")
        /\ \/ Insert(<<"username", u>>, a, None) /\ To(c, "insert", None)
           \/ Held(<<"username", u>>) /\ Keep /\ Answer(c, FALSE)
     \/ /\ In(c, "create", "insert")
        /\ \/ Insert(<<"credential", a>>, [username |-> u], None) /\ Answer(c, TRUE)
           \/ Held(<<"credential", a>>) /\ Keep /\ Answer(c, FALSE)

\* create: the username is claimed, then the credential; a refusal undoes the first.
CreateCredential(c) ==
  LET a == call[c].account u == call[c].username IN
  /\ scenario = "credential"
  /\ \/ /\ In(c, "create", "sent")
        /\ \/ Insert(<<"username", u>>, a, None) /\ To(c, "insert", None)
           \/ Held(<<"username", u>>) /\ Keep /\ Answer(c, FALSE)
     \/ /\ In(c, "create", "insert")
        /\ \/ Insert(<<"credential", a>>, [username |-> u], None) /\ Answer(c, TRUE)
           \/ Held(<<"credential", a>>) /\ Keep /\ To(c, "undo", None)
     \/ In(c, "create", "undo") /\ Delete(<<"username", u>>) /\ Answer(c, FALSE)

FindCredential(c) ==
  LET key == <<"credential", call[c].account>> IN
  /\ In(c, "save", "sent") /\ scenario = "credential" /\ Keep
  /\ IF Held(key) THEN To(c, "upsert", store[key].value) ELSE Answer(c, None)

\* upsert reads the credential again: another username by now is a change of it.
UpsertCredential(c) ==
  LET a == call[c].account u == call[c].seen.username key == <<"credential", a>> IN
  /\ scenario = "credential" /\ call[c].op = "save"
  /\ \/ /\ call[c].pc = "upsert" /\ Keep
        /\ IF Held(key) /\ store[key].value.username # u
           THEN call' = [call EXCEPT ![c].pc = "name", ![c].username = store[key].value.username]
           ELSE call' = [call EXCEPT ![c].pc = "write"]
     \/ /\ call[c].pc = "name"
        /\ \/ Insert(<<"username", u>>, a, None) /\ call' = [call EXCEPT ![c].pc = "unname"]
           \/ Held(<<"username", u>>) /\ Keep /\ Throw(c)
     \/ /\ call[c].pc = "unname"
        /\ Delete(<<"username", call[c].username>>) /\ call' = [call EXCEPT ![c].pc = "write"]
     \/ call[c].pc = "write" /\ Set(key, call[c].seen, None) /\ Answer(c, None)

DestroyCredential(c) ==
  LET key == <<"credential", call[c].account>> IN
  /\ scenario = "credential"
  /\ \/ /\ In(c, "destroy", "sent") /\ Keep
        /\ IF Held(key) THEN To(c, "name", store[key].value) ELSE To(c, "credential", None)
     \/ In(c, "destroy", "name") /\ Delete(<<"username", call[c].seen.username>>) /\ To(c, "credential", None)
     \/ In(c, "destroy", "credential") /\ Delete(key) /\ Answer(c, None)

CreateRealm(c) ==
  /\ In(c, "create", "sent") /\ scenario = "realm"
  /\ \/ Insert(<<"realm">>, c, None) /\ Answer(c, TRUE)
     \/ Held(<<"realm">>) /\ Keep /\ Answer(c, FALSE)
DestroyRealm(c) == In(c, "destroy", "sent") /\ scenario = "realm" /\ Delete(<<"realm">>) /\ Answer(c, None)

\* A scan of the account's grants, then a key of the grant's own: nothing keeps the pair unique.
FindGrant(c) ==
  LET grants == {k \in Keys : k[1] = "grant" /\ Held(k)} IN
  /\ In(c, "consent", "sent") /\ Keep
  /\ \/ grants = {} /\ To(c, "upsert", <<"grant", c>>)
     \/ \E k \in grants : To(c, "upsert", k)
UpsertGrant(c) == In(c, "consent", "upsert") /\ Set(call[c].seen, c, None) /\ Answer(c, None)
DestroyGrant(c) ==
  LET grants == {k \in Keys : k[1] = "grant" /\ Held(k)} IN
  \/ In(c, "withdraw", "sent") /\ Keep /\ IF grants = {} THEN Answer(c, None)
                                           ELSE \E k \in grants : To(c, "destroy", k)
  \/ In(c, "withdraw", "destroy") /\ Delete(call[c].seen) /\ Answer(c, None)

Value(key) == IF Held(key) THEN store[key].value ELSE None
FindClient(c) == scenario = "client" /\ Looked(c, Value(<<"client">>))
UpsertClient(c) ==
  scenario = "client" /\ call[c].pc = "upsert" /\ Set(<<"client">>, call[c].seen, None) /\ Answer(c, None)
DestroyClient(c) == scenario = "client" /\ In(c, "destroy", "sent") /\ Delete(<<"client">>) /\ Answer(c, None)

FindIdentity(c) == scenario = "identity" /\ Looked(c, Value(<<"identity">>))
UpsertIdentity(c) == In(c, "link", "upsert") /\ Set(<<"identity">>, call[c].seen, None) /\ Answer(c, None)
DestroyIdentity(c) == In(c, "unlink", "sent") /\ Delete(<<"identity">>) /\ Answer(c, None)

Next == \E c \in Calls :
  \/ ReadForConsume(c) \/ Consume(c) \/ FindArtifact(c) \/ UpsertArtifact(c) \/ DestroyArtifact(c) \/ RevokeByGrantId(c)
  \/ AddClient(c) \/ FindSession(c) \/ UpsertSession(c) \/ EndSession(c) \/ Claim(c)
  \/ CreateCredential(c) \/ FindCredential(c) \/ UpsertCredential(c) \/ DestroyCredential(c)
  \/ CreateRealm(c) \/ DestroyRealm(c) \/ FindGrant(c) \/ UpsertGrant(c) \/ DestroyGrant(c)
  \/ FindClient(c) \/ UpsertClient(c) \/ DestroyClient(c)
  \/ FindIdentity(c) \/ UpsertIdentity(c) \/ DestroyIdentity(c)
================================================================================
