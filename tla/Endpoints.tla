-------------------------------- MODULE Endpoints --------------------------------
(***************************************************************************)
(* What the provider's endpoints share: the stores they read and write and *)
(* the requests under way.                                                 *)
(*                                                                         *)
(* A request is a process: a step runs to the next await of a store or of  *)
(* the host, and other requests take theirs in between.  Reads made one    *)
(* after the other with nothing written between them are one step.         *)
(***************************************************************************)
EXTENDS Setup, FiniteSets

CONSTANTS
  App, Api,    \* two clients the operator registered
  Document,    \* a client_id that is the URL of a metadata document
  Account, Sessions,
  Unresolved,  \* what a client knows an account by when sectorOf throws
  Before,      \* a logout interaction stored before
  Root, Refresh, \* an access and a refresh token issued before
  Scenarios,   \* what the requests are about
  Bodies,      \* the metadata clients register
  Patches,     \* what operators change
  Setups,      \* the configurations, by scenario
  KeySets,     \* the active keys, by scenario
  Requests,    \* how many requests there are, to an endpoint or the management API, by scenario
  MaxTime      \* and how far the clock runs

VARIABLES
  scenario,
  config, keys,  \* chosen at the start
  clients,       \* the client store
  document,      \* what the host's resolveClientMetadata answers for Document
  tokens,        \* the stored access and refresh tokens
  grant,         \* whether the grant behind them stands
  sessions,      \* the stored sessions
  interactions,  \* logout interactions, each named by the request that stored it, and one of before
  replay,        \* replay.claim: [namespace -> until when the value is claimed]
  nonces,        \* dpop_nonce artifacts: [request that issued it -> whom it is for]
  now,
  call,          \* [Calls -> the state of a request]
  past           \* the properties' memory

stores == <<clients, document, tokens, grant, sessions, interactions, replay, nonces>>
setup == <<scenario, config, keys>>
all == <<setup, stores, now, call, past>>

\* Requests are numbered as they begin.
Calls == UNION {1..Requests[s] : s \in Scenarios}

ClientIds == {App, Api, Document} \cup Calls
TokenIds == {Root, Refresh} \cup Calls
Interactions == Calls \cup {Before}

\* after: the requests that had ended when it began, which the properties are about.
Idle == [op |-> None, pc |-> "idle", given |-> None, seen |-> None, answer |-> None, after |-> {}]

In(c, op, pc) == call[c].op = op /\ call[c].pc = pc
Done(c, op) == In(c, op, "done")
Ended(c) == call[c].pc \in {"done", "failed", "dead"}
InFlight(c) == call[c].pc # "idle" /\ ~Ended(c)

\* A request's first step, and its later ones.
Starts(c) == c \in 1..Requests[scenario] /\ call[c].pc = "idle" /\ \A d \in 1..(c - 1) : call[d].pc # "idle"
Begin(c, op, given, pc, seen, answer) ==
  call' = [call EXCEPT ![c] = [op |-> op, pc |-> pc, given |-> given, seen |-> seen, answer |-> answer,
                               after |-> {d \in Calls : Ended(d)}]]
Go(c, pc, seen) == call' = [call EXCEPT ![c].pc = pc, ![c].seen = seen]
Answer(c, value) == call' = [call EXCEPT ![c].pc = "done", ![c].seen = None, ![c].answer = value]
Leave(c, seen, value) == call' = [call EXCEPT ![c].pc = "done", ![c].seen = seen, ![c].answer = value]
Throw(c) == call' = [call EXCEPT ![c].pc = "failed", ![c].given = None, ![c].seen = None]

\* The process stops between two steps of a request: where the request has more than one thing
\* left to do, for a request that has one left may as well never take it.
Crash(c) ==
  /\ InFlight(c) /\ call[c].op \in {"end", "manage", "revoke"}
  /\ call' = [call EXCEPT ![c].pc = "dead"]
  /\ UNCHANGED <<stores, past>>

-----------------------------------------------------------------------------
\* What a request may be, and what it may answer with.
Ops == {"post", "put", "delete", "create", "update", "destroy", "visit", "assert", "prove", "credentials",
        "exchange", "introspect", "userinfo", "revoke", "end", "confirm", "manage", "redeem"}
Outcomes == {"stored", "refused", "gone", "goes on", "accepted", "issued", "ok", "asked", "signed out"}

-----------------------------------------------------------------------------
(* Clients.  A secret, a registration access token and a creation are named *)
(* by the request that drew them; vouched: whether the host or the operator *)
(* let this metadata off PKCE, which the properties are about.              *)

Operated(id) == [
  method |-> "client_secret_basic", grantTypes |-> {"authorization_code", "refresh_token"},
  redirectUri |-> "https", host |-> "one", native |-> FALSE, sector |-> FALSE, subjectType |-> None,
  alg |-> None, requirePkce |-> TRUE, vouched |-> FALSE, profile |-> None,
  logoutUris |-> {"back", "front"}, postLogoutRedirectUri |-> id,
  resourceServer |-> FALSE, keys |-> "jwks", subjectDn |-> FALSE,
  secret |-> id, access |-> None, createdAt |-> id]

\* A client with what a patch says instead.
Patched(patch, client) ==
  [field \in DOMAIN client |-> IF field \in DOMAIN patch THEN patch[field] ELSE client[field]]

\* How many hosts a client's redirect URIs are on, and the subjects its user may have.
Hosts == {"one", "both"}
Subjects == {Account} \cup {<<sector, Account>> : sector \in {"declared", "one"}}

\* What a client is.
Uris == {"https", "http", "custom", "loopback", "localhost"}
Client == [
  method : Methods, grantTypes : SUBSET GrantTypes, redirectUri : Uris, host : Hosts, native : BOOLEAN,
  sector : BOOLEAN, subjectType : {None, "public", "pairwise"}, alg : ClientSigningAlgs \cup {None},
  requirePkce : BOOLEAN, vouched : BOOLEAN, profile : {None, "fapi2"},
  logoutUris : SUBSET {"back", "front"}, postLogoutRedirectUri : ClientIds \cup {None},
  resourceServer : BOOLEAN, keys : {None, "jwks", "jwks_uri"}, subjectDn : BOOLEAN,
  secret : ClientIds \cup {None}, access : ClientIds \cup {None}, createdAt : ClientIds \cup {None}]

\* Names are distinct, and what stands for nothing is none of them.
ASSUME NamesAssumption ==
  /\ \A s \in Scenarios : Requests[s] \in Nat
  /\ App # Api /\ Document \notin {App, Api} /\ {App, Api, Document} \cap Calls = {}
  /\ Root # Refresh /\ {Root, Refresh} \cap Calls = {} /\ Before \notin Calls
  /\ Sessions # {}
  /\ None \notin ClientIds \cup TokenIds \cup Interactions \cup Sessions \cup Subjects \cup Client
  /\ None \notin Ops \cup Outcomes \cup {"fapi2", "RS256", "public", "pairwise"}
  /\ Unresolved \notin Subjects \cup {None}

\* What is changed of a client leaves it one; vouched says whether it is let off PKCE.
Speaks(patch) ==
  /\ Patched(patch, Operated(App)) \in Client
  /\ "requirePkce" \in DOMAIN patch \/ "vouched" \in DOMAIN patch =>
       {"requirePkce", "vouched"} \subseteq DOMAIN patch /\ patch.vouched = ~patch.requirePkce
ASSUME PatchesAssumption == \A s \in Scenarios : \A patch \in Patches[s] : Speaks(patch)

\* What a metadata document says becomes a client that holds no secret; a document
\* that asks for more is no client (clients/metadata-document.ts).
ClientFrom(body) ==
  IF body = None \/ body.method \notin {"none", "private_key_jwt"} \cap config.clientAuthMethods THEN None
  ELSE IF body.method = "private_key_jwt" /\ body.keys = None THEN None
  ELSE [Operated(None) EXCEPT !.method = body.method, !.native = TRUE, !.keys = body.keys]

FindClient(id) == IF id = Document /\ clients[id] = None THEN ClientFrom(document) ELSE clients[id]

\* The subject a client knows the account by: by its sector, when it has one.
HasSector(client) == client.sector \/ client.host # "both"
SectorOf(client) == IF client.sector THEN "declared" ELSE client.host
SubjectFor(client, account) ==
  LET type == IF client.subjectType = None THEN config.subjectType ELSE client.subjectType IN
  IF type # "pairwise" THEN account
  ELSE IF ~config.pairwiseSalt \/ ~HasSector(client) THEN Unresolved
  ELSE <<SectorOf(client), account>>
================================================================================
