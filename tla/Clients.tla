--------------------------------- MODULE Clients ---------------------------------
(***************************************************************************)
(* How clients come to be and change: dynamic registration and its RFC     *)
(* 7592 updates (clients/registration.ts), the management API              *)
(* (clients/management.ts), metadata documents; and how they are           *)
(* authenticated and served (clients/authenticate.ts, token/id-token.ts).  *)
(*                                                                         *)
(* An update reads the client, awaits the host's vetting and the key store *)
(* and writes the whole client; nothing compares what it read with what it *)
(* overwrites.                                                             *)
(***************************************************************************)
EXTENDS Endpoints

others == <<tokens, grant, sessions, interactions, replay, nonces>>

Store(id, record) == clients' = [clients EXCEPT ![id] = record] /\ UNCHANGED <<document, others>>
Keep == UNCHANGED stores

\* The client is written as the request made it up; what it found is kept for the properties.
Written(c) ==
  /\ Store(call[c].seen.id, call[c].seen.record)
  /\ Leave(c, [id |-> call[c].seen.id, found |-> call[c].seen.found], "stored")
  /\ UNCHANGED past

-----------------------------------------------------------------------------
(* The metadata a stranger may register. *)

BrowserUri(uri, native) == uri \in {"https", "custom", "loopback"} \/ (uri = "localhost" /\ native)

\* Mutant: checks the grants it knows of, not those it offers.
GrantsUnchecked(body) ==
  /\ body.grantTypes # {}
  /\ ~(body.method = "none" /\ "client_credentials" \in body.grantTypes)
  /\ body.responseTypes # None =>
       ("authorization_code" \in body.grantTypes) = (body.responseTypes = {"code"})

GrantsFrom(body) ==
  /\ body.grantTypes # {}
  /\ body.grantTypes \subseteq SupportedGrantTypes(config)
  /\ ~(body.method = "none" /\ "client_credentials" \in body.grantTypes)
  /\ body.responseTypes # None =>
       /\ body.responseTypes \subseteq {"code"}
       /\ ("authorization_code" \in body.grantTypes) = (body.responseTypes = {"code"})

CibaMetadataFrom(body) ==
  IF Ciba \in body.grantTypes THEN body.mode \in {"poll", "ping"} ELSE body.mode = None

SubjectTypeFrom(body) == body.subjectType = "pairwise" => config.pairwiseSalt

Signable(alg) == alg \in SigningAlgorithms(keys)

\* Mutant: redirect URIs on several hosts are let through.
SectorUnchecked(body) == body.sector # None => config.resolveSectorIdentifier /\ body.sector = "listed"

Sector(body) ==
  IF body.sector = None THEN ~(body.subjectType = "pairwise" /\ body.host = "both")
  ELSE config.resolveSectorIdentifier /\ body.sector = "listed"

\* What the host's onRegister decides of a request; an exemption it may refuse to give.
Decisions == {"none", "exempt", "refuse"}

MetadataFrom(c, body, decision) == [Operated(c) EXCEPT
  !.method = body.method, !.grantTypes = body.grantTypes, !.redirectUri = body.redirectUri,
  !.host = body.host, !.native = body.native, !.sector = (body.sector # None),
  !.subjectType = body.subjectType, !.alg = IF body.alg = None THEN "RS256" ELSE body.alg,
  !.requirePkce = (decision # "exempt"), !.vouched = (decision = "exempt"),
  !.logoutUris = body.logoutUris, !.keys = body.keys,
  !.secret = IF body.method = "none" THEN None ELSE c, !.access = c]

\* What is registered makes a client.
ASSUME BodiesAssumption ==
  \A s \in Scenarios : \A body \in Bodies[s] : MetadataFrom(App, body, "none") \in Client

Registrable(c, body, decision) ==
  LET client == MetadataFrom(c, body, decision) IN
  /\ decision # "refuse"
  /\ BrowserUri(body.redirectUri, body.native)
  /\ body.method \in config.clientAuthMethods
  /\ GrantsFrom(body) /\ SubjectTypeFrom(body) /\ CibaMetadataFrom(body)
  /\ Signable(client.alg) /\ Sector(body) /\ FapiClient(config, client)
  /\ ~(decision = "exempt" /\ body.method = "none")

-----------------------------------------------------------------------------
(* The registration endpoint. *)

Post(c) ==
  /\ Starts(c) /\ scenario \in {"clients", "setup"}
  /\ \E body \in Bodies[scenario], decision \in Decisions :
       /\ "dynamicRegistration" \in config.features
       /\ LET given == [body |-> body, decision |-> decision] IN
          IF Registrable(c, body, decision)
          THEN Begin(c, "post", given, "store",
                     [id |-> c, found |-> None, record |-> MetadataFrom(c, body, decision)], None)
          ELSE Begin(c, "post", given, "done", None, "refused")
       /\ Keep /\ UNCHANGED past

\* The registration access token names its client; without it nothing is found.
Named == {id \in ClientIds : /\ "dynamicRegistration" \in config.features
                           /\ clients[id] # None /\ clients[id].access # None}

\* Mutant: the secret and the token are drawn anew.
UpdatedAfresh(existing, replacement) == [replacement EXCEPT !.createdAt = existing.createdAt]

\* Mutant: an exemption the stored client had outlives the new metadata.
UpdatedExempt(existing, replacement) == [replacement EXCEPT
  !.secret = IF existing.secret # None THEN existing.secret ELSE @,
  !.access = existing.access, !.createdAt = existing.createdAt, !.requirePkce = existing.requirePkce /\ @]

\* Identity and the token that grants access to it are not the client's to change.
Updated(existing, replacement) == [replacement EXCEPT
  !.secret = IF existing.secret # None THEN existing.secret ELSE @,
  !.access = existing.access, !.createdAt = existing.createdAt]

Put(c) ==
  /\ Starts(c) /\ scenario = "clients"
  /\ \E id \in Named, body \in Bodies[scenario], decision \in Decisions :
       /\ Registrable(c, body, decision)
       /\ Begin(c, "put", body, "store",
                [id |-> id, found |-> clients[id].secret,
                 record |-> Updated(clients[id], MetadataFrom(c, body, decision))], None)
       /\ Keep /\ UNCHANGED past

\* An update whose metadata is refused leaves everything as it was.
StoreMetadata(c) ==
  /\ In(c, "post", "store") \/ In(c, "put", "store")
  /\ Written(c)

Delete(c) ==
  /\ Starts(c) /\ scenario = "clients"
  /\ \E id \in Named : Begin(c, "delete", None, "destroy", [id |-> id], None)
  /\ Keep /\ UNCHANGED past

Destroyed(c) ==
  /\ In(c, "delete", "destroy")
  /\ Store(call[c].seen.id, None)
  /\ Leave(c, call[c].seen, "gone") /\ UNCHANGED past

-----------------------------------------------------------------------------
(* The management API. *)

Create(c) ==
  /\ Starts(c) /\ scenario = "clients"
  /\ \E id \in {App, Document}, exempt \in BOOLEAN :
       /\ FindClient(id) = None
       /\ FapiClient(config, Operated(c))
       /\ Begin(c, "create", None, "upsert",
                [id |-> id, found |-> None,
                 record |-> [Operated(c) EXCEPT !.requirePkce = ~exempt, !.vouched = exempt]], None)
       /\ Keep /\ UNCHANGED past

\* Mutant: writes the patch whether or not the client exists.
UpdateBlind(c) ==
  /\ Starts(c) /\ scenario \in {"clients", "tokens", "logout"}
  /\ \E id \in ClientIds, patch \in Patches[scenario] :
       /\ LET existing == IF FindClient(id) = None THEN Operated(id) ELSE FindClient(id) IN
          Begin(c, "update", patch, "upsert",
                [id |-> id, found |-> existing.secret, record |-> Patched(patch, existing)], None)
       /\ Keep /\ UNCHANGED past

Update(c) ==
  /\ Starts(c) /\ scenario \in {"clients", "tokens", "logout"}
  /\ \E id \in ClientIds, patch \in Patches[scenario] :
       /\ FindClient(id) # None
       /\ FapiClient(config, Patched(patch, FindClient(id)))
       /\ Begin(c, "update", patch, "upsert",
                [id |-> id, found |-> FindClient(id).secret, record |-> Patched(patch, FindClient(id))], None)
       /\ Keep /\ UNCHANGED past

Upsert(c) ==
  /\ In(c, "create", "upsert") \/ In(c, "update", "upsert")
  /\ Written(c)

Destroy(c) ==
  /\ Starts(c) /\ scenario = "clients"
  /\ \E id \in {App, Document} :
       /\ Store(id, None)
       /\ Begin(c, "destroy", None, "done", [id |-> id], "gone") /\ UNCHANGED past

\* The host's resolver answers with what is published now.
Publish ==
  /\ scenario = "clients"
  /\ document' \in {body \in Bodies[scenario] : ClientFrom(body) # None} \cup {None}
  /\ UNCHANGED <<clients, others, call, past>>

-----------------------------------------------------------------------------
(* Using a client. *)

AssertChallenge(client, challenge, nonce) ==
  challenge \/ (~client.requirePkce /\ client.method # "none" /\ nonce)

\* An authorization request, with a code_challenge and a nonce or without.
Visit(c) ==
  /\ Starts(c) /\ scenario = "clients"
  /\ \E id \in ClientIds, challenge, nonce \in BOOLEAN :
       /\ FindClient(id) # None
       /\ Begin(c, "visit", [challenge |-> challenge], "done", FindClient(id),
                IF AssertChallenge(FindClient(id), challenge, nonce) THEN "goes on" ELSE "refused")
       /\ Keep /\ UNCHANGED past

\* Which credentials of its own a request of this client carries.
CredentialsOf(client) ==
  CASE client.method = "none" -> {}
    [] client.method = "client_secret_basic" -> {"basic"}
    [] client.method = "client_secret_post" -> {"post"}
    [] client.method \in MtlsMethods -> {"certificate"}
    [] OTHER -> {"assertion"}

\* The keys an assertion is verified with.
KeysFor(client) ==
  \/ client.method = "client_secret_jwt" /\ client.secret # None
  \/ client.method = "private_key_jwt" /\ client.keys = "jwks"
  \/ client.method = "private_key_jwt" /\ client.keys = "jwks_uri" /\ config.resolveClientJwks

Matches(client) == IF client.method = "tls_client_auth" THEN client.subjectDn ELSE client.keys = "jwks"

AuthenticateClient(client, presented) ==
  /\ client # None
  /\ ~({"basic", "post"} \subseteq presented)
  /\ "assertion" \in presented => presented \cap {"basic", "post"} = {}
  /\ client.method \in config.clientAuthMethods /\ FapiClient(config, client)
  /\ CASE client.method = "none" -> presented \cap {"basic", "post", "assertion"} = {}
       [] client.method \in {"private_key_jwt", "client_secret_jwt"} ->
              "assertion" \in presented /\ KeysFor(client)
       [] client.method \in MtlsMethods ->
              "certificate" \in presented /\ "assertion" \notin presented /\ Matches(client)
       [] client.method = "client_secret_basic" -> "basic" \in presented /\ client.secret # None
       [] OTHER -> presented \cap {"basic", "post", "assertion"} = {"post"} /\ client.secret # None

IdTokenAlg(client) == IF client.alg # None THEN client.alg ELSE DefaultSigningAlg(config, client, keys)

\* The client can redeem a code: it authenticates, and an ID token names its user.
Serves(client) ==
  /\ AuthenticateClient(client, CredentialsOf(client))
  /\ SubjectFor(client, Account) # Unresolved
  /\ CanSign(keys, IdTokenAlg(client))

ClientSteps(c) ==
  \/ Post(c) \/ Put(c) \/ StoreMetadata(c) \/ Delete(c) \/ Destroyed(c)
  \/ Create(c) \/ Update(c) \/ Upsert(c) \/ Destroy(c) \/ Visit(c)
================================================================================
