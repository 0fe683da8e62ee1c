--------------------------------- MODULE Service ---------------------------------
(***************************************************************************)
(* The provider's endpoints over one set of stores: clients registered,    *)
(* changed, authenticated and served (Clients), their assertions and       *)
(* proofs (Proofs), tokens used, exchanged and revoked (TokenUse), and     *)
(* sessions ended (EndSession), each request a process, the management API *)
(* and the clock in between.  What a behaviour is about is chosen at the   *)
(* start.                                                                  *)
(***************************************************************************)
EXTENDS TokenUse, EndSession, Proofs

CONSTANT Registered  \* what the operator registered for App and Api, by scenario

\* What the operator registered makes a client.
ASSUME RegisteredAssumption ==
  \A s \in Scenarios : \A registered \in Registered[s] : \A id \in {App, Api} : Speaks(registered[id])

Cnfs == {{}, {"key"}, {"certificate"}}

\* Only a public client's refresh token is bound.
Issued(cnf, consumed) == [t \in TokenIds |->
  CASE t = Root -> Access(App, Account, Held, cnf, 1, None, SubjectFor(clients[App], Account), TRUE)
    [] t = Refresh ->
         [Access(App, Account, Held, IF clients[App].method = "none" THEN cnf ELSE {}, 2, None, None, TRUE)
            EXCEPT !.kind = "refresh_token", !.consumed = consumed]
    [] OTHER -> None]

\* The session a logout interaction asks about when it all begins: any of them, for they differ
\* in nothing else.
AskedAbout == CHOOSE s \in Sessions : TRUE

Init ==
  /\ scenario \in Scenarios
  /\ config \in {config_ \in Setups[scenario] : ResolveConfig(config_)}
  /\ keys \in {keys_ \in KeySets[scenario] : StaticKeyStore(keys_)}
  /\ \E registered \in Registered[scenario] :
       clients = [id \in ClientIds |-> IF id \in {App, Api} THEN Patched(registered[id], Operated(id)) ELSE None]
  /\ document = None
  /\ IF scenario = "tokens"
     THEN \E cnf \in Cnfs : \E consumed \in {FALSE, cnf = {}} : tokens = Issued(cnf, consumed)
     ELSE tokens = [t \in TokenIds |-> None]
  /\ grant = TRUE
  /\ sessions = [s \in Sessions |-> {App}]
  /\ interactions = [i \in Interactions |->
       IF i = Before /\ scenario = "logout" THEN [session |-> AskedAbout, consumed |-> FALSE] ELSE None]
  /\ replay = [namespace \in Jtis \cup {"client-assertion"} |-> 0]
  /\ nonces = [c \in Calls |-> None]
  /\ now = 0
  /\ call = [c \in Calls |-> Idle]
  /\ past = [used |-> [what \in Jtis \cup {"client-assertion"} |-> <<>>],
             from |-> [c \in Calls |-> None],
             told |-> [t \in TokenIds |-> IF tokens[t] = None THEN None ELSE tokens[t].subject],
             bound |-> IF tokens[Root] = None THEN {} ELSE tokens[Root].cnf, notified |-> {},
             destroyed |-> {}, accepted |-> [c \in Calls |-> None]]

Tick ==
  /\ now < MaxTime[scenario]
  /\ now' = now + 1
  /\ UNCHANGED <<stores, call, past>>

Next ==
  /\ UNCHANGED setup
  /\ \/ \E c \in Calls : UNCHANGED now /\
          (ClientSteps(c) \/ ProofSteps(c) \/ TokenSteps(c) \/ LogoutSteps(c) \/ Crash(c))
     \/ UNCHANGED now /\ Publish
     \/ Tick

Spec == Init /\ [][Next]_all

-----------------------------------------------------------------------------

TypeOK ==
  /\ DOMAIN clients = ClientIds /\ DOMAIN tokens = TokenIds
  /\ grant \in BOOLEAN /\ \A s \in Sessions : sessions[s] = None \/ sessions[s] \subseteq {App, Api}
  /\ \A i \in Interactions : interactions[i] # None => interactions[i].session \in Sessions
  /\ \A c \in Calls : call[c].after \subseteq 1..(c - 1)

-----------------------------------------------------------------------------
(* Clients. *)

\* No operator's update says anything of these fields of the client.
Left(id, fields) == \A u \in Calls :
  call[u].op = "update" /\ call[u].seen.id = id => DOMAIN call[u].given \cap fields = {}

\* However registrations, updates and deletions cross, what a registered client is stored with is
\* its own: the token its registration answered and the time of it, and a secret drawn by the
\* registration or by an update that found it without one (clients/registration.ts:286, 307-317).
\* But for an operator's update that says otherwise.
IdentityStands == \A c \in Calls : clients[c] # None /\ Left(c, {"secret", "access", "createdAt"}) =>
  /\ clients[c].access = c /\ clients[c].createdAt = c
  /\ \/ clients[c].secret \in {None, c}
     \/ \E d \in Calls : /\ call[d].op = "put" /\ call[d].answer = "stored"
                         /\ call[d].seen.found = None /\ clients[c].secret = d

\* Who removed the client, and who stored it other than by registering it.
Ends(d, id) == call[d].op \in {"delete", "destroy"} /\ call[d].answer = "gone" /\ call[d].seen.id = id
Stores(c, id) ==
  call[c].op \in {"create", "put", "update"} /\ call[c].answer = "stored" /\ call[c].seen.id = id

\* A request that begins once a client is gone does not bring it back: whoever stores it then
\* created it, or another that had found it in time did before (registration.ts:286, 317,
\* management.ts:49-53).  A client that is a metadata document is not gone for as long as its
\* document is published.
ReturnsOnlyLate == \A c, d \in Calls :
  call[c].op \in {"put", "update"} /\ call[c].answer = "stored" /\ call[c].seen.id # Document
    /\ Ends(d, call[c].seen.id) /\ d \in call[c].after
  => \E e \in Calls \ {c} : Stores(e, call[c].seen.id) /\ (call[e].op = "create" \/ d \notin call[e].after)

\* A request is let off the code challenge only as the client stored then was: by the operator
\* or the host, for this metadata and no earlier one, and never as a public client
\* (authorize/pkce.ts:13-26, registration.ts:261-265, 298-306).
Vouched == \A c \in Calls : call[c].op = "visit" /\ call[c].answer = "goes on" /\ ~call[c].given.challenge
  => call[c].seen.vouched /\ call[c].seen.method # "none"

\* A stored client is what its registration, its operator and its host made it.
ClientsStand == IdentityStands /\ ReturnsOnlyLate /\ Vouched

\* A registration every part of which stands by itself, and one discovery says is served.
WellFormed(body) ==
  /\ body.redirectUri = "https" /\ body.grantTypes # {} /\ body.alg # None
  /\ body.responseTypes \in {None, IF "authorization_code" \in body.grantTypes THEN {"code"} ELSE {}}
  /\ ~(body.method = "none" /\ "client_credentials" \in body.grantTypes)
  /\ body.mode = (IF Ciba \in body.grantTypes THEN "poll" ELSE None)
  /\ body.sector = None /\ body.host = "one"
Advertised(body) ==
  LET published == Metadata(config, keys) IN
  /\ body.method \in published.token_endpoint_auth_methods
  /\ body.grantTypes \subseteq published.grant_types
  /\ body.alg \in published.id_token_signing_algs
  /\ body.subjectType # None => body.subjectType \in published.subject_types

\* A registration that is well formed is accepted exactly if what it asks for is what discovery
\* advertises (discovery.ts:13-71, registration.ts:79-85, 113-132, 158-176).
DiscoveryMeansIt == \A c \in Calls :
  call[c].op = "post" /\ scenario = "setup" /\ WellFormed(call[c].given.body)
    /\ call[c].given.decision = "none"
  => (call[c].answer # "refused") = Advertised(call[c].given.body)

\* A registration does not hold a certificate subject; a client may have no keys, or keys by
\* reference that the host does not fetch; and under pairwise subjects by default a registration
\* looks only at the type the client asked for, not at its hosts (registration.ts:88-95).
Excused(client) ==
  \/ client.method = "tls_client_auth"
  \/ client.method \in {"private_key_jwt", "self_signed_tls_client_auth"} /\ client.keys # "jwks"
  \/ client.subjectType = None /\ config.subjectType = "pairwise" /\ client.host = "both"

\* A client the endpoint registered can be served: it authenticates with what it registered, its
\* user has a subject and its ID token a key, but for what is excused (clients/registration.ts).
RegisteredIsServed == scenario = "setup" =>
  \A c \in Calls : clients[c] # None => Serves(clients[c]) \/ Excused(clients[c])

\* What discovery advertises can be registered, and what is registered can be served.
ServableAsAdvertised == DiscoveryMeansIt /\ RegisteredIsServed

-----------------------------------------------------------------------------
(* Assertions and proofs. *)

\* What a client signed once is believed once.  A DPoP proof is believed again at the last moment
\* it verifies if it was first believed at the first; a client's under FAPI, whose assertions
\* verify FapiIatSkew after they expire, again once it is forgotten Skew after
\* (clients/assertion.ts:54-87, binding/dpop.ts:125-133).
UsedOnceInside == \A what \in DOMAIN past.used :
  LET used == past.used[what] IN
  Len(used) > 1 =>
    IF what = "client-assertion" THEN fapi /\ used[2] >= Exp + Skew
    ELSE ToSet(used) = {Iat - ProofSkew, Iat + MaxAge}

-----------------------------------------------------------------------------
(* Tokens. *)

\* An exchange narrows: what it issues holds no scope its subject token did not, outlives it in
\* nothing, and is bound to whatever it was bound to
\* (token/exchange.ts:104-132).
ExchangeNarrows == \A c \in Calls : tokens[c] # None /\ past.from[c] # None =>
  LET subject == past.from[c].token IN
  /\ tokens[c].scopes \subseteq subject.scopes /\ tokens[c].exp <= subject.exp
  /\ subject.cnf \subseteq tokens[c].cnf

\* Whoever is told about a user proved what the token was first bound to, through however many
\* exchanges: a refresh token of a confidential client is bound to none
\* (token/exchange.ts:117-121, resource/userinfo.ts:76-100).
BoundThroughout == \A u \in Calls :
  call[u].op = "userinfo" /\ call[u].answer # None /\ FromRoot(call[u].given.token)
  => past.bound \subseteq call[u].given.binding

\* The grant's refresh token was revoked, and so the grant.
GrantEnded(r) == call[r].op = "revoke" /\ call[r].answer = "ok" /\ call[r].given.token = Refresh

\* Once a grant is gone, so are the tokens the user allowed with it, and what is exchanged once
\* a revocation is over was not exchanged for one of those: only for what an exchange issued
\* that had read its subject token before the tokens went, or for what was exchanged for that
\* (resource/revocation.ts:32-34, token/exchange.ts:75-123).
RevocationReaches ==
  /\ ~grant => tokens[Root] = None /\ tokens[Refresh] = None
  /\ \A t, r \in Calls : tokens[t] # None /\ tokens[t].ofGrant /\ GrantEnded(r) /\ r \in call[t].after
       => call[t].given.token \in Calls

\* Whatever its client's registration becomes, an access token names the user to everyone by the
\* subject its client was told; a refresh token by the one its client would be told now
\* (resource/introspection.ts:67-72, resource/userinfo.ts:106-107, token/subjects.ts:32-38).
SubjectAgrees == \A u \in Calls :
  call[u].op \in {"userinfo", "introspect"} /\ call[u].answer # None
    /\ call[u].given.token # Refresh /\ call[u].answer.sub # None
  => call[u].answer.sub = past.told[call[u].given.token]

\* A token says and allows what the grant it comes from does, through exchanges, revocations
\* and changes of its client.
TokensStand == ExchangeNarrows /\ BoundThroughout /\ RevocationReaches /\ SubjectAgrees

-----------------------------------------------------------------------------
(* Sessions. *)

\* The person answered the interaction the request comes with, about its session.
Confirmed(c) == \E k \in call[c].after :
  /\ call[k].op = "confirm" /\ call[k].given = call[c].given.confirmation
  /\ call[k].answer = call[c].given.session

\* A session ends only because its operator said so, its browser asked with an ID token this
\* provider issued, or the person confirmed, in an interaction made for this session, before
\* that request began (session/end-session.ts:57-68, 101-107).
EndedWasAsked == \A c \in past.destroyed :
  \/ call[c].op = "manage"
  \/ call[c].given.hint # None /\ call[c].given.hint.ours
  \/ Confirmed(c)

\* A confirmation that was accepted is not accepted by a request that begins later; by two at
\* once it may be, each having found it before either destroyed it (end-session.ts:101-107).
ConfirmedNotLater == \A c, d \in Calls :
  past.accepted[c] # None /\ past.accepted[c] = past.accepted[d] => c \notin call[d].after

\* Who was signed in before the request began, and over what it tells them: not the back channel
\* when no key may sign under the profile, nor the front when the operator signs out.
SignedIn(c) == {App} \cup
  {call[j].given.client : j \in {j \in call[c].after : /\ call[j].op = "redeem" /\ call[j].answer = "issued"
                                                       /\ call[j].given.session = call[c].given.session}}
Channels(c) == (IF DefaultSigningAlg(config, None, keys) # None THEN {"back"} ELSE {})
                 \cup (IF call[c].op = "end" THEN {"front"} ELSE {})

\* A client signed in before a request to end the session began is told, over each channel it
\* registered, if no operator changed those, by a request that answers "signed out".  A client
\* signed in while the request runs is not, when the list was read before
\* (session/end-session.ts:66-68, session/logout.ts:22-72, provider.ts:144-146).
EveryoneTold == \A c \in past.destroyed : call[c].answer = "signed out" =>
  \A id \in {id \in SignedIn(c) : Left(id, {"logoutUris"})} :
    \A channel \in Channels(c) \cap clients[id].logoutUris : <<id, channel>> \in past.notified

\* A session that ended stays ended, also for a client whose code was redeemed under it before
\* (token/issue.ts:49-51, session/management.ts:11-15).
EndedStays == \A c \in past.destroyed : sessions[call[c].given.session] = None

\* A session ends because someone asked, for good, and whoever was signed in hears of it.
SessionsEnd == EndedWasAsked /\ ConfirmedNotLater /\ EveryoneTold /\ EndedStays
================================================================================
