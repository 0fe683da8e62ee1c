-------------------------------- MODULE TokenUse ---------------------------------
(***************************************************************************)
(* What is done with tokens once they are issued: exchanged for narrower   *)
(* ones (token/exchange.ts), described to a resource server                *)
(* (resource/introspection.ts), shown for claims (resource/userinfo.ts),   *)
(* revoked by their client (resource/revocation.ts), and asked for by a    *)
(* client for itself (token/client-credentials.ts).                        *)
(*                                                                         *)
(* Root and Refresh are what the user allowed App; a token issued here is  *)
(* named by the request it answers.  How refresh tokens rotate is          *)
(* TokenGrants.                                                            *)
(***************************************************************************)
EXTENDS Clients

CONSTANT AccessTtl

ASSUME AccessTtlAssumption == AccessTtl \in Nat

unused == <<clients, document, sessions, interactions, replay, nonces>>

Held == {"openid", "read"}
Narrowed == {{"openid"}, Held}

\* What a request proves it holds: a DPoP key, a client certificate.
Bindings == {{}, {"key"}, {"certificate"}}

\* A resource of the configuration's, and the client that serves it.
Resource == "resource"
ServerOf(aud) == IF aud = Resource THEN Api ELSE None

IsLive(t) == tokens[t] # None /\ tokens[t].exp > now

\* A request by a client that authenticated.
Asks(who) ==
  /\ clients[who] # None
  /\ AuthenticateClient(clients[who], CredentialsOf(clients[who]))

-----------------------------------------------------------------------------
(* Issuing. *)

Earliest(a, b) == IF a < b THEN a ELSE b

Access(who, account, scopes, binding, exp, aud, subject, ofGrant) == [
  kind |-> "access_token", client |-> who, account |-> account, scopes |-> scopes, cnf |-> binding,
  exp |-> exp, aud |-> aud, subject |-> subject, ofGrant |-> ofGrant, consumed |-> FALSE]

\* Whether a token goes back to Root, which the properties are about.
FromRoot(t) == t = Root \/ (t \in Calls /\ past.from[t] # None /\ past.from[t].root)

IssueAccessToken(c, token, subjectToken) ==
  /\ tokens' = [tokens EXCEPT ![c] = token]
  /\ past' = [past EXCEPT !.from[c] = subjectToken, !.told[c] = token.subject]
  /\ Answer(c, "issued") /\ UNCHANGED <<unused, grant>>

ClientCredentials(c) ==
  /\ Starts(c) /\ scenario = "tokens"
  /\ \E who \in {App, Api}, scopes \in SUBSET Held \ {{}}, binding \in Bindings, aud \in {None, Resource} :
       /\ Asks(who)
       /\ clients[who].method # "none" /\ "client_credentials" \in clients[who].grantTypes
       /\ "openid" \notin scopes
       /\ tokens' = [tokens EXCEPT ![c] =
                       Access(who, None, scopes, binding, now + AccessTtl, aud, None, FALSE)]
       /\ Begin(c, "credentials", None, "done", None, "issued") /\ UNCHANGED <<unused, grant, past>>

\* The subject token is found, as the type it is declared to be; the host's policy is asked.
\* The policy speaks for the account of the token or refuses: it has nobody to speak for when
\* there is none.
Exchange(c) ==
  /\ Starts(c) /\ scenario = "tokens"
  /\ \E who \in {App, Api}, t \in TokenIds, binding \in Bindings :
       /\ Asks(who)
       /\ config.exchangePolicy /\ TokenExchange \in clients[who].grantTypes
       /\ IsLive(t) /\ ~tokens[t].consumed
       /\ Begin(c, "exchange", [token |-> t, client |-> who, binding |-> binding], "policy",
                [subject |-> tokens[t], client |-> clients[who]], None)
       /\ Keep /\ UNCHANGED past

\* Mutant: only a DPoP key is asked for again.
HolderByKey(subject, binding) == "key" \in subject.cnf => "key" \in binding

Holder(subject, binding) == subject.cnf \subseteq binding

\* Mutant: a new token lives its whole lifetime.
ExchangedExpUncapped(subject) == now + AccessTtl

ExchangedExp(subject) == Earliest(now + AccessTtl, subject.exp)

OnlyHeld(subject, scopes) == scopes \subseteq subject.scopes

\* The policy answered; what it decided is held against the token read before it was asked.
Exchanged(c) ==
  /\ In(c, "exchange", "policy")
  /\ LET subject == call[c].seen.subject
         given == call[c].given
         sub == SubjectFor(call[c].seen.client, subject.account)
     IN subject.account # None /\ \E scopes \in Narrowed, aud \in {None, Resource} :
          /\ OnlyHeld(subject, scopes) /\ Holder(subject, given.binding) /\ sub # Unresolved
          /\ IssueAccessToken(c, Access(given.client, subject.account, scopes, given.binding,
                                        ExchangedExp(subject), aud, sub, subject.ofGrant),
                              [token |-> subject, root |-> FromRoot(given.token)])

\* The policy refused, what it decided does not hold, or the client has no subject for the
\* account.
Declined(c) == In(c, "exchange", "policy") /\ Throw(c) /\ Keep /\ UNCHANGED past

-----------------------------------------------------------------------------
(* Asking what a token is. *)

MayIntrospect(who, token) ==
  \/ token.client = who
  \/ /\ token.kind = "access_token"
     /\ \/ token.aud # None /\ ServerOf(token.aud) = who
        \/ clients[who].resourceServer /\ token.aud \in {None, who}

\* Mutant: the owner's subject is worked out again.
SubjectNow(token) == SubjectFor(clients[token.client], token.account)

SubjectOf(token) ==
  IF token.subject # None THEN token.subject ELSE SubjectFor(clients[token.client], token.account)

Introspect(c) ==
  /\ Starts(c) /\ scenario = "tokens"
  /\ \E who \in {App, Api}, t \in TokenIds :
       /\ Asks(who) /\ tokens[t] # None
       /\ IF ~IsLive(t) \/ tokens[t].consumed \/ ~MayIntrospect(who, tokens[t])
          THEN Begin(c, "introspect", None, "done", None, None)
          ELSE Begin(c, "introspect", [token |-> t], "owner", tokens[t], None)
       /\ Keep /\ UNCHANGED past

\* The client the token was issued to is read after the token.
Describe(c) ==
  /\ In(c, "introspect", "owner")
  /\ LET token == call[c].seen IN
     IF token.account = None \/ clients[token.client] = None THEN Answer(c, [sub |-> None])
     ELSE IF SubjectOf(token) = Unresolved THEN Throw(c)
     ELSE Answer(c, [sub |-> SubjectOf(token)])
  /\ Keep /\ UNCHANGED past

-----------------------------------------------------------------------------
(* Showing a token for claims. *)

Presented(token, binding) == token.cnf \subseteq binding

UserInfo(c) ==
  /\ Starts(c) /\ scenario = "tokens"
  /\ \E t \in TokenIds, binding \in Bindings :
       /\ tokens[t] # None /\ tokens[t].kind = "access_token"
       /\ IF IsLive(t) /\ ~tokens[t].consumed /\ tokens[t].account # None
             /\ Presented(tokens[t], binding) /\ "openid" \in tokens[t].scopes
          THEN Begin(c, "userinfo", [token |-> t, binding |-> binding], "claims", tokens[t], None)
          ELSE Begin(c, "userinfo", None, "failed", None, None)
       /\ Keep /\ UNCHANGED past

\* The account's claims were awaited; the subject is the token's.
Claims(c) ==
  /\ In(c, "userinfo", "claims")
  /\ LET token == call[c].seen IN
     Answer(c, [sub |-> IF token.subject # None THEN token.subject ELSE token.account])
  /\ Keep /\ UNCHANGED past

-----------------------------------------------------------------------------
(* Revoking one's own token. *)

Revoke(c) ==
  /\ Starts(c) /\ scenario = "tokens"
  /\ \E who \in {App, Api}, t \in TokenIds :
       /\ Asks(who)
       /\ IsLive(t) /\ tokens[t].client = who
       /\ Begin(c, "revoke", [token |-> t],
                IF tokens[t].kind = "refresh_token" THEN "tokens" ELSE "destroy", None, None)
       /\ Keep /\ UNCHANGED past

RevokeOne(c) ==
  /\ In(c, "revoke", "destroy")
  /\ tokens' = [tokens EXCEPT ![call[c].given.token] = None]
  /\ Answer(c, "ok") /\ UNCHANGED <<unused, grant, past>>

\* Mutant: the refresh token goes, what was issued with it stays.
RevokeRefreshOnly(c) ==
  /\ In(c, "revoke", "tokens")
  /\ tokens' = [tokens EXCEPT ![call[c].given.token] = None]
  /\ Go(c, "grant", None) /\ UNCHANGED <<unused, grant, past>>

RevokeByGrantId(c) ==
  /\ In(c, "revoke", "tokens")
  /\ tokens' = [t \in TokenIds |-> IF tokens[t] # None /\ tokens[t].ofGrant THEN None ELSE tokens[t]]
  /\ Go(c, "grant", None) /\ UNCHANGED <<unused, grant, past>>

DestroyGrant(c) ==
  /\ In(c, "revoke", "grant")
  /\ grant' = FALSE
  /\ Answer(c, "ok") /\ UNCHANGED <<unused, tokens, past>>

TokenSteps(c) ==
  \/ ClientCredentials(c) \/ Exchange(c) \/ Exchanged(c) \/ Declined(c)
  \/ Introspect(c) \/ Describe(c) \/ UserInfo(c) \/ Claims(c)
  \/ Revoke(c) \/ RevokeOne(c) \/ RevokeByGrantId(c) \/ DestroyGrant(c)
================================================================================
