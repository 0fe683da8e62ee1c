------------------------------- MODULE Authorize -------------------------------
(***************************************************************************)
(* The authorization endpoint (authorize/authorization.ts, par.ts and      *)
(* authorizationHandler in provider.ts) and the interactions it suspends   *)
(* into (authorize/interactions.ts).                                       *)
(*                                                                         *)
(* A browser visits the endpoint with a request, plain or pushed.  What    *)
(* cannot be decided is stored as an interaction and put to a person; the  *)
(* host completes it with the answer and sends the browser back, and the   *)
(* request is evaluated again.  Every await on the adapter is a step, and  *)
(* visits and completions interleave freely: a link can be opened twice, a *)
(* form submitted twice, two tabs answered at once.  A request that fails  *)
(* or whose process stops is one that takes no further step, and an ended  *)
(* session is a cookie that finds nothing.                                 *)
(***************************************************************************)
EXTENDS Naturals, FiniteSets

CONSTANTS
  Requests,    \* authorization requests: each names its client, scopes and details
  Cases,       \* the sets of requests to consider browsers being sent with
  Visits,      \* requests to the authorization endpoint; each names its interaction and code
  Completions, \* calls of interactions.complete; each names what it stores
  Earlier,     \* sessions there are to begin with
  Accounts, Clients, Scopes, Details,
  OwnerOf,     \* [Earlier -> Accounts]
  ClientOf,    \* [Requests -> Clients]
  ScopesOf,    \* [Requests -> SUBSET Scopes]
  FormOf,      \* [Requests -> Form]: the parameters that are only checked
  Registered,  \* [Clients -> Client or None]: what the adapter finds
  OpenId,      \* the scope every request must have
  Dpop,        \* features.dpop: without it dpop_jkt is not looked at
  Places,      \* where redirects may lead
  MaxPort,
  DetailsOf,   \* [Requests -> Details or None]: authorization_details
  AsksOf,      \* [Requests -> SUBSET Asks]: prompt, and max_age or acr_values
  Pushed,      \* the requests that come by a pushed reference
  Answers,     \* the answers a host may give
  Backends,    \* the kinds of store to consider: "kv" and "sql"
  Ttl,         \* ttl.interaction, ttl.pushedAuthorizationRequest
  MaxTime,     \* the clock stops here
  None

\* "login" stands for select_account too, "measure" for a max_age or acr_values that
\* the session may or may not meet.
Asks == {"none", "login", "consent", "measure"}

\* InteractionResult
Outcome == [error : BOOLEAN, login : Accounts \cup {None},
            consent : (SUBSET Scopes) \cup {None}, details : BOOLEAN]

\* `loopback`: plain http to 127.0.0.1 or [::1]
Uri == [place : Places, loopback : BOOLEAN, port : 0..MaxPort]

\* What may be malformed, or name what the provider does not support.
Flaws == {"max_age", "response_mode", "resource", "dpop_jkt", "authorization_details"}

\* `challenge` is the method of the code_challenge.
Form == [redirect : Uri \cup {None}, type : {"code", "token"}, nonce : BOOLEAN,
         challenge : {"S256", "plain", None}, flaws : SUBSET Flaws]

\* `secret` says that it authenticates, `mustPush` that it is registered for pushed requests
\* only or falls under FAPI.
Client == [redirects : SUBSET Uri, types : SUBSET {"code", "token"}, scopes : SUBSET Scopes,
           secret : BOOLEAN, requirePkce : BOOLEAN, mustPush : BOOLEAN]

\* Nobody, no completion and no time is None.
ASSUME NoneAssumption == None \notin Accounts \cup Completions \cup Nat

ASSUME AuthorizeAssumption ==
  /\ OwnerOf \in [Earlier -> Accounts] /\ ClientOf \in [Requests -> Clients]
  /\ ScopesOf \in [Requests -> SUBSET Scopes] /\ OpenId \in Scopes
  /\ FormOf \in [Requests -> Form] /\ Registered \in [Clients -> Client \cup {None}]
  /\ Dpop \in BOOLEAN /\ MaxPort \in Nat
  /\ DetailsOf \in [Requests -> Details \cup {None}]
  /\ AsksOf \in [Requests -> SUBSET Asks]
  /\ Answers \subseteq Outcome /\ Cases \subseteq SUBSET Requests /\ Pushed \subseteq Requests
  /\ Backends \subseteq {"kv", "sql"}
  /\ Ttl \in Nat \ {0} /\ MaxTime \in Nat
  /\ Earlier \cap Completions = {} /\ Requests \cap Completions = {}

VARIABLES
  backend,      \* the store this provider runs on
  sent,         \* the requests browsers are sent with
  now,          \* Date.now()
  links,        \* the URLs of the endpoint that browsers have
  handed,       \* the sessions whose cookie a browser has
  sessions,     \* [SessionIds -> the account, or None]
  grants,       \* the stored consents
  interactions, \* [Visits -> the stored interaction or None]
  pushes,       \* [PushIds -> when the pushed request expires, or None]
  responses,    \* [Completions -> when the stored response expires, or None]
  consumed,     \* the interactions, pushes and responses that have been consumed
  approvals,    \* [Keys -> when the approval of details expires, or None]
  spent,        \* [Keys -> until when it counts as consumed, or None]
  codes,        \* the stored codes
  given,        \* who has allowed which client which scope: what the properties compare with
  votes,        \* the approvals of details, as persons gave them
  visit,        \* the visits' own state
  completion    \* the completions' own state

world == <<backend, sent, now>>
browsers == <<links, handed>>
consents == <<sessions, grants>>
artifacts == <<interactions, pushes, responses, consumed>>
details == <<approvals, spent>>
stored == <<consents, artifacts, details, codes>>
history == <<given, votes>>
vars == <<world, browsers, stored, history, visit, completion>>

SessionIds == Earlier \cup Completions
PushIds == Requests \cup Completions
\* detailsConsentId
Keys == Accounts \X Clients \X Details
Forever == MaxTime + Ttl + 1

\* A URL of the endpoint: `push` or `response` is the reference it carries, `from` the
\* completion that sent the browser back with it.
Url == [request : Requests, asks : SUBSET Asks, push : PushIds \cup {None},
        response : Completions \cup {None}, from : Completions \cup {None}]

Interaction == [url : Url, account : Accounts \cup {None}, expires : Nat]
Grant == [id : Completions, account : Accounts, client : Clients, scopes : SUBSET Scopes]
Code == [id : Visits, account : Accounts, request : Requests, grant : Completions]

-----------------------------------------------------------------------------
(* The adapter. *)

Live(expires) == expires # None /\ expires > now

\* consume of a record that is written once, under a name that never comes back
Consumable(kind, id, expires) == Live(expires) /\ <<kind, id>> \notin consumed
Consume(kind, id) == consumed' = consumed \cup {<<kind, id>>}

\* grants.findByAccountAndClient: a kv store may hold several and returns any
Consents(a, c) == {g \in grants : g.account = a /\ g.client = c}
FoundConsent(a, c) == IF Consents(a, c) = {} THEN {None} ELSE Consents(a, c)

\* The key of the details a request carries.
KeyOf(a, r) == <<a, ClientOf[r], DetailsOf[r]>>

\* An approval of details can be consumed: it is stored under the same key each time,
\* and what consume wrote outlasts the next upsert.
Spendable(k) == Live(approvals[k]) /\ ~Live(spent[k])

-----------------------------------------------------------------------------
(* The checks of a request.                                                  *)

\* An exact match, but for the port a native app listens on.
RedirectMatches(registered, presented) ==
  \/ registered = presented
  \/ registered.loopback /\ [registered EXCEPT !.port = presented.port] = presented

\* parseAuthorizationRequest: until then there is nowhere to redirect to
Parses(r) ==
  /\ Registered[ClientOf[r]] # None /\ FormOf[r].redirect # None
  /\ \E uri \in Registered[ClientOf[r]].redirects : RedirectMatches(uri, FormOf[r].redirect)

\* assertChallenge: only an authenticated client that opted out may do with a nonce
Challenged(r) ==
  LET client == Registered[ClientOf[r]]
  IN \/ FormOf[r].challenge = "S256"
     \/ FormOf[r].challenge = None /\ ~client.requirePkce /\ client.secret /\ FormOf[r].nonce

\* validateAuthorizationRequest
Validates(r) ==
  LET client == Registered[ClientOf[r]]
  IN /\ FormOf[r].type = "code" /\ FormOf[r].type \in client.types
     /\ OpenId \in ScopesOf[r] /\ ScopesOf[r] \subseteq client.scopes
     /\ "none" \in AsksOf[r] => AsksOf[r] \cap {"login", "consent"} = {}
     /\ FormOf[r].flaws \subseteq (IF Dpop THEN {} ELSE {"dpop_jkt"})
     /\ Challenged(r)

\* What authorizationHandler makes of the parameters, plain or resolved from a reference: an
\* error page, an error by redirect, or a request to evaluate.
Received(r, byReference) ==
  IF ~Parses(r) \/ (Registered[ClientOf[r]].mustPush /\ ~byReference) THEN "refused"
  ELSE IF Validates(r) THEN "session" ELSE "answered"

-----------------------------------------------------------------------------
Init ==
  /\ backend \in Backends /\ sent \in Cases /\ now = 0
  /\ links = {[request |-> r, asks |-> AsksOf[r], push |-> None, response |-> None,
               from |-> None] : r \in sent \ Pushed}
  /\ handed = Earlier
  /\ sessions = [s \in SessionIds |-> IF s \in Earlier THEN OwnerOf[s] ELSE None]
  /\ grants = {} /\ codes = {} /\ consumed = {} /\ given = {} /\ votes = {}
  /\ interactions = [v \in Visits |-> None]
  /\ pushes = [p \in PushIds |-> None]
  /\ responses = [c \in Completions |-> None]
  /\ approvals = [k \in Keys |-> None] /\ spent = [k \in Keys |-> None]
  /\ visit = [v \in Visits |-> [pc |-> "idle", url |-> None, cookie |-> None,
                                account |-> None, grant |-> None]]
  /\ completion = [c \in Completions |->
       [pc |-> "idle", interaction |-> None, seen |-> None, outcome |-> None,
        account |-> None, grant |-> None]]

-----------------------------------------------------------------------------
(* Pushed requests.                                                          *)

\* pushedAuthorizationRequestEndpoint
Push(r) ==
  /\ r \in sent \cap Pushed /\ pushes[r] = None
  /\ Parses(r) /\ Validates(r)
  /\ pushes' = [pushes EXCEPT ![r] = now + Ttl]
  /\ links' = links \cup {[request |-> r, asks |-> AsksOf[r], push |-> r,
                           response |-> None, from |-> None]}
  /\ UNCHANGED <<world, handed, consents, interactions, responses, consumed, details,
                 codes, history, visit, completion>>

-----------------------------------------------------------------------------
(* A visit: authorizationHandler.                                            *)

VisitAt(v, pc) == visit' = [visit EXCEPT ![v].pc = pc]
Reads == UNCHANGED <<world, browsers, stored, history, completion>>

Asked(v) == visit[v].url.asks
RequestOf(v) == visit[v].url.request

Arrive(v, u, s) ==
  /\ visit[v].pc = "idle" /\ u \in links /\ s \in handed \cup {None}
  /\ visit' = [visit EXCEPT ![v] =
       [@ EXCEPT !.url = u, !.cookie = s,
                 !.pc = IF u.response # None THEN "delivery"
                        ELSE IF u.push # None THEN "reference"
                        ELSE Received(u.request, FALSE)]]
  /\ Reads

\* resolvePushedRequest, up to its consume; or the client_id beside it is another's
FindPushed(v) ==
  /\ visit[v].pc = "reference"
  /\ \/ VisitAt(v, IF Consumable("push", visit[v].url.push, pushes[visit[v].url.push])
                   THEN "resolve" ELSE "refused")
     \/ VisitAt(v, "refused")
  /\ Reads

\* Mutant: the find is believed.
ResolveUnconsumed(v) ==
  /\ visit[v].pc = "resolve"
  /\ VisitAt(v, Received(RequestOf(v), TRUE))
  /\ Reads

ResolvePushed(v) ==
  /\ visit[v].pc = "resolve"
  /\ LET p == visit[v].url.push
     IN IF Consumable("push", p, pushes[p])
        THEN Consume("push", p) /\ VisitAt(v, Received(RequestOf(v), TRUE))
        ELSE UNCHANGED consumed /\ VisitAt(v, "refused")
  /\ UNCHANGED <<world, browsers, consents, interactions, pushes, responses, details,
                 codes, history, completion>>

\* deliverStoredResponse
FindResponse(v) ==
  /\ visit[v].pc = "delivery"
  /\ VisitAt(v, IF Live(responses[visit[v].url.response]) THEN "deliver" ELSE "refused")
  /\ Reads

DeliverResponse(v) ==
  /\ visit[v].pc = "deliver"
  /\ LET c == visit[v].url.response
     IN IF Consumable("response", c, responses[c])
        THEN Consume("response", c) /\ VisitAt(v, "delivered")
        ELSE UNCHANGED consumed /\ VisitAt(v, "refused")
  /\ UNCHANGED <<world, browsers, consents, interactions, pushes, responses, details,
                 codes, history, completion>>

\* readSession, and whether it will do: `measured` is what isFresh and acr come to.
\* Only a login is an error for prompt=none here.
ReadSession(v, measured) ==
  /\ visit[v].pc = "session"
  /\ LET a == IF visit[v].cookie = None THEN None ELSE sessions[visit[v].cookie]
         needsLogin == a = None \/ "login" \in Asked(v) \/ ("measure" \in Asked(v) /\ ~measured)
     IN visit' = [visit EXCEPT ![v] =
          [@ EXCEPT !.account = IF needsLogin THEN None ELSE a,
                    !.pc = IF ~needsLogin THEN "grant"
                           ELSE IF "none" \in Asked(v) THEN "answered" ELSE "suspend"]]
  /\ Reads

\* The verdict on what the grant and the approval leave outstanding.
Verdict(v, outstanding) ==
  IF outstanding \/ "consent" \in Asked(v)
  THEN IF "none" \in Asked(v) THEN "answered" ELSE "suspend"
  ELSE IF DetailsOf[RequestOf(v)] # None THEN "spend" ELSE "issue"

Missing(v, g) == g = None \/ ~(ScopesOf[RequestOf(v)] \subseteq g.scopes)

FindGrant(v) ==
  /\ visit[v].pc = "grant"
  /\ \E g \in FoundConsent(visit[v].account, ClientOf[RequestOf(v)]) :
       visit' = [visit EXCEPT ![v] =
         [@ EXCEPT !.grant = g,
                   !.pc = IF DetailsOf[RequestOf(v)] # None THEN "approval"
                          ELSE Verdict(v, Missing(v, g))]]
  /\ Reads

FindApproval(v) ==
  /\ visit[v].pc = "approval"
  /\ VisitAt(v, Verdict(v, \/ Missing(v, visit[v].grant)
                           \/ ~Live(approvals[KeyOf(visit[v].account, RequestOf(v))])))
  /\ Reads

\* Mutant: an approval found is as good as one consumed.
SpendFound(v) ==
  /\ visit[v].pc = "spend" /\ VisitAt(v, "issue")
  /\ Reads

SpendApproval(v) ==
  /\ visit[v].pc = "spend"
  /\ LET k == KeyOf(visit[v].account, RequestOf(v))
     IN IF Spendable(k)
        THEN /\ spent' = [spent EXCEPT ![k] = IF backend = "kv" THEN approvals[k] ELSE Forever]
             /\ VisitAt(v, "issue")
        ELSE UNCHANGED spent /\ VisitAt(v, "suspend")
  /\ UNCHANGED <<world, browsers, consents, artifacts, approvals, codes, history, completion>>

\* suspend: a login interaction does not know the account yet
Suspend(v) ==
  /\ visit[v].pc = "suspend"
  /\ interactions' = [interactions EXCEPT ![v] =
       [url |-> visit[v].url, account |-> visit[v].account, expires |-> now + Ttl]]
  /\ VisitAt(v, "suspended")
  /\ UNCHANGED <<world, browsers, consents, pushes, responses, consumed, details, codes,
                 history, completion>>

IssueCode(v) ==
  /\ visit[v].pc = "issue"
  /\ codes' = codes \cup {[id |-> v, account |-> visit[v].account, request |-> RequestOf(v),
                           grant |-> visit[v].grant.id]}
  /\ VisitAt(v, "issued")
  /\ UNCHANGED <<world, browsers, consents, artifacts, details, history, completion>>

Entering == {"reference", "resolve", "delivery", "deliver"}

-----------------------------------------------------------------------------
(* A completion: interactions.complete.                                      *)

CompletionAt(c, pc) == completion' = [completion EXCEPT ![c].pc = pc]
UrlOf(c) == completion[c].seen.url
RequestAnswered(c) == UrlOf(c).request
DetailsAnswered(c) == DetailsOf[RequestAnswered(c)]

\* What is done first of what the answer holds.
AfterLogin(o) == IF o.consent # None THEN "consent" ELSE "destroy"
AfterConsume(o) ==
  IF o.error THEN "decline" ELSE IF o.login # None THEN "login" ELSE AfterLogin(o)

\* load, and the consent must approve the details the request carries
Load(c, v, o) ==
  /\ completion[c].pc = "idle" /\ interactions[v] # None
  /\ completion' = [completion EXCEPT ![c] =
       [@ EXCEPT !.interaction = v, !.seen = interactions[v], !.outcome = o,
                 !.account = interactions[v].account,
                 !.pc = IF /\ Live(interactions[v].expires)
                           /\ o.consent # None /\ DetailsOf[interactions[v].url.request] # None
                                => o.details
                        THEN "consume" ELSE "refused"]]
  /\ UNCHANGED <<world, browsers, stored, history, visit>>

\* Mutant: a form submitted twice is answered twice.
ConsumeUnasked(c) ==
  /\ completion[c].pc = "consume"
  /\ CompletionAt(c, AfterConsume(completion[c].outcome))
  /\ UNCHANGED <<world, browsers, stored, history, visit>>

ConsumeInteraction(c) ==
  /\ completion[c].pc = "consume"
  /\ LET v == completion[c].interaction
     IN IF interactions[v] # None /\ Consumable("interaction", v, interactions[v].expires)
        THEN Consume("interaction", v) /\ CompletionAt(c, AfterConsume(completion[c].outcome))
        ELSE UNCHANGED consumed /\ CompletionAt(c, "refused")
  /\ UNCHANGED <<world, browsers, consents, interactions, pushes, responses, details,
                 codes, history, visit>>

\* The answer is an error: the interaction goes and the response is stored for delivery.
DestroyDeclined(c) ==
  /\ completion[c].pc = "decline"
  /\ interactions' = [interactions EXCEPT ![completion[c].interaction] = None]
  /\ CompletionAt(c, "respond")
  /\ UNCHANGED <<world, browsers, consents, pushes, responses, consumed, details, codes,
                 history, visit>>

StoreResponse(c) ==
  /\ completion[c].pc = "respond"
  /\ responses' = [responses EXCEPT ![c] = now + Ttl]
  /\ links' = links \cup {[request |-> RequestAnswered(c), asks |-> {}, push |-> None,
                           response |-> c, from |-> c]}
  /\ CompletionAt(c, "done")
  /\ UNCHANGED <<world, handed, consents, interactions, pushes, consumed, details, codes,
                 history, visit>>

\* Mutant: the account stays the one the interaction was stored for.
StartUnseen(c) ==
  /\ completion[c].pc = "login"
  /\ sessions' = [sessions EXCEPT ![c] = completion[c].outcome.login]
  /\ CompletionAt(c, AfterLogin(completion[c].outcome))
  /\ UNCHANGED <<world, browsers, grants, artifacts, details, codes, history, visit>>

\* startSession
StartSession(c) ==
  /\ completion[c].pc = "login"
  /\ sessions' = [sessions EXCEPT ![c] = completion[c].outcome.login]
  /\ completion' = [completion EXCEPT ![c] =
       [@ EXCEPT !.account = completion[c].outcome.login,
                 !.pc = AfterLogin(completion[c].outcome)]]
  /\ UNCHANGED <<world, browsers, grants, artifacts, details, codes, history, visit>>

\* grants.findByAccountAndClient; a consent of nobody is an error, after the consume
FindConsent(c) ==
  /\ completion[c].pc = "consent"
  /\ IF completion[c].account = None
     THEN CompletionAt(c, "stopped")
     ELSE \E g \in FoundConsent(completion[c].account, ClientOf[RequestAnswered(c)]) :
            completion' = [completion EXCEPT ![c] = [@ EXCEPT !.grant = g, !.pc = "upsert"]]
  /\ UNCHANGED <<world, browsers, stored, history, visit>>

\* The consent accumulates over the grant that was found.
Accumulated(c) ==
  LET previous == completion[c].grant
  IN [id |-> IF previous = None THEN c ELSE previous.id,
      account |-> completion[c].account, client |-> ClientOf[RequestAnswered(c)],
      scopes |-> completion[c].outcome.consent
                   \cup (IF previous = None THEN {} ELSE previous.scopes)]

\* The person the host says is there, the one who just signed in or the one asked, and what
\* that person allows: the properties' record of it.
Consenting(c) ==
  IF completion[c].outcome.login # None THEN completion[c].outcome.login
  ELSE completion[c].seen.account

Gives(c) ==
  {<<Consenting(c), ClientOf[RequestAnswered(c)], s>> : s \in completion[c].outcome.consent}

\* grants.upsert: the unique index of a table refuses a second grant for the account and client
StoreConsent(c) ==
  /\ completion[c].pc = "upsert"
  /\ LET g == Accumulated(c)
     IN IF backend = "sql" /\ \E other \in Consents(g.account, g.client) : other.id # g.id
        THEN CompletionAt(c, "stopped") /\ UNCHANGED <<grants, given>>
        ELSE /\ grants' = {other \in grants : other.id # g.id} \cup {g}
             /\ given' = given \cup Gives(c)
             /\ CompletionAt(c, IF DetailsAnswered(c) # None THEN "approve" ELSE "destroy")
  /\ UNCHANGED <<world, browsers, sessions, artifacts, details, codes, votes, visit>>

\* artifacts.upsert of the approval: what consume wrote stays
ApproveDetails(c) ==
  /\ completion[c].pc = "approve"
  /\ approvals' = [approvals EXCEPT ![KeyOf(completion[c].account, RequestAnswered(c))] = now + Ttl]
  /\ votes' = votes \cup {<<c, KeyOf(Consenting(c), RequestAnswered(c))>>}
  /\ CompletionAt(c, "destroy")
  /\ UNCHANGED <<world, browsers, consents, artifacts, spent, codes, given, visit>>

\* Mutant: the request is replayed as it came.
Replayed(asks, loggedIn) == asks

\* What authorizationUrl leaves of the request's parameters.
Remaining(asks, loggedIn) == IF loggedIn THEN {} ELSE asks \cap {"measure"}

\* authorizationUrl: where a pushed request came by reference, so does its continuation.
Resumed(c) ==
  [request |-> RequestAnswered(c),
   asks |-> Remaining(UrlOf(c).asks, completion[c].outcome.login # None),
   push |-> IF UrlOf(c).push # None THEN c ELSE None,
   response |-> None, from |-> c]

\* The browser is sent back, with the cookie of the session it has started.
Return(c) ==
  /\ links' = links \cup {Resumed(c)}
  /\ handed' = IF completion[c].outcome.login # None THEN handed \cup {c} ELSE handed
  /\ CompletionAt(c, "done")

DestroyInteraction(c) ==
  /\ completion[c].pc = "destroy"
  /\ interactions' = [interactions EXCEPT ![completion[c].interaction] = None]
  /\ IF UrlOf(c).push # None
     THEN CompletionAt(c, "push") /\ UNCHANGED browsers
     ELSE Return(c)
  /\ UNCHANGED <<world, consents, pushes, responses, consumed, details, codes, history, visit>>

\* pushParameters
PushAgain(c) ==
  /\ completion[c].pc = "push"
  /\ pushes' = [pushes EXCEPT ![c] = now + Ttl]
  /\ Return(c)
  /\ UNCHANGED <<world, consents, interactions, responses, consumed, details, codes,
                 history, visit>>

-----------------------------------------------------------------------------
(* Elsewhere.                                                                *)

\* grants.revoke; the artifacts it deletes, no step here reads again
RevokeConsent(g) ==
  /\ grants' = grants \ {g}
  /\ UNCHANGED <<world, browsers, sessions, artifacts, details, codes, history, visit,
                 completion>>

\* A table keeps an expired row, and what consumed it, until prune.
Prune(k) ==
  /\ backend = "sql" /\ approvals[k] # None /\ ~Live(approvals[k])
  /\ approvals' = [approvals EXCEPT ![k] = None]
  /\ spent' = [spent EXCEPT ![k] = None]
  /\ UNCHANGED <<world, browsers, consents, artifacts, codes, history, visit, completion>>

Tick ==
  /\ now < MaxTime /\ now' = now + 1
  /\ UNCHANGED <<backend, sent, browsers, stored, history, visit, completion>>

-----------------------------------------------------------------------------
VisitStep(v) ==
  \/ \E u \in links, s \in handed \cup {None} : Arrive(v, u, s)
  \/ FindPushed(v) \/ ResolvePushed(v) \/ FindResponse(v) \/ DeliverResponse(v)
  \/ \E measured \in BOOLEAN : ReadSession(v, measured)
  \/ FindGrant(v) \/ FindApproval(v) \/ SpendApproval(v)
  \/ Suspend(v) \/ IssueCode(v)

CompletionStep(c) ==
  \/ \E v \in Visits, o \in Answers : Load(c, v, o)
  \/ ConsumeInteraction(c) \/ DestroyDeclined(c) \/ StoreResponse(c)
  \/ StartSession(c) \/ FindConsent(c) \/ StoreConsent(c) \/ ApproveDetails(c)
  \/ DestroyInteraction(c) \/ PushAgain(c)

Next ==
  \/ \E r \in Requests : Push(r)
  \/ \E v \in Visits : VisitStep(v)
  \/ \E c \in Completions : CompletionStep(c)
  \/ \E g \in grants : RevokeConsent(g)
  \/ \E k \in Keys : Prune(k)
  \/ Tick

Spec == Init /\ [][Next]_vars

-----------------------------------------------------------------------------
(* Properties.                                                               *)

\* Types: a consent and a code are always somebody's, and a visit past the session and the
\* grant has them (interactions.ts:101, authorization.ts:319).
TypeOK ==
  /\ backend \in Backends /\ sent \in Cases /\ now \in 0..MaxTime
  /\ links \subseteq Url /\ handed \subseteq SessionIds
  /\ sessions \in [SessionIds -> Accounts \cup {None}]
  /\ grants \subseteq Grant /\ codes \subseteq Code
  /\ interactions \in [Visits -> Interaction \cup {None}]
  /\ pushes \in [PushIds -> Nat \cup {None}] /\ responses \in [Completions -> Nat \cup {None}]
  /\ consumed \subseteq {"interaction"} \X Visits \cup {"push"} \X PushIds
                          \cup {"response"} \X Completions
  /\ approvals \in [Keys -> Nat \cup {None}] /\ spent \in [Keys -> Nat \cup {None}]
  /\ given \subseteq Accounts \X Clients \X Scopes
  /\ votes \subseteq Completions \X Keys
  /\ \A v \in Visits : /\ visit[v].url \in links \cup {None}
                       /\ visit[v].cookie \in handed \cup {None}
                       /\ visit[v].pc \in {"grant", "approval", "spend", "issue"}
                            => visit[v].account \in Accounts
                       /\ visit[v].pc = "issue" => visit[v].grant \in Grant
  /\ \A c \in Completions : /\ completion[c].seen \in Interaction \cup {None}
                            /\ completion[c].outcome \in Outcome \cup {None}
                            /\ completion[c].grant \in Grant \cup {None}

Accepted(c) == completion[c].pc \notin {"idle", "consume", "refused"}
Resolved(v) == visit[v].url # None /\ visit[v].pc \notin Entering \cup {"refused"}

\* What stands in a URL or a form works once, however many arrive with it at the same
\* time: of all completions of an interaction one is accepted, of all visits with a pushed
\* reference one is resolved, of all with a stored response one is answered
\* (interactions.ts:65, par.ts:93, provider.ts:74).
TakenOnce ==
  /\ \A c, d \in Completions :
       Accepted(c) /\ Accepted(d) /\ completion[c].interaction = completion[d].interaction => c = d
  /\ \A v, w \in Visits : Resolved(v) /\ Resolved(w) /\ v # w =>
       LET u == visit[v].url  x == visit[w].url
       IN /\ u.push # None => u.push # x.push
          /\ u.response # None => u.response # x.response

\* A code carries no scope that its account did not allow its client, however stale
\* the grant its visit read, and whoever else answered (authorization.ts:260, 295).
ConsentCovers ==
  \A code \in codes : \A s \in ScopesOf[code.request] :
    <<code.account, ClientOf[code.request], s>> \in given

DetailCodes(k) == {code \in codes : /\ DetailsOf[code.request] # None
                                    /\ KeyOf(code.account, code.request) = k}
Votes(k) == {vote \in votes : vote[2] = k}

\* An approval of details yields one code at most: replays of one approval, the same
\* details in two tabs, and expiry between them included (authorization.ts:314).
ApprovalSpentOnce ==
  \A k \in Keys : Cardinality(DetailCodes(k)) <= Cardinality(Votes(k))

\* Both: nothing that a person or a client was handed to use once is used twice.
UsedOnce == TakenOnce /\ ApprovalSpentOnce

\* A login that has been answered is not asked for again: the browser that comes back from
\* it with the cookie of the session it started gets past the login whatever prompt, max_age or
\* acr_values the request had (interactions.ts:198-208).
LoginSticks ==
  \A v \in Visits, c \in Completions :
    visit[v].url # None /\ visit[v].url.from = c /\ visit[v].cookie = c
      => ~(visit[v].pc = "suspend" /\ visit[v].account = None)
=============================================================================
