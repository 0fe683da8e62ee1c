# oidcraft in TLA+

oidcraft is an OpenID Connect provider (`packages/server`), a browser library (`packages/client` over
`packages/core`) and its framework bindings. The provider keeps no state between requests: each request
is a chain of awaits on an *adapter* (a key-value store, or tables through drizzle, kysely or typeorm),
and all requests race over it. The library keeps its state in the browser's storage, and its tabs and
listeners race over that. What is hard to get right is therefore not in any one handler but between
them: what a handler read is old when it is used, two handlers both believe they were first, a process
stops halfway. These modules model that, check it with TLC on small instances, and prove what
they must keep with TLAPS for every instance.

Paths below are relative to `src/packages/server/src` unless they start with `packages/`.
`PROJECT.json` lists every component with its files, every hazard with its line, and for every
definition the lines it models.

## The system

| Part | State it keeps | Operations | What is hard, and what makes it right |
|---|---|---|---|
| Storage adapters (`adapter.ts`, `adapters/`) | artifacts, sessions, clients, grants, credentials, identities, realms, the replay memory | upsert, find, consume, destroy, revokeByGrantId; addClient; create; claim | `consume`, `claim` and `create` decide alone who was first; a kv store needs several writes for one operation, a table one statement |
| Authorization endpoint, interactions (`authorize/authorization.ts`, `interactions.ts`, `par.ts`) | interactions, consents, codes, pushed requests | authorize, suspend, complete, issueCode | single use of everything in a URL; the consent accumulates; what was approved is what is issued |
| Token endpoint (`token/`) | access and refresh tokens | code and refresh grants, exchange, client credentials | one redemption, one live branch per family, scopes only shrink, a family's end does not slide |
| Device and CIBA (`authorize/device.ts`, `ciba.ts`) | pending requests, attempts | poll, look up a user code, answer | polls and answers write the same record; one redemption per approval |
| Sessions and logout (`session/`) | sessions and their client lists, logout interactions | start, addClient, end, confirm, notify | every client that holds tokens is told; an ended session stays ended |
| Grants, revocation (`authorize/management.ts`, `resource/revocation.ts`) | consents | revoke | nothing that was out when a revocation began outlives it |
| Accounts (`accounts/`) | credentials, reset tokens | authenticate, second factor, enrolment, reset | whole-record writes race; the lockout counts, a code works once |
| Realms (`realms.ts`) | realms, cached providers, key owners | get, create, update, disable, remove | a cached provider is not older than it may be; no two realms share a key |
| Broker (`broker/`, `upstreams/`) | handoffs, linked identities | start, complete, link, unlink, upstream logout | one use of a handoff; an account only of its own identity; only what an upstream opened ends with it |
| Clients, keys, sender constraints (`clients/`, `keys/`, `binding/`) | clients, keys, replay memory | register, update, authenticate, verify proofs | what is registered is servable; an assertion or a proof is accepted once |
| Client library (`packages/client/src`, `packages/core/src`) | the stored token, the handoff, the profile | login, refresh, fetch, logout, dispose | a refresh in flight against a logout, two tabs with one rotating token |
| Bindings (`packages/vue`, `react`, `angular`) | what is drawn, the form | draw, submit, render on a server | listeners that write what they listen to; renders that share a lookup |
| Provider, configuration, discovery | configuration | checks at start, metadata | the metadata says what the endpoints do |

The parts of the server interact only through the adapter: the authorization endpoint writes the code
the token endpoint redeems; the token endpoint puts the client on the list the logout reads; revocation
deletes what the token endpoint stored and the consent the authorization endpoint reads; a device's
approval writes the session, the consent and the request the poll reads. The library meets the server
only through HTTP, and the bindings meet the library through its stores and their listeners.

## Modules

| Module | Models | Composes |
|---|---|---|
| `TokenGrants` | codes and refresh tokens at the token endpoint, replay, revocation, expiry | the artifact, grant and session stores of both kinds of adapter |
| `TokenGrants_proofs` | theorems about it: one redemption, one heir, what a revocation reaches, what is issued | extends `TokenGrants` and TLAPS |
| `Approvals` | the device grant and CIBA: polls, user codes, answers | the same stores; what a redemption issues is `TokenGrants`' |
| `Authorize` | the authorization endpoint, its checks, interactions, consents, details, pushed requests | the same stores; a code's redemption is `TokenGrants`' |
| `SingleUse` | the contract of whatever can be had once: consume, claim, create | abstract specification |
| `AdapterCalls`, `KvAdapter`, `DrizzleAdapter`, `KyselyAdapter`, `TypeormAdapter` | the calls, and each adapter statement by statement | |
| `Adapters` | the four under the same calls | refines `SingleUse` |
| `Accounts` | local accounts over whole-record writes | replay memory |
| `Realms` | cached providers on several processes | |
| `Broker` | upstream sign-in, linking, upstream logout | replay memory, sessions, the checks of the core library |
| `Setup` | the configuration, the FAPI profile, keys and metadata, as operators | |
| `Endpoints`, `Clients`, `Proofs`, `TokenUse`, `EndSession` | shared stores; registration and authentication; assertions and DPoP; exchange, introspection, UserInfo, revocation; logout | each extends `Endpoints` |
| `Service` | the endpoints together | composes the five above |
| `ClientLibrary` | the browser library in tabs that share a storage | an external provider |
| `Bindings` | Vue, Angular and React over the library's token store; the form; server renders | |
| `Approvals_proofs`, `Authorize_proofs`, `Accounts_proofs`, `Realms_proofs`, `Adapters_proofs`, `Service_proofs`, `ClientLibrary_proofs` | theorems about each; those about `Broker` are at the end of `Accounts_proofs`, those about `Bindings` at the end of `ClientLibrary_proofs` | extend their modules and TLAPS |
| `MC...` | functions, cases and symmetry of the TLC instances | extend their modules |

Everywhere a request, a call, a poll or a visit is a *process*: a `pc` names the await it stands at, it
keeps what it has read, and a step runs from one await to the next. A crash is a process that takes no
further step. Names that are random in the code are the name of the process that drew them. Variables
and fields that are said to be the properties' memory (`past`, `met`, `vouched`, `late`, ...) are read by no
guard of a program's step.

No run checks for deadlock: the processes and the clock are finite, and the system may rest.

### TokenGrants

`Authorizations` (requests that need to ask nothing more), `Redemptions` (requests to the token endpoint)
and `Revocations` (calls of `grants.revoke` and of the revocation endpoint). The steps of a redemption:

    find -> [consume] -> grants.find -> sessions.find -> [consume] -> addClient
         -> store the access token [-> its index key] -> store the refresh token [-> its index key] -> issued

A code is consumed before its grant is loaded (`token/code.ts:60`), a rotating refresh token after the
checks (`code.ts:104`), and the tokens of a client that does not rotate (FAPI) never. A used or foreign
token goes to `revoke`, where the process runs `revokeByGrantId`. With `Backend = "kv"` consume is a read
and an insert, an upsert writes the artifact and then its index key, and a revocation scans the index
and destroys one key at a time, meeting every key there was when it began and any it may meet since;
with `"sql"` each is one step. `Fail` stops a process between any two awaits.

Abstractions: a wrong `redirect_uri`, verifier, DPoP key or resource is one nondeterministic refusal
before the consume; a find on a kv store is one step although it reads the consumed key second; ending
a session is one step; one account; claims and audit records are left out.

| Run | Checks | Bounds, and why they are enough |
|---|---|---|
| `tokens_sql` | `TypeOK`, `RedeemedOnce`, `OneHeir`, `IssuedWithin` | two redemptions (a race for one code, or a code and then its refresh token) and a revocation; two grants, of a client whose refresh tokens rotate and of one whose do not, and each may present the other's; a session and a code that expire at 1, a refresh token at 2, a family at 3 and a clock to 1, so a request can begin before and end after an expiry; the scope `offline_access`, asked for or not, kept by the consent or not. More redemptions are the theorems' part |
| `tokens_kv` | `Lineage`, `RevocationReaches`, `EveryRequestAnswered` | two redemptions by one rotating client and a revocation, every kv operation in steps; no clock, since expiry only takes tokens away; no symmetry, for the liveness property |

*Fairness.* `FairSpec` asks weak fairness of each request's own steps (`RedemptionStep`) and of its
revoking scan (`SweepStep`), for the code runs each handler to its end once it is called; arrivals, the
clock, failures and the host's calls have none. A stopped process counts as answered: the property asks
whether something that runs can be held up by others, which only the scan could be.

*What holds less than the comments say.* A replay, and a revocation, delete the tokens stored at that
moment. A redemption past its last look at the grant stores its tokens afterwards; they work until they
expire (the access token), until the next refresh finds the grant gone (after `grants.revoke`), or for
good (the refresh token after a replay, which leaves the grant standing): `token/code.ts:11-15`,
`authorize/management.ts:9-11`. `RevocationReaches` says what does hold: everything a client held when
the call began is gone when it returns.

### Approvals

`Polls` and `Answers` race over `store[q]`, the record of a device code or an `auth_req_id`. A poll reads
it, writes it back with the time of the poll (`Touch`), consumes, destroys, loads the consent and the
session, puts the client on the session's list. An answer to a device request begins with the typed user
code, whose failures are counted per peer; it may meet no session and go through a sign-in first; then it
checks the session, puts the client on the list by `sessions.upsert` (`JoinSession`), finds and stores the
consent and writes the request with the answer. `consumed` is the kv store's separate key, or the
table's column, which goes with the row.

Abstractions: one account; the checks of `checkApproval` other than the session's existence are one
nondeterministic refusal; sessions do not expire on their own; an answer's
`grants.findByAccountAndClient` may return any of several consents, which a kv store can hold.

| Run | Checks | Bounds |
|---|---|---|
| `approvals_race` | `OnlyApproved`, `KvRedeemsOnce`, `KvKeepsSignIns`, `CodesAreCounted` | three scenes chosen by `Init`: two polls and an answer over a device code, the same over a CIBA request, and two answers that type user codes at once or in turn; two clients; a limit of one wrong code, a window of 1 and a clock of 1 at which the code expires; both kinds of store |
| `approvals_once` (violated) | `RedeemedOnce` | two polls, one answer, a table |

`RedeemedOnce` holds on one store and not on the other because on a kv store the consumed key outlives
the artifact, while on a table a deleted row takes `consumed_at` with it: the poll that lost writes the
row back, unconsumed, and then consumes it. That is the project's one listed finding. `CodesAreCounted`
holds as long as lookups do not overlap; each one that does may put the count back (`device.ts:137-139`
speaks of a few over the limit; slow lookups make it more). Steps of the model that no property forbids:
an answer written away by a poll that had read the request before it (`device.ts:108`); a ping client
whose answer was written away then finds it pending; two answers given at once both accepted; parallel
polls none of which is slowed down; a session written back after it ended, and two approvals whose
whole-row session writes lose one another's client (`device.ts:195` against `adapter.ts:74`).

### Authorize

`Visits` are requests to the authorization endpoint, `Completions` calls of `interactions.complete`;
`links` and `handed` are the URLs and the session cookies browsers have, and a visit may come with any of
each, so links are opened twice, in two tabs and by two accounts. A visit goes

    [find and consume the pushed request] -> checks -> session -> grant -> [approval of details -> consume it] -> code

or from the session or the grant to `suspend`, whose interaction is named by the visit. The checks of a
request (client, redirect URI with its loopback port, response type, scopes, PKCE, nonce, the parameters
that must be well formed, and whether it must have been pushed) decide between going on, an error at the
redirect URI and an error page. A completion loads the interaction, consumes it, starts a session, finds
and stores the consent, stores the approval of details, destroys the interaction and returns a URL,
pushed again if the request was. `approvals` and `spent` are the artifacts of kind
`authorization_details_consent`: unlike all others they are written again under one key, so their
consumption is kept apart and with its expiry.

Abstractions: consume on a kv store is one step here (its records' names never come back, and an
approval is never destroyed, so the insert alone decides); the content of a request object and of
resource indicators is a flaw or none; an ended session is a cookie that finds nothing.

| Run | Checks | Bounds |
|---|---|---|
| `authorize_suspend` | `UsedOnce`, `ConsentCovers`, `LoginSticks` | three visits and two completions: the shortest way to a code with a login and a consent of its own, or a visit that suspends, a completion and two visits that race for its approval; requests with details, with prompt=none, pushed and prompting, and three that fail their checks in different places; two accounts, four answers; a clock of 1 at which everything stored at 0 expires; both stores |

An approval that has been used stays in the store as a consumed artifact. It is found again, so
`prompt=none` ends with a person asked (`authorization.ts:316`, against `:268`), and a new approval of the
same details is written over it and is as used as the old one (`interactions.ts:117`; the test at
`token/exchange.test.ts:284` approves only once). Two consents answered at once each write the scopes they
found and one is lost, and one revoked between the read and the write is written back
(`interactions.ts:103-114`). `ConsentCovers` says that whatever is lost, no code carries a scope nobody
allowed.

### The adapters

`AdapterCalls` has the calls (consume, save, destroy, revoke, prune, addClient, end, claim, create, link,
consent, ...) and `store`, a function on keys; each adapter module has the statements it answers them with;
`Adapters` chooses an adapter and one of eight tables at the start and lets three calls interleave and die
between statements. A statement reads `Date.now()` when it is sent and runs later. The unique indexes are
those of `adapters/sql/`. The kv store's time to live is in whole seconds, so the clock ticks in halves.

`Adapters` refines `SingleUse` (`OneWins`: `Contract == INSTANCE SingleUse WITH ...`, the abstract
specification as a property): a thing that can be had once is free, taken, expiring or absent, a call may
win it only at a moment of the call when it was to be had, and may lose only if at some moment it was not.
The contract is what `adapter.ts:59-64, 97-100, 115-116` promise of `consume`, `claim` and `create`.

| Run | Checks | Bounds |
|---|---|---|
| `adapters_calls` | `ClientsAreListed`, `RevokeReaches`, `OneOfAName`, `OneWins` | three calls, any of which may die; two accounts and two usernames; an artifact that expires at 3 and a claim for 2 in a clock of 4 half seconds; as many retries of `addClient` as there are calls |

Assumption: a kv command runs within a tick of the clock it was computed with. With `Slow = TRUE`, where a
consume's insert may run after the expiry its read was before, `OneWins` fails for the kv store
(`kv.ts:109-114`): the consumed key has run out with the artifact, and a second call wins. What the
properties except by name, since the code lets it happen: a whole row written over crossing additions
(`device.ts:195` is such a writer; on tables also of a session that ended); a kv revocation that drops the
index entry of an artifact written back meanwhile, so that the next revocation misses it (`kv.ts:121-126`); a
crash in `create` that leaves a username claimed (`kv.ts:250`), a `destroy` that crosses it (`kv.ts:265`); two
first consents that become two grants (`kv.ts:199`). Not in a property: a prune destroys
by its key what was renewed since it was listed (`kysely/index.ts:200-208`; drizzle and typeorm alike), and
`findByUserCode` over kv does not look at the expiry (`kv.ts:102`).

### Accounts

One credential, three calls of the API out of twelve combinations of operations, whose first step reads
the whole record and whose last writes it back; the replay memory for one-time and recovery codes; reset
tokens and the sessions a reset ends. The clock counts TOTP periods.

| Run | Checks | Bounds |
|---|---|---|
| `accounts_calls` | `SpentOnce`, `ResetEndsOlder`, `GuessesAreCounted`, `FactorsStand` | three calls: two that race and a third that meets what they left; two wrong attempts lock for 2 periods; a clock of 3, past a code's window and a lockout |

`GuessesAreCounted` is about attempts that follow one another: a failed one writes the record it read
(`accounts/index.ts:141`), so parallel ones count as one, and one that crosses a reset puts the old password
back, against the doc at `:328` that the reset sets a new one. `CounterOnce` excepts a period passing between the match and
the claim.

### Realms

`Gets` on two processes, one operator. A get's synchronous part is one step: it trusts a cached entry or
makes one; the load reads the record, waits for the entry it replaces, configures a provider and claims
its keys.

| Run | Checks | Bounds |
|---|---|---|
| `realms_cache` | `ServedCurrent`, `KeysApart` | three gets (a cached one, its reload, and one in flight at the change), two realms of which one may move to the other's key, one operator's call of each kind, a clock of 1 with `Revalidate = 1` |

`update`, `enable` and `disable` read the record and write it back (`realms.ts:137`): one crossing a `remove` brings
the realm back. `KeysApart` excepts a build in flight when its realm was forgotten, which claims keys
afterwards (`realms.ts:80`).

### Broker

A start chooses an upstream (an explicit one, `acr_values`, the hint's domain, the only one) and stores a
handoff; a callback finds it, checks the browser's cookie, consumes it, exchanges the code, looks the
identity up, links it and signs in. What the upstream answers is a set of records (`Answers`): the
redirect's parameters, which may be another tab's or another upstream's, whether discovery answers, and
the token endpoint's reply; `Ending` is the order of the checks in `packages/core/src/flow.ts` and
`upstreamFailure`. What it says of the person is the ID token and UserInfo (`Merged`, `Mapped`).

An ID token may say of which of the upstream's own sessions it is, and several of the sessions opened here
may carry one such sid (`Sids`, `broker/broker.ts:325`), of either upstream. A logout token is any of
`Tokens`: it gives a sid, whether or not a session has it, or only a subject, and it may arrive at any time
and again. `Accept` takes it, once for as long as the replay memory knows it; `FindIdentity` looks up the
account of a subject, which may have been unlinked or linked again by then; `List` finds the sessions the
token is about (`broker/logout.ts:56-68`); `EndSession` is the host, which ends them one by one. Callbacks
sign in and identities are unlinked between any two of these steps: a session stored under the sid after the
list was made is not ended, and `LogoutExact` says so. `before`, the sessions there were when a call listed
them, is what the property remembers.

Assumptions: an upstream issues an ID token for the request its code came from, holds a code to its
challenge if it is in `Pkce`, and its two documents agree where both speak. There is one person at each
upstream, so a token without a sid is about that person. Reading all sessions is one step.

| Run | Checks | Bounds |
|---|---|---|
| `broker_signin` | `EachOnce`, `LegsEndRight`, `LogoutExact` | two sign-ins and two callbacks (a race for one handoff, or two for one identity), two browsers, two upstreams of which one promises `iss`, holds to PKCE, and one renames the address; all three link policies; two calls of `upstreamLogout` and two tokens, of which one gives a sid and one a subject; one sid, which the sessions of both callbacks and of both upstreams may carry; a clock of 1, at which a handoff has ended, a logout token is in its last second and the memory of it is gone |

An ID token with another nonce, or none at all, is told as an outage: `checkNonce` returns its error alone
(`packages/core/src/flow.ts:64-66`), so that the test in `broker/broker.ts:81-86` never sees the token by
which it would tell a mismatch, and its `CORE_ERRORS` entry is never used. `ToldApart` excepts exactly
this. A logout token is accepted twice in the last second of its life (`broker/logout.ts:30, 52`).

### Service

`Init` chooses what the requests are about, a configuration that `ResolveConfig` accepts, the keys and the
registered clients. Six scenarios: *clients* (three registrations, updates, deletions and management
calls crossing), *setup* (one registration of every body under every configuration and key set),
*assertions* and *proofs* (two assertions; three proofs of two jti with nonces, while the clock passes
their windows), *tokens* (two requests: exchange, introspection, UserInfo, revocation, credentials, while
the client's registration changes), *logout* (three requests: end-session with and without a hint,
confirmations, redemptions that join the session, the operator's sign-out).

| Run | Checks | Bounds |
|---|---|---|
| `service_calls` | `ClientsStand`, `ServableAsAdvertised`, `UsedOnceInside`, `TokensStand`, `SessionsEnd` | as many requests as a scenario needs for one to cross another and a third to meet what is left; bodies of registration metadata that differ in one thing or in some that go together; seconds scaled so that a proof's and an assertion's windows, skews and claims all end at different ticks |

Assumption of `Proofs`: verification and claim run within a tick. What the properties except, or do not
state, because the code does it: a proof believed again at the very end of its window; under FAPI an
assertion verifies 10 s after `exp` and is remembered for 5 (`clients/assertion.ts:60, 84-87`), and its `jti` is
claimed for the issuer's namespace and not per client; a proof's `jti` is claimed before its nonce is looked
at; `management.update` of a metadata-document client stores a frozen copy; a `PUT` or `update` that had found the
client stores it again after its deletion; two `create`s of one id both succeed; a FAPI registration without
`id_token_signed_response_alg` defaults to RS256 and is refused; `discovery.ts:86` advertises
`dpop_bound_access_tokens_required` with `dpopNonces`; introspection calls a certificate-bound token `DPoP`
(`resource/introspection.ts:17`); an exchange does not look whether the grant still stands, so it may
issue from a token read before a revocation; one confirmation is accepted by two requests at once; a logout
token's `sub` is computed after a change of the client's subject type; under FAPI with RS256 keys only no logout tokens are sent; an
`onLogout` that fails after the session is destroyed leaves the clients untold (`provider.ts:144`); the hint's
`aud` is not compared with `client_id`.

### ClientLibrary

Pages of one application share `stored` and hear of one another's writes by storage events. A page is an
instance: the token in memory, the check of it that may be in flight, a flow (login, callback, logout), the
profile. A listener runs inside the write that wakes it, so a write and all it sets off is one step.
Setups: two tabs at one key; codes and handoffs with reloads; profiles, with and without rotation and ID
tokens; one tab with two tenants; one tab that switches tenants between a redirect and its callback.

Abstractions: one flow per page at a time; storage events not yet delivered coalesce by key, since the
handler reads the storage as it then is; a login is an account; the provider is external and numbers what
it issues; a lost answer is the library's `undefined`.

| Run | Checks | Bounds |
|---|---|---|
| `client_tabs` | `HoldsItsKey`, `SignedOutStays`, `PresentedOnce`, `ProfileIsCurrent`, `ItsOwn` | two tabs, two keys; three or four acts of the user (a lapse of the token, a call, a sign-in or -out, a reload, a disposal, a switched key) with three logins and four access tokens: a refresh, a sign-out and a new sign-in crossing |

What the exceptions in the properties stand for, each a behaviour of the code: a refresh in flight brings a
signed-out session back (`token.ts:87`); two tabs present one rotating token and the family is revoked;
`setExpires` by a tab that has not heard, or by an instance started again, writes an old token back; a 401
replaces whatever token is current by then; a refresh lost for a moment makes `authHeaders` send no bearer, and
the 401 drops the refresh token; a callback after another tab's sign-in skips the state check and its failure
ends the working session; a lost code exchange puts back the token held at its start; a reload on the
callback URL exchanges again and ends the session; a refresh answer without `expires_in` is never stored; a
token that lands while a check is in flight gets no `expires`; the profile is stale when one login follows
another without ID tokens.

### Bindings

`cascade` is the stack of writes under way and the listeners each has yet to call; `drawn` is what the ref, the
signal or the component's snapshot holds; `form` is the controller's store with two submissions; `render` are
two server requests that share `createDiscovery`'s map.

| Run | Checks | Bounds |
|---|---|---|
| `bindings_page` | `DrawsWhatIsHeld`, `NeverStuck`, `OwnInstance` | each framework; two listeners, in either order, of which one writes; two submissions, two tokens, two errors; two renders, two issuers, three fetches of which any may fail |

Not stated as properties, for the code does it: in Vue and Angular the cached status says AUTHORIZED after the
token's expiry until something is written (`packages/vue/src/module.ts:53`, against its comment at `:52`); dismissing
an old error while an attempt is in flight hides an equal new one (`packages/client/src/form.test.ts:85`); `submitting` is cleared by
the first of two attempts; the Vue form resets the username when a login that throws meets a stale
AUTHORIZED.

## The parts of the invariants

Several invariants are conjunctions of named parts. A run lists the conjunction; the operators marked
`\* Mutant:` beside the definitions show, put in the place of the definition after them, that TLC finds each part
violated.

| Invariant | Parts | Mutants, of what |
|---|---|---|
| `IssuedWithin` | `NothingAfterTheEnd`, `ScopesOnlyShrink`, `FamilyEndStands`, `SessionKnowsItsClients` | `SignedInLate`, `LoadGrantOnce`, `FamilyEndSlides`, `AddClientOffline` |
| `OnlyApproved` | `WonByApproval`, `ConsentComesFirst` | `VerdictBlind`, `UpsertConsentDeaf` |
| `UsedOnce` | `TakenOnce`, `ApprovalSpentOnce` | `ResolveUnconsumed` and `ConsumeUnasked`, `SpendFound` |
| `SpentOnce` | `RecoveryOnce`, `CounterOnce`, `ResetOnce` | `ClaimRecoveryListed`, `TotpTtlShort`, `ResetCompleteAgain` |
| `FactorsStand` | `CodesNeedAFactor`, `FactorWasProven` | `StoreRemovalHalf`, `StoreEnrolmentFresh` |
| `ServedCurrent` | `Fresh`, `ServedNotOlder`, `ServedProvisioned` | `TrustedLonger`, `SettleCached`, `CreateEnabled` |
| `EachOnce` | `HandoffOnce`, `AcceptedOnceInside` | `ConsumeByDestroy`, `ClaimShort` |
| `LegsEndRight` | `NoTakeover`, `AnsweredHere`, `ToldApart` | `MappedAll` and `MergedAnyhow`, `NonceIgnored`, `FailureRefused` |
| `LogoutExact` | `EndsItsOwn`, `EndsAll` | `NamedAnywhere`, `EndOne` |
| `RevokeReaches` | `GrantGoes`, `DestroyedStays` | `RevokeEntryFirst`, `FindSessionOrMake` |
| `OneOfAName` | `CreatedOnce`, `NamesResolve`, `OneConsent` | `CreateLookedUp`, `CreateNotUndone`, `UpsertAnyGrant` |
| `ClientsStand` | `IdentityStands`, `ReturnsOnlyLate`, `Vouched` | `UpdatedAfresh`, `UpdateBlind`, `UpdatedExempt` |
| `ServableAsAdvertised` | `DiscoveryMeansIt`, `RegisteredIsServed` | `GrantsUnchecked`, `SectorUnchecked` |
| `TokensStand` | `ExchangeNarrows`, `BoundThroughout`, `RevocationReaches`, `SubjectAgrees` | `ExchangedExpUncapped`, `HolderByKey`, `RevokeRefreshOnly`, `SubjectNow` |
| `SessionsEnd` | `EndedWasAsked`, `ConfirmedNotLater`, `EveryoneTold`, `EndedStays` | `ConfirmsAnySession`, `AcceptKept`, `LogoutTokensOthers`, `JoinRevives` |

`TypeOK` of `TokenGrants` is in a run and proved. The other
modules state theirs, which hold on the same instances and which no run lists; those of `Authorize` and
`Realms` are proved, and those of the other modules with proofs are part of what is proved.

## Proofs

A theorem holds for every number of processes, clients, sessions and values, every clock bound and, where
the module has the choice, both kinds of store. Each module of proofs has the same shape: an invariant `IInv`
that is a conjunction of named parts, a lemma for each part (a step keeps it), the theorem `Invariance`
(`Spec => []IInv`), and a theorem for each property, which follows from `IInv`. `Adapters` has two: `IInv` for
the refinement, and `KInv` (`TablesKeep`: `Spec => []KInv`) for the rest. That of `Bindings` is `ViewInv` (`ViewsKeep`), that
of `Broker` is `BrokerInv` (`BrokerInvariance`). TLC has found each of them to hold on the instance of the module's run.

| Property | Theorem | From |
|---|---|---|
| `TokenGrants!TypeOK`, `RedeemedOnce`, `OneHeir`, `Lineage` | `TypeCorrect`, `RedeemedOnceAlways`, `OneHeirAlways`, `LineageAlways` | `Lineage` |
| `TokenGrants!RevocationReaches`, `IssuedWithin` | `RevocationFinds`, `IssuesWithin` | `Indexed`, `Reached`; `Remembered`, `Sourced`, `Ends`, `Listed` |
| `Approvals!OnlyApproved`, `KvRedeemsOnce`, `KvKeepsSignIns`, `CodesAreCounted` | `NeedsApproval`, `KvRedeems`, `KvKeeps`, `LimitsGuesses` | `Answered`, `Consented`; `Marked`; `Keyed`; `Counts` |
| `Authorize!TypeOK`, `UsedOnce`, `ConsentCovers`, `LoginSticks` | `TypeCorrect`, `TakesOnce`, `CodesAreCovered`, `LoginIsNotAskedAgain` | `Kept`, `Linked`; `Taken`, `Counted`; `Allowed`; `Entered` |
| `Accounts!SpentOnce`, `ResetEndsOlder`, `GuessesAreCounted`, `FactorsStand` | `WorksOnce`, `ResetEnds`, `Counts`, `Stands` | `Recoveries`, `Counters`, `Redemptions`; `Ended`; `Guesses`; `Factors` |
| `Realms!TypeOK`, `KeysApart` | `NotRemembered`, `KeepsKeysApart` | `Caches`; `Signers` |
| `Realms!ServedCurrent` | `ServesFresh` (its parts `Fresh`, `ServedNotOlder`), `ServesCurrent` (all of it, under `[]CallsApart`) | `Versions`, `Reads`, `Trusts`; `Enabled` |
| `Broker!EachOnce`, `LegsEndRight`, `LogoutExact` | `AcceptsOnce`, `SignsInTheRightOne`, `EndsWhatItNames` | `Handoffs`, `Claims`; `Answered`, `Links`; `Openers`, `Lists` |
| `Service!ClientsStand`, `ServableAsAdvertised` | `ClientsAreTheirOwn`, `AdvertisedIsServed` | `Registry`, `Clientele`; `Posted` |
| `Service!UsedOnceInside`, `TokensStand`, `SessionsEnd` | `BelievedOnce`, `TokensSayWhatTheirGrantDoes`, `SessionsEndForGood` | `Signed`; `Tokens`; `Logout` |
| `Adapters!OneWins`, the refinement of `SingleUse` | `AdaptersImplementSingleUse` | `Rows`, `Known`, `Meets`, `Late` |
| `Adapters!ClientsAreListed`, `RevokeReaches`, `OneOfAName` | `ClientsStayListed`, `RevocationsReach`, `OneOfEachName` | `SessionRow`, `SessionEntries`, `Tries`; `Gone`, `ArtifactEntries`; `Owners`, `CredentialRows`, `Resolving` |
| `ClientLibrary!TypeOK`, `HoldsItsKey`, `SignedOutStays` | `TypeCorrect`, `PagesHoldTheirKey`, `SignedOutStaysOut` | `Typed`, `Sound`; `Synced`; `Stands` |
| `ClientLibrary!PresentedOnce`, `ProfileIsCurrent`, `ItsOwn` | `PresentsOnce`, `ProfileStaysCurrent`, `CallbacksEndWithTheirOwn` | `Stands`; `Sound` (its `Follows`); `Sound` (its `GoodFlow`) |
| `Bindings!DrawsWhatIsHeld`, `NeverStuck`, `OwnInstance` | `ViewsDrawWhatIsHeld`, `FormsComeBack`, `RendersResolveTheirOwn` | `Told`; `Submitting`; `Requests` |

The theorems rest on the `ASSUME`s of their modules (`ConstantsAssumption` and `TtlAssumption` of `TokenGrants`,
`ApprovalsAssumption`, `AuthorizeAssumption`, `AccountsAssumption`, `RealmsAssumption`, `BrokerAssumption`,
`AdapterAssumption`, `TableAssumption`, `ClientAssumption`, `BindingsAssumption`, for `Service` `NamesAssumption`,
`PatchesAssumption`, `BodiesAssumption`, `RegisteredAssumption`, `TimesAssumption` and `AccessTtlAssumption`, and the `NoneAssumption`s),
which TLC evaluates in every run of their module. They say that a ttl is a
positive whole number, which `resolveConfig` refuses otherwise, that a claim asks for a second at least (two
ticks of `Adapters`; `adapter.ts:99` has whole seconds), that what is registered or patched leaves a client one of the type
`Client`, and a patch that speaks of PKCE says who vouched for it, that the times of assertions and proofs are whole numbers, that the functions among the constants have their domains, that the
scenarios of `Adapters` are among its eight tables and there is an account and a name, and that a
value that stands for nothing (`None`, `Undefined` in `Bindings`) is no name, number or record.

Why the invariants are as they are:

- **`TokenGrants`, one heir.** Neither `OneHeir` nor `RedeemedOnce` is inductive: whether a second request can win
  depends on what others still remember of a token that may be gone. `Presented`: a request holds only what
  was given out. `Descent`: a stored token's family is its parent's. `Agreed`: all who read a token read the
  same. `Winners`: whoever passed the consume is alone and has marked it, and nobody issues from a single-use
  token without having passed. `OneUnspent`: a family has at most one bearer, where a token counts as unspent
  also while some request merely remembers it, because a kv consume can succeed on an artifact already destroyed.
- **`TokenGrants`, reach.** A revocation that is over has removed what it set out to (`Reached`: it is gone, or
  among the keys still to delete), and it finds every token a client had been given because such a token's index
  key was written before the answer (`Indexed`). What is issued depends on what was read several awaits ago:
  consents and sessions only shrink, so what a request noted of them stays true (`Remembered`), a stored token is
  within what its request read (`Sourced`), the session has been told of the client before the first token is
  stored (`Listed`). That a family's end does not move needs the spent code: the refresh tokens of a family are
  all later than the one request that redeemed its code, and carry the end it set (`Ends`).
- **`Approvals`.** A poll redeems what it read awaits ago, and an approval is a whole record written over
  another. `Answered`: an approval, stored or read, is one that an answer gave to that very request. `Marked`
  is about kv only: on a table a stale save brings the consumed row back, which is the finding of `approvals_once`.
  `Counts` holds as long as lookups do not overlap, which is what the property says.
- **`Authorize`.** `Taken`: whatever passed a consume has marked it, alone. `Allowed`: nobody's consent, stored or
  remembered by a visit or a completion, goes beyond what the account allowed. `Entered`: the session of a login
  is stored before its cookie is handed out. `Counted` is the argument about approvals of details, which are
  saved over one another by whole records: the visits that have spent one and, if it can still be spent, the
  stored one, are together no more than the votes that were given; the codes are no more than those visits.
  The proof found that some `CASE`s had arms that overlap, whose meaning TLA+ leaves open; they are `IF`s now.
- **`Accounts`.** Every write is a whole record read awaits ago, so the record itself shows little. What works
  once does so for a key that is claimed and stays (`Recoveries`, `Redemptions`) or stays as long as the counter
  is within the clock's skew (`Counters`). `Factors` is said of the record and of everything that a call may still
  write back. `Guesses` counts the failures in the record against those of orderly attempts.
- **`Realms`.** A cached entry is a load in flight or done, that may wait for the one before it. `Versions` numbers
  the writes; `Reads` dates what a load has read; `Trusts` says of a request that waits for an entry that it came while
  it was fresh. For the keys, `Signers` says that the entries of one realm in one process form a line, in which
  each waits for the one before, and that the keys of all that are built are the realm's.
- **`Broker`.** `Handoffs`: a handoff that is gone was completed, by the browser that holds it. `Links`: an account
  stands for an identity of an upstream wherever it is written: a link, a session or a callback's memory.
  `Claims`: a logout token's acceptance is remembered until it is too old. `Openers`: a
  session, stored or listed, is of a callback that is over, so that no two have one name. `Lists`: a logout call
  holds what it is about, was there when it listed and has yet to end; whoever signs in later, under the same sid
  too, has a session of another name.
- **`Service`.** `Common` is what every scenario shares: requests begin in the order of their numbers, and what a request
  knows to have been over when it began stays over. The other parts are about one kind of request each, and the steps
  of the other kinds leave them alone. `Signed`: whatever was believed is remembered until it is too old to be believed
  again but at the end of its window, which is arithmetic over all windows, skews and ttls. `Registry`: what is
  stored of a client, and what a request is about to store, is its own, and whoever stores one that is gone had found it
  before it went or creates it anew. `Posted`: what a registration answered is what its metadata deserved, and what it stored is
  made of it; the rest compares `MetadataFrom` with `Metadata` case by case, for every configuration that `ResolveConfig`
  accepts. `Tokens`: a token, stored or read awaits ago, has the subject that was told and the keys of what it came from
  (`Genuine`), and whoever begins once a revocation is over was shown only what an exchange issued. `Logout`: an interaction
  somebody answered is about the session they confirmed, everyone signed in is on the list that was read, and in what
  will be told. The proof found three properties too strong for instances larger than the run's: an update that speaks
  of a client's secret or logout URIs is now excepted (`Left`), and `RevocationReaches` speaks of chains of exchanges: what is
  exchanged after a revocation is over can only come from what an exchange that crossed it had issued.
- **`Adapters`.** The refinement goes step by step. The four adapters' statements are first put in plain terms, one
  set for the tables and one for a kv store (`CallStep`), so that the three tables' adapters share a proof; then
  every step is shown to be a win, a refusal, a failure or a beginning of the contract, a change of the thing, or
  none of them (`Effect`). A call wins with what it read awaits ago, so `Late` says what it has met by then: a
  claim that was live at its clock reading it has met taken, and so has a call of TypeORM's that found the key
  taken again after it had cleared a lapsed one; an artifact that a kv consume read was free then, or is consumed
  by now. `Rows` keeps what decides it: a consumed key lasts as long as its artifact, and an artifact written back
  keeps its expiry. The clock makes the difference between a claim's reading and its row: a table's statement is a tick
  late at most, and a claim is for two at least.
- **`Adapters`, what is stored.** `KInv` is about what one call still holds while another writes. `Apart` says which
  calls have been alone all along; crossings are never taken back, so an exception of a property that names one
  stays an exception. `Gone`: what a call destroyed that nobody crossed is not stored, and no call under way holds a copy it could
  write back, unless one makes it again. `SessionRow` and `SessionEntries`: who holds a copy of a session and is
  alone has what is stored, and an answered addition is in the row, or has its key, unless it was written over.
  `Tries`: a retry of `addClient` is due to a call that was answered since it read, so an addition
  has tried no more often than calls are over. `ArtifactEntries`: an index key stands as long as its artifact, unless a
  revocation crossed a write. `CredentialRows` and `Owners`: no two calls that were answered made one name or one
  account, while nothing is destroyed; for a kv store the key of the name remembers whose it is. `Resolving` ties a
  name's key to the credential that has the name, as long as no call has died and destructions ran alone, and says
  for a call between its two writes which of the two is ahead.
- **`ClientLibrary`.** All of it is about where a token may be. `Sound`: what is stored, in memory, in a check or in a
  flow was issued, to a login at the tenant of its key, with a refresh token of the same login. `Synced`: a page that
  listens and is owed no event has what is stored. `Stands`: what was signed out of or spent is nowhere but where the
  exceptions allow it. These do not carry themselves: that the answer of a check can be stored without bringing back what
  was spent needs that a rotated token on its way is nowhere else (`Sealed`), that a sign-in's answer is not of
  a login that was signed out of needs that nothing else of that login is around (`New`), and that needs that a login
  somebody waits for, or has a code of, has been issued nothing (`Own`). The proof puts a step in plain terms: a page
  changes, one token is stored and spreads by events (`Moves`); most steps bring no token that was not there
  (`Ordinarily`) and share one proof, the issuing, storing and ending ones have their own.

- **`Bindings`.** `Told`: what is drawn is what is held, or a write on the stack has yet to call the listener that
  draws. That needs that nobody listens twice and that what is drawn is what its listener last selected
  (`Subscribed`): otherwise a call could find nothing new and leave what is drawn. `Submitting`: a form that waits has an
  attempt sent or answered that will free it. `Requests`: one render at most runs, and the context that is open is
  its own, so what it resolves there is its own too.

`AdaptersImplementSingleUse` has the hypothesis `~Slow \/ "kv" \notin Backends`: over a kv store, a consume's
insert comes before the artifact it has read expires. Without it TLC finds the contract violated (see
[The adapters](#the-adapters)); the tables' adapters need no such hypothesis.

`ClientsStayListed` has the hypothesis that the calls are finitely many and no more than `Attempts`, what the code's
bound on retries is for (64 in all three table adapters). With more writers at once an addition may lose to another every
time, and then it throws; the other two theorems of `KInv` have no hypothesis.

`ServesCurrent` has the hypothesis `[]CallsApart`: no two management calls for one realm overlap. Without it
the property is false: `update` reads an enabled record, `remove` takes the realm away and retires what was
provisioned for it, and the save of `update` brings it back, enabled and not provisioned (`realms.ts:136-147`). The
run has one operator, so there it holds. `ServesFresh` needs no such hypothesis.

Only model-checked: `EveryRequestAnswered`, a liveness property, which is out of the prover's reach. What a recursive
definition computes for every input would need induction over data, which the prover cannot do either; no
theorem needs it.

## Plan

Every safety property that a run checks is proved. What is left is to model: the protected-resource and step-up
helpers, if they come to keep state.

## Not modelled

Cryptography (signatures, hashes, thumbprints, key derivation: a value is itself), HTTP and its headers, CORS,
routing, audit records, the rendering of errors, screens and markup; the runtimes' conversions; the
fetching of metadata documents and of a client's keys (the host's answer is an input); the rotation of keys,
which is the list the host passes; the claims of an ID token beyond its subject, audience and key; the
content of request objects; the implicit flow of the library and a logout redirect that does not come back. The listings for
operators read and change nothing. `PROJECT.json` says of each component what is left out.
