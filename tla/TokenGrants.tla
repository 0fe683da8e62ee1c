----------------------------- MODULE TokenGrants -----------------------------
(***************************************************************************)
(* The token side of the provider: authorization codes and refresh tokens  *)
(* redeemed at the token endpoint (token/code.ts, token/issue.ts,          *)
(* token/access-token.ts), the codes the authorization endpoint issues     *)
(* (authorize/authorization.ts), and everything that takes tokens away: a  *)
(* replay, a revoked consent (authorize/management.ts), the revocation     *)
(* endpoint (resource/revocation.ts), the end of a session, and expiry.    *)
(*                                                                         *)
(* The provider keeps no state between requests, so all of them race over  *)
(* the adapter.  Every request is a process here and every await on the    *)
(* adapter is a step of its own; what a handler read stays in its record   *)
(* (seen, granted) and may be stale when it is used.                       *)
(*                                                                         *)
(* A token is named by the request that mints it, which is what            *)
(* randomString's never repeating a value gives.                           *)
(***************************************************************************)
EXTENDS Naturals, FiniteSets

CONSTANTS
  Authorizations, \* requests to the authorization endpoint
  Redemptions,    \* requests to the token endpoint
  Revocations,    \* calls of grants.revoke and of the revocation endpoint
  Clients,
  Grants,         \* consents, one account's
  Sessions,       \* that account's sign-ins
  Scopes,
  OfflineAccess,  \* the scope "offline_access"
  GrantClient,    \* [Grants -> Clients]: whom a consent is for
  Rotating,       \* clients whose refresh tokens rotate: all but FAPI ones
  Refreshing,     \* clients registered for the refresh_token grant
  Backend,        \* "kv" (fromKv) or "sql" (drizzle, kysely, typeorm)
  SessionEnd,     \* [Sessions -> Nat]: when a sign-in expires
  CodeTtl, AccessTtl, RefreshTtl, FamilyTtl,
  MaxTime,        \* the clock stops here
  None

Code(a)    == <<"authorization_code", a>>
Access(r)  == <<"access_token", r>>
Refresh(r) == <<"refresh_token", r>>
Id == {Code(a) : a \in Authorizations}
        \cup {Access(r) : r \in Redemptions} \cup {Refresh(r) : r \in Redemptions}

\* A stored artifact.  family names the authorization a token descends from:
\* the code keeps no such field, the properties do.
Artifact == [client : Clients, grant : Grants, session : Sessions,
             scopes : SUBSET Scopes, expires : Nat, familyEnd : Nat,
             family : Authorizations]

ASSUME ConstantsAssumption ==
  /\ None \notin Artifact /\ None \notin Id
  /\ None \notin Grants /\ None \notin Clients
  /\ GrantClient \in [Grants -> Clients]
  /\ Rotating \subseteq Clients /\ Refreshing \subseteq Clients
  /\ OfflineAccess \in Scopes
  /\ Backend \in {"kv", "sql"}
  /\ Redemptions \cap Revocations = {}

\* resolveConfig refuses a ttl that is not a positive whole number
ASSUME TtlAssumption ==
  /\ {CodeTtl, AccessTtl, RefreshTtl, FamilyTtl} \subseteq Nat \ {0}
  /\ SessionEnd \in [Sessions -> Nat]
  /\ MaxTime \in Nat

VARIABLES
  store,    \* the artifacts: [Id -> Artifact or None]
  index,    \* kv only: the grant-index/<grant>/<kind>/<id> keys
  consumed, \* consumed/<kind>/<id> keys (kv), consumed_at columns (sql)
  grants,   \* the consents that stand
  consent,  \* [Grants -> the scopes a standing consent covers]
  sessions, \* the sessions not ended
  clients,  \* [Sessions -> the clients a session was used to sign in to]
  now,      \* Date.now()
  auth,     \* the authorization requests' own state
  red,      \* the token requests' own state
  rev,      \* the revocations' own state
  sweep     \* each process's call of revokeByGrantId

vars == <<store, index, consumed, grants, consent, sessions, clients, now,
          auth, red, rev, sweep>>

Minimum(S) == CHOOSE m \in S : \A n \in S : m <= n

-----------------------------------------------------------------------------
(* The adapter's artifact operations. *)

\* find: FR-T5, an expired artifact is not served
Live(i) == store[i] # None /\ store[i].expires > now

SessionLive(s) == s \in sessions /\ SessionEnd[s] > now

\* upsert.  A kv store writes the artifact here and its index key in the next
\* step; a table does both at once.
Upsert(i, artifact) == store' = [store EXCEPT ![i] = artifact]

OfGrant(g) == {i \in Id : store[i] # None /\ store[i].grant = g}

\* revokeByGrantId on a table: one DELETE
DeleteGrantRows(g) == store' = [i \in Id |-> IF i \in OfGrant(g) THEN None ELSE store[i]]

\* revokeByGrantId on a kv store: the keys its scan starts from
GrantKeys(g) == {i \in Id : <<g, i>> \in index}

-----------------------------------------------------------------------------
Init ==
  /\ store = [i \in Id |-> None]
  /\ index = {}
  /\ consumed = {}
  /\ grants = Grants
  /\ consent \in [Grants -> (SUBSET Scopes) \ {{}}]
  /\ sessions = Sessions
  /\ clients = [s \in Sessions |-> {}]
  /\ now = 0
  /\ auth = [a \in Authorizations |-> [pc |-> "idle", code |-> None]]
  /\ red = [r \in Redemptions |->
             [pc |-> "idle", client |-> None, token |-> None, seen |-> None,
              granted |-> {}, scopes |-> {}, won |-> FALSE,
              consent |-> {},
              revoked |-> FALSE, ended |-> FALSE]]
  /\ rev = [v \in Revocations |->
             [pc |-> "idle", grant |-> None, token |-> None]]
  /\ sweep = [p \in Redemptions \cup Revocations |->
               [started |-> FALSE, keys |-> {}, reach |-> {}]]

\* What the clients have been given so far.
Held ==
  {Code(a) : a \in {b \in Authorizations : auth[b].pc = "issued"}}
    \cup UNION {{Access(r), Refresh(r)} : r \in {q \in Redemptions : red[q].pc = "issued"}}

IsCode(i)    == i \in {Code(a) : a \in Authorizations}
IsRefresh(i) == i \in {Refresh(r) : r \in Redemptions}
IsAccess(i)  == i \in {Access(r) : r \in Redemptions}
SingleUse(i, client) == IsCode(i) \/ client \in Rotating

-----------------------------------------------------------------------------
(* The authorization endpoint, once nothing is left to ask: authorize reads *)
(* the session and the consent, and issueCode stores the code.              *)

Authorize(a, s, g, asked) ==
  /\ auth[a].pc = "idle"
  /\ SessionLive(s)
  /\ g \in grants /\ asked \subseteq consent[g]
  /\ auth' = [auth EXCEPT ![a] =
       [pc |-> "store",
        code |-> [client |-> GrantClient[g], grant |-> g, session |-> s,
                  scopes |-> asked, expires |-> 0, familyEnd |-> 0, family |-> a]]]
  /\ UNCHANGED <<store, index, consumed, grants, consent, sessions, clients, now, red, rev, sweep>>

issueCode(a) ==
  /\ auth[a].pc = "store"
  /\ Upsert(Code(a), [auth[a].code EXCEPT !.expires = now + CodeTtl])
  /\ auth' = [auth EXCEPT ![a].pc = IF Backend = "kv" THEN "index" ELSE "issued"]
  /\ UNCHANGED <<index, consumed, grants, consent, sessions, clients, now, red, rev, sweep>>

IndexCode(a) ==
  /\ auth[a].pc = "index"
  /\ index' = index \cup {<<auth[a].code.grant, Code(a)>>}
  /\ auth' = [auth EXCEPT ![a].pc = "issued"]
  /\ UNCHANGED <<store, consumed, grants, consent, sessions, clients, now, red, rev, sweep>>

-----------------------------------------------------------------------------
(* The token endpoint. *)

Goto(r, pc) == red' = [red EXCEPT ![r].pc = pc]

\* Mutant: a token the store does not have is taken for a valid one.
AfterFindMissing(i, client, otherwise) ==
  IF store[i] # None /\ (i \in consumed \/ store[i].client # client) THEN {"revoke"}
  ELSE otherwise

\* Where a grant goes after reading the artifact it was shown: a missing one is
\* refused, a used one or another client's takes the whole grant with it.
AfterFind(i, client, otherwise) ==
  IF ~Live(i) THEN {"refused"}
  ELSE IF i \in consumed \/ store[i].client # client THEN {"revoke"}
  ELSE otherwise

\* A request arrives and reads its artifact.  consent, revoked and ended record,
\* for the properties only, what held of the grant and of the session at that moment.
Find(r, i, client, otherwise) ==
  /\ red[r].pc = "idle"
  /\ \E pc \in AfterFind(i, client, otherwise) :
       red' = [red EXCEPT ![r] =
         [@ EXCEPT !.pc = pc, !.client = client, !.token = i, !.seen = store[i],
                   !.consent = IF store[i] = None THEN {} ELSE consent[store[i].grant],
                   !.revoked = store[i] # None /\ store[i].grant \notin grants,
                   !.ended = store[i] # None /\ ~SessionLive(store[i].session)]]
  /\ UNCHANGED <<store, index, consumed, grants, consent, sessions, clients, now, auth, rev, sweep>>

\* A wrong redirect_uri, verifier, DPoP key or resource refuses the request
\* before the consume, and leaves the code as it was.
authorizationCodeGrant(r, i, client) ==
  /\ i \in Held /\ IsCode(i)
  /\ Find(r, i, client, {"consume", "refused"})

refreshTokenGrant(r, i, client) ==
  /\ i \in Held /\ IsRefresh(i)
  /\ client \in Refreshing
  /\ Find(r, i, client, {"grant"})

\* Where the winner of the consume goes: a code still has to load its grant.
AfterConsume(r) == IF IsCode(red[r].token) THEN "grant" ELSE "addClient"

\* Mutant: UPDATE without "AND consumed_at IS NULL".
ConsumeRowAgain(r) ==
  /\ Backend = "sql" /\ red[r].pc = "consume"
  /\ IF Live(red[r].token)
       THEN /\ consumed' = consumed \cup {red[r].token}
            /\ red' = [red EXCEPT ![r].won = TRUE, ![r].pc = AfterConsume(r)]
       ELSE Goto(r, "revoke") /\ UNCHANGED consumed
  /\ UNCHANGED <<store, index, grants, consent, sessions, clients, now, auth, rev, sweep>>

\* artifacts.consume.  On a table one UPDATE decides; a kv store reads the
\* artifact, and then the insert of the consumed key decides.
ConsumeRow(r) ==
  /\ Backend = "sql" /\ red[r].pc = "consume"
  /\ IF Live(red[r].token) /\ red[r].token \notin consumed
       THEN /\ consumed' = consumed \cup {red[r].token}
            /\ red' = [red EXCEPT ![r].won = TRUE, ![r].pc = AfterConsume(r)]
       ELSE Goto(r, "revoke") /\ UNCHANGED consumed
  /\ UNCHANGED <<store, index, grants, consent, sessions, clients, now, auth, rev, sweep>>

ConsumeRead(r) ==
  /\ Backend = "kv" /\ red[r].pc = "consume"
  /\ Goto(r, IF Live(red[r].token) THEN "insert" ELSE "revoke")
  /\ UNCHANGED <<store, index, consumed, grants, consent, sessions, clients, now, auth, rev, sweep>>

\* Mutant: the consumed key is put, not inserted.
ConsumePut(r) ==
  /\ red[r].pc = "insert"
  /\ consumed' = consumed \cup {red[r].token}
  /\ red' = [red EXCEPT ![r].won = TRUE, ![r].pc = AfterConsume(r)]
  /\ UNCHANGED <<store, index, grants, consent, sessions, clients, now, auth, rev, sweep>>

ConsumeInsert(r) ==
  /\ red[r].pc = "insert"
  /\ IF red[r].token \notin consumed
       THEN /\ consumed' = consumed \cup {red[r].token}
            /\ red' = [red EXCEPT ![r].won = TRUE, ![r].pc = AfterConsume(r)]
       ELSE Goto(r, "revoke") /\ UNCHANGED consumed
  /\ UNCHANGED <<store, index, grants, consent, sessions, clients, now, auth, rev, sweep>>

\* Mutant: a refresh keeps the token's scopes whatever became of the consent.
LoadGrantOnce(r) ==
  /\ red[r].pc = "grant"
  /\ IF red[r].seen.grant \in grants
       THEN red' = [red EXCEPT ![r].granted = red[r].seen.scopes, ![r].pc = "session"]
       ELSE Goto(r, "refused")
  /\ UNCHANGED <<store, index, consumed, grants, consent, sessions, clients, now, auth, rev, sweep>>

\* The first read of loadGrantAndSession and loadGrantAndSignIn.  A refresh
\* keeps only the scopes the grant still has; a code keeps its own.
LoadGrant(r) ==
  LET seen == red[r].seen
      scopes == IF IsCode(red[r].token) THEN seen.scopes
                ELSE seen.scopes \cap consent[seen.grant]
  IN /\ red[r].pc = "grant"
     /\ IF seen.grant \in grants
          THEN red' = [red EXCEPT ![r].granted = scopes, ![r].pc = "session"]
          ELSE Goto(r, "refused")
     /\ UNCHANGED <<store, index, consumed, grants, consent, sessions, clients, now, auth, rev, sweep>>

\* Mutant: a session past its expiry still signs in.
SignedInLate(r) ==
  \/ red[r].seen.session \in sessions
  \/ IsRefresh(red[r].token) /\ OfflineAccess \in red[r].seen.scopes

\* Their second read.  offline_access carries a snapshot of the sign-in, so such
\* a refresh token outlives the session; a code never does.
SignedIn(r) ==
  \/ SessionLive(red[r].seen.session)
  \/ IsRefresh(red[r].token) /\ OfflineAccess \in red[r].seen.scopes

loadGrantAndSession(r) ==
  /\ red[r].pc = "session" /\ IsCode(red[r].token)
  /\ IF SignedIn(r)
       THEN red' = [red EXCEPT ![r].scopes = red[r].granted, ![r].pc = "addClient"]
       ELSE Goto(r, "refused")
  /\ UNCHANGED <<store, index, consumed, grants, consent, sessions, clients, now, auth, rev, sweep>>

\* Mutant: a rotating refresh token is answered without being consumed.
loadGrantAndSignInKept(r) ==
  /\ red[r].pc = "session" /\ IsRefresh(red[r].token)
  /\ \/ /\ SignedIn(r)
        /\ red' = [red EXCEPT ![r].scopes = red[r].granted, ![r].pc = "addClient"]
     \/ Goto(r, "refused")
  /\ UNCHANGED <<store, index, consumed, grants, consent, sessions, clients, now, auth, rev, sweep>>

\* The refresh then narrows to the scopes asked for; asking for more, or with
\* another key than the token is bound to, is refused.
loadGrantAndSignIn(r) ==
  /\ red[r].pc = "session" /\ IsRefresh(red[r].token)
  /\ \/ /\ SignedIn(r)
        /\ \E asked \in SUBSET red[r].granted :
             red' = [red EXCEPT
               ![r].scopes = IF asked = {} THEN red[r].granted ELSE asked,
               ![r].pc = IF red[r].client \in Rotating THEN "consume" ELSE "addClient"]
     \/ Goto(r, "refused")
  /\ UNCHANGED <<store, index, consumed, grants, consent, sessions, clients, now, auth, rev, sweep>>

\* Mutant: only an offline request is put on the session's list.
AddClientOffline(r) ==
  LET s == red[r].seen.session IN
  /\ red[r].pc = "addClient"
  /\ clients' = [clients EXCEPT ![s] =
                   IF s \in sessions /\ OfflineAccess \in red[r].granted
                   THEN @ \cup {red[r].client} ELSE @]
  /\ Goto(r, "access")
  /\ UNCHANGED <<store, index, consumed, grants, consent, sessions, now, auth, rev, sweep>>

\* sessions.addClient: an ended session is not brought back.  The code skips the
\* call when the session it read lists the client already, which changes nothing.
AddClient(r) ==
  LET s == red[r].seen.session IN
  /\ red[r].pc = "addClient"
  /\ clients' = [clients EXCEPT ![s] =
                   IF s \in sessions THEN @ \cup {red[r].client} ELSE @]
  /\ Goto(r, "access")
  /\ UNCHANGED <<store, index, consumed, grants, consent, sessions, now, auth, rev, sweep>>

\* What every token of one response shares.
Issued(r, scopes, expires, familyEnd) ==
  [client |-> red[r].client, grant |-> red[r].seen.grant,
   session |-> red[r].seen.session, scopes |-> scopes, expires |-> expires,
   familyEnd |-> familyEnd, family |-> red[r].seen.family]

issueAccessToken(r) ==
  /\ red[r].pc = "access"
  /\ Upsert(Access(r), Issued(r, red[r].scopes, now + AccessTtl, 0))
  /\ Goto(r, IF Backend = "kv" THEN "indexAccess" ELSE "refresh")
  /\ UNCHANGED <<index, consumed, grants, consent, sessions, clients, now, auth, rev, sweep>>

IndexAccess(r) ==
  /\ red[r].pc = "indexAccess"
  /\ index' = index \cup {<<red[r].seen.grant, Access(r)>>}
  /\ Goto(r, "refresh")
  /\ UNCHANGED <<store, consumed, grants, consent, sessions, clients, now, auth, rev, sweep>>

\* issueTokens mints a refresh token when the family is offline or bound to a
\* session (every code is, and a token without offline_access stays so), for a
\* client registered for the grant, unless the one presented is kept.
Mints(r) ==
  /\ red[r].client \in Refreshing
  /\ SingleUse(red[r].token, red[r].client)
  /\ \/ OfflineAccess \in red[r].granted
     \/ IsCode(red[r].token)
     \/ OfflineAccess \notin red[r].seen.scopes

\* Mutant: every rotation starts the family anew.
FamilyEndSlides(r) == now + FamilyTtl

\* The family's end is set once, by the code, and carried from then on.
FamilyEnd(r) == IF IsCode(red[r].token) THEN now + FamilyTtl ELSE red[r].seen.familyEnd

RefreshExpiry(r) ==
  LET sessionEnd == IF OfflineAccess \in red[r].granted THEN FamilyEnd(r)
                    ELSE SessionEnd[red[r].seen.session]
  IN Minimum({now + RefreshTtl, FamilyEnd(r), sessionEnd})

issueRefreshToken(r) ==
  /\ red[r].pc = "refresh" /\ Mints(r)
  /\ Upsert(Refresh(r), Issued(r, red[r].granted, RefreshExpiry(r), FamilyEnd(r)))
  /\ Goto(r, IF Backend = "kv" THEN "indexRefresh" ELSE "issued")
  /\ UNCHANGED <<index, consumed, grants, consent, sessions, clients, now, auth, rev, sweep>>

KeepRefreshToken(r) ==
  /\ red[r].pc = "refresh" /\ ~Mints(r)
  /\ Goto(r, "issued")
  /\ UNCHANGED <<store, index, consumed, grants, consent, sessions, clients, now, auth, rev, sweep>>

\* Mutant: upsert answers before the index key is written.
IndexRefreshSkipped(r) ==
  /\ red[r].pc = "indexRefresh"
  /\ Goto(r, "issued")
  /\ UNCHANGED <<store, index, consumed, grants, consent, sessions, clients, now, auth, rev, sweep>>

IndexRefresh(r) ==
  /\ red[r].pc = "indexRefresh"
  /\ index' = index \cup {<<red[r].seen.grant, Refresh(r)>>}
  /\ Goto(r, "issued")
  /\ UNCHANGED <<store, consumed, grants, consent, sessions, clients, now, auth, rev, sweep>>

-----------------------------------------------------------------------------
(* artifacts.revokeByGrantId, called by revokeOnReplay and by every         *)
(* revocation.  A table deletes the grant's rows in one statement.  A kv    *)
(* store scans the grant's index keys and destroys what each points to, one *)
(* at a time: it meets every key that was there when it began, and may meet *)
(* one written since.  reach, for the properties only, is what the clients  *)
(* held of that grant when the call began.                                  *)

Calling(p) == IF p \in Redemptions THEN red[p].pc = "revoke" ELSE rev[p].pc = "revoke"
CallGrant(p) == IF p \in Redemptions THEN red[p].seen.grant ELSE rev[p].grant
Swept(p) == Calling(p) /\ sweep[p].started /\ sweep[p].keys = {}

Begin(p, keys) ==
  /\ Calling(p) /\ ~sweep[p].started
  /\ sweep' = [sweep EXCEPT ![p] = [started |-> TRUE, keys |-> keys,
                                    reach |-> Held \cap OfGrant(CallGrant(p))]]

DeleteRows(p) ==
  /\ Backend = "sql"
  /\ Begin(p, {})
  /\ DeleteGrantRows(CallGrant(p))
  /\ UNCHANGED <<index, consumed, grants, consent, sessions, clients, now, auth, red, rev>>

ScanKeys(p) ==
  /\ Backend = "kv"
  /\ Begin(p, GrantKeys(CallGrant(p)))
  /\ UNCHANGED <<store, index, consumed, grants, consent, sessions, clients, now, auth, red, rev>>

\* Mutant: the scan meets a destroyed key again.
DestroyKeyAgain(p, i) ==
  /\ Calling(p) /\ sweep[p].keys # {}
  /\ i \in sweep[p].keys \cup GrantKeys(CallGrant(p))
  /\ store' = [store EXCEPT ![i] = None]
  /\ index' = index \ {<<CallGrant(p), i>>}
  /\ UNCHANGED <<consumed, grants, consent, sessions, clients, now, auth, red, rev, sweep>>

DestroyKey(p, i) ==
  /\ Calling(p) /\ sweep[p].keys # {}
  /\ i \in sweep[p].keys \cup GrantKeys(CallGrant(p))
  /\ store' = [store EXCEPT ![i] = None]
  /\ index' = index \ {<<CallGrant(p), i>>}
  /\ sweep' = [sweep EXCEPT ![p].keys = @ \ {i}]
  /\ UNCHANGED <<consumed, grants, consent, sessions, clients, now, auth, red, rev>>

\* The process stops between two awaits: what it stored stays, nothing is answered.
Fail(r) ==
  /\ red[r].pc \notin {"idle", "issued", "refused", "failed"}
  /\ ~Swept(r)
  /\ Goto(r, "failed")
  /\ UNCHANGED <<store, index, consumed, grants, consent, sessions, clients, now, auth, rev, sweep>>

-----------------------------------------------------------------------------
(* grants.revoke and the revocation endpoint: the tokens first, the grant    *)
(* after them.                                                               *)

RevokeConsent(v, g) ==
  /\ rev[v].pc = "idle" /\ g \in grants
  /\ rev' = [rev EXCEPT ![v].pc = "revoke", ![v].grant = g]
  /\ UNCHANGED <<store, index, consumed, grants, consent, sessions, clients, now, auth, red, sweep>>

\* A refresh token takes its grant with it, an access token only itself; one
\* that is unknown or another client's is answered as if it had been revoked.
RevokeToken(v, i, client) ==
  /\ rev[v].pc = "idle" /\ i \in Held /\ ~IsCode(i)
  /\ rev' = [rev EXCEPT ![v] =
       IF ~Live(i) \/ store[i].client # client THEN [@ EXCEPT !.pc = "done"]
       ELSE IF IsRefresh(i) THEN [@ EXCEPT !.pc = "revoke", !.grant = store[i].grant]
       ELSE [@ EXCEPT !.pc = "destroy", !.token = i]]
  /\ UNCHANGED <<store, index, consumed, grants, consent, sessions, clients, now, auth, red, sweep>>

DestroyGrant(v) ==
  /\ rev[v].pc = "revoke" /\ Swept(v)
  /\ grants' = grants \ {rev[v].grant}
  /\ consent' = [consent EXCEPT ![rev[v].grant] = {}]
  /\ rev' = [rev EXCEPT ![v].pc = "done"]
  /\ UNCHANGED <<store, index, consumed, sessions, clients, now, auth, red, sweep>>

DestroyAccess(v) ==
  /\ rev[v].pc = "destroy"
  /\ store' = [store EXCEPT ![rev[v].token] = None]
  /\ rev' = [rev EXCEPT ![v].pc = "done"]
  /\ UNCHANGED <<index, consumed, grants, consent, sessions, clients, now, auth, red, sweep>>

FailRevocation(v) ==
  /\ rev[v].pc \in {"revoke", "destroy"}
  /\ rev' = [rev EXCEPT ![v].pc = "failed"]
  /\ UNCHANGED <<store, index, consumed, grants, consent, sessions, clients, now, auth, red, sweep>>

-----------------------------------------------------------------------------
(* The world around the token endpoint. *)

\* sessions.destroy: a logout, the management API, a reset password
EndSession(s) ==
  /\ s \in sessions
  /\ sessions' = sessions \ {s}
  /\ clients' = [clients EXCEPT ![s] = {}]
  /\ UNCHANGED <<store, index, consumed, grants, consent, now, auth, red, rev, sweep>>

\* grants.upsert by the host: part of a consent is withdrawn (FR-I4)
NarrowConsent(g, kept) ==
  /\ g \in grants /\ kept \subseteq consent[g] /\ kept # consent[g]
  /\ consent' = [consent EXCEPT ![g] = kept]
  /\ UNCHANGED <<store, index, consumed, grants, sessions, clients, now, auth, red, rev, sweep>>

Tick ==
  /\ now < MaxTime
  /\ now' = now + 1
  /\ UNCHANGED <<store, index, consumed, grants, consent, sessions, clients, auth, red, rev, sweep>>

AuthorizationStep(a) ==
  \/ \E s \in Sessions, g \in Grants : \E asked \in SUBSET Scopes : Authorize(a, s, g, asked)
  \/ issueCode(a) \/ IndexCode(a)

\* What the provider does on its own once a request is there.
RedemptionStep(r) ==
  \/ ConsumeRow(r) \/ ConsumeRead(r) \/ ConsumeInsert(r)
  \/ LoadGrant(r) \/ loadGrantAndSession(r) \/ loadGrantAndSignIn(r)
  \/ AddClient(r) \/ issueAccessToken(r) \/ IndexAccess(r)
  \/ issueRefreshToken(r) \/ KeepRefreshToken(r) \/ IndexRefresh(r)

SweepStep(p) == DeleteRows(p) \/ ScanKeys(p) \/ \E i \in Id : DestroyKey(p, i)

Next ==
  \/ \E a \in Authorizations : AuthorizationStep(a)
  \/ \E r \in Redemptions, i \in Id, c \in Clients :
       authorizationCodeGrant(r, i, c) \/ refreshTokenGrant(r, i, c)
  \/ \E r \in Redemptions : RedemptionStep(r) \/ Fail(r)
  \/ \E p \in Redemptions \cup Revocations : SweepStep(p)
  \/ \E v \in Revocations :
       \/ \E g \in Grants : RevokeConsent(v, g)
       \/ \E i \in Id, c \in Clients : RevokeToken(v, i, c)
       \/ DestroyGrant(v) \/ DestroyAccess(v) \/ FailRevocation(v)
  \/ \E s \in Sessions : EndSession(s)
  \/ \E g \in Grants, kept \in SUBSET Scopes : NarrowConsent(g, kept)
  \/ Tick

Spec == Init /\ [][Next]_vars

-----------------------------------------------------------------------------
(* Properties. *)

AuthorizationState ==
  [pc : {"idle", "store", "index", "issued"}, code : Artifact \cup {None}]
RedemptionPc ==
  {"idle", "consume", "insert", "grant", "session", "addClient", "access",
   "indexAccess", "refresh", "indexRefresh", "revoke", "issued", "refused", "failed"}
RedemptionState ==
  [pc : RedemptionPc,
   client : Clients \cup {None}, token : Id \cup {None},
   seen : Artifact \cup {None}, granted : SUBSET Scopes, scopes : SUBSET Scopes,
   won : BOOLEAN, consent : SUBSET Scopes, revoked : BOOLEAN, ended : BOOLEAN]
RevocationState ==
  [pc : {"idle", "revoke", "destroy", "done", "failed"},
   grant : Grants \cup {None}, token : Id \cup {None}]
SweepState == [started : BOOLEAN, keys : SUBSET Id, reach : SUBSET Id]

\* What a process that is under way must know: its artifact, its client, its grant.
Knows(x) == x.pc \notin {"idle", "refused"} =>
              x.seen \in Artifact /\ x.client \in Clients /\ x.token \in Id

StoreOK ==
  /\ store \in [Id -> Artifact \cup {None}]
  /\ index \subseteq Grants \X Id
  /\ consumed \subseteq Id
  /\ grants \subseteq Grants /\ consent \in [Grants -> SUBSET Scopes]
  /\ sessions \subseteq Sessions /\ clients \in [Sessions -> SUBSET Clients]
  /\ now \in 0..MaxTime
AuthorizationsOK ==
  /\ auth \in [Authorizations -> AuthorizationState]
  /\ \A a \in Authorizations : auth[a].pc # "idle" => auth[a].code \in Artifact
RedemptionsOK ==
  /\ red \in [Redemptions -> RedemptionState]
  /\ \A r \in Redemptions : Knows(red[r])
RevocationsOK ==
  /\ rev \in [Revocations -> RevocationState]
  /\ \A v \in Revocations :
       /\ rev[v].pc = "revoke" => rev[v].grant \in Grants
       /\ rev[v].pc = "destroy" => rev[v].token \in Id
SweepsOK == sweep \in [Redemptions \cup Revocations -> SweepState]

\* The types of the variables.
TypeOK == StoreOK /\ AuthorizationsOK /\ RedemptionsOK /\ RevocationsOK /\ SweepsOK

IssuingPc == {"addClient", "access", "indexAccess", "refresh", "indexRefresh", "issued"}
Issuing(r) == red[r].pc \in IssuingPc

\* FR-T3, FR-T4, NFR-S4: however many requests race for one code, or for one
\* rotating refresh token, at most one of them is given tokens.
RedeemedOnce ==
  \A r, q \in Redemptions :
    /\ r # q /\ red[r].token = red[q].token
    /\ Issuing(r) /\ SingleUse(red[r].token, red[r].client)
    => ~Issuing(q)

\* The bearers of a family: its unused code, its unused refresh tokens, and the
\* requests that have spent one of those and not yet stored its successor.
HeirToken(i, f) ==
  store[i] # None /\ store[i].family = f /\ ~IsAccess(i) /\ i \notin consumed
SpendingPc == {"grant", "session", "addClient", "access", "indexAccess", "refresh"}
Spending(r) == red[r].won /\ red[r].pc \in SpendingPc
HeirRequest(r, f) == Spending(r) /\ red[r].seen.family = f

\* FR-T3: rotation leaves at most one way on.  No interleaving of redemptions,
\* replays, revocations and failures splits a family into two live branches.
OneHeir ==
  \A f \in Authorizations :
    /\ \A i, j \in Id : HeirToken(i, f) /\ HeirToken(j, f) => i = j
    /\ \A i \in Id, r \in Redemptions : ~(HeirToken(i, f) /\ HeirRequest(r, f))
    /\ \A r, q \in Redemptions : HeirRequest(r, f) /\ HeirRequest(q, f) => r = q

\* What OneHeir and RedeemedOnce rest on.  A token stays unspent, for this
\* purpose, while some request still holds what it read of it: a kv consume can
\* win after a revocation has removed the artifact.
FamilyIs(i, f) ==
  \/ i = Code(f)
  \/ \E q \in Redemptions : i = Refresh(q) /\ red[q].seen # None /\ red[q].seen.family = f
Known(i) == store[i] # None \/ \E r \in Redemptions : red[r].seen # None /\ red[r].token = i
Unspent(i, f) == FamilyIs(i, f) /\ Known(i) /\ i \notin consumed

\* An idle request holds nothing, and a token is shown only once it was given out.
Presented ==
  \A r \in Redemptions :
    /\ red[r].pc = "idle" => ~red[r].won /\ red[r].seen = None
    /\ red[r].seen # None =>
         \/ \E a \in Authorizations : red[r].token = Code(a) /\ auth[a].pc = "issued"
         \/ \E q \in Redemptions : red[r].token = Refresh(q) /\ red[q].pc = "issued"

\* A family is its code's, handed down from what was spent to what was minted.
Descent ==
  /\ \A a \in Authorizations :
       /\ auth[a].pc # "idle" => auth[a].code.family = a
       /\ store[Code(a)] # None =>
            auth[a].pc \in {"index", "issued"} /\ store[Code(a)].family = a
  /\ \A r \in Redemptions :
       /\ store[Refresh(r)] # None =>
            /\ red[r].pc \in {"indexRefresh", "issued", "failed"}
            /\ red[r].seen # None /\ store[Refresh(r)].family = red[r].seen.family
       /\ store[Access(r)] # None =>
            red[r].seen # None /\ store[Access(r)].family = red[r].seen.family
       /\ red[r].seen # None => FamilyIs(red[r].token, red[r].seen.family)
       /\ red[r].seen # None => auth[red[r].seen.family].pc \in {"index", "issued"}

\* Whoever passed the consume spent the token, alone.
Winners ==
  /\ \A r \in Redemptions : red[r].won => red[r].seen # None /\ red[r].token \in consumed
  /\ \A r, q \in Redemptions : red[r].won /\ red[q].won /\ red[r].token = red[q].token => r = q
  /\ \A r \in Redemptions :
       /\ SingleUse(red[r].token, red[r].client)
       /\ Issuing(r) \/ (IsCode(red[r].token) /\ red[r].pc \in {"grant", "session"})
       => red[r].won

OneUnspent ==
  /\ \A f \in Authorizations, i, j \in Id : Unspent(i, f) /\ Unspent(j, f) => i = j
  /\ \A f \in Authorizations, i \in Id, r \in Redemptions : ~(Unspent(i, f) /\ HeirRequest(r, f))
  /\ \A f \in Authorizations, r, q \in Redemptions : HeirRequest(r, f) /\ HeirRequest(q, f) => r = q

\* All who read a token read the same, and whoever goes on with it is its client.
RefusedPc == {"idle", "refused", "revoke", "failed"}
Agreed ==
  /\ \A r \in Redemptions : red[r].seen # None =>
       /\ store[red[r].token] \in {red[r].seen, None}
       /\ red[r].pc \notin RefusedPc => red[r].client = red[r].seen.client
  /\ \A r, q \in Redemptions :
       red[r].seen # None /\ red[q].seen # None /\ red[r].token = red[q].token
       => red[r].seen = red[q].seen

\* The inductive invariant behind OneHeir and RedeemedOnce.
Lineage == Presented /\ Descent /\ Agreed /\ Winners /\ OneUnspent

\* FR-T3 / NFR-S4 and the comment on grants.revoke, as far as the code goes: a
\* finished revokeByGrantId has removed every token of the grant that a client
\* had been given before it began.
RevocationReaches ==
  \A p \in Redemptions \cup Revocations :
    Swept(p) => \A i \in sweep[p].reach : store[i] = None

\* A request that began after the consent was revoked gets nothing, and one that
\* began after the session ended gets tokens only for offline access (FR-T6).
NothingAfterTheEnd ==
  \A r \in Redemptions : red[r].pc = "issued" =>
    /\ red[r].ended => IsRefresh(red[r].token) /\ OfflineAccess \in red[r].seen.scopes
    /\ ~red[r].revoked

\* FR-I4, RFC 6749 6: along a family the scopes only shrink, and a scope that
\* was withdrawn before a refresh began is in nothing that refresh returns.
ScopesOnlyShrink ==
  /\ \A i \in Id : store[i] # None =>
       store[i].scopes \subseteq auth[store[i].family].code.scopes
  /\ \A r \in Redemptions : IsRefresh(red[r].token) /\ Issuing(r) =>
       (red[r].scopes \cup red[r].granted) \subseteq red[r].consent

\* FR-T3: a family's end never slides: all its refresh tokens carry the end set
\* when the code was redeemed and none outlives it, or (without offline_access)
\* its session.
FamilyEndStands ==
  \A i, j \in Id :
    /\ IsRefresh(i) /\ IsRefresh(j) /\ store[i] # None /\ store[j] # None
    /\ store[i].family = store[j].family
    => /\ store[i].familyEnd = store[j].familyEnd
       /\ store[i].expires <= store[i].familyEnd
       /\ OfflineAccess \notin store[i].scopes =>
            store[i].expires <= SessionEnd[store[i].session]

\* FR-C11: a client that was given tokens through a session which has not ended
\* is on that session's list, so a logout will tell it.
SessionKnowsItsClients ==
  \A r \in Redemptions :
    /\ red[r].pc = "issued" /\ red[r].seen.session \in sessions
    => red[r].client \in clients[red[r].seen.session]

\* What a redemption issues stays within what it was issued from: the consent and the
\* session it found, the scopes and the end of its family (token/issue.ts, token/code.ts).
IssuedWithin ==
  NothingAfterTheEnd /\ ScopesOnlyShrink /\ FamilyEndStands /\ SessionKnowsItsClients

\* Every request is answered or fails: none is left waiting on another.
Answered(r) == red[r].pc \in {"idle", "issued", "refused", "failed"} \/ Swept(r)
FairSpec ==
  /\ Spec
  /\ \A r \in Redemptions : WF_vars(RedemptionStep(r)) /\ WF_vars(SweepStep(r))
EveryRequestAnswered == \A r \in Redemptions : []<>Answered(r)
=============================================================================
