------------------------------- MODULE Approvals -------------------------------
(***************************************************************************)
(* Requests a person answers out of band: the device grant                 *)
(* (authorize/device.ts) and CIBA (authorize/ciba.ts).  A client polls the *)
(* token endpoint with its device_code or auth_req_id; meanwhile the host  *)
(* calls resolveDeviceCode or resolveBackchannelRequest with the person's  *)
(* answer.  Both read the stored request and write the whole record back,  *)
(* so a poll may write an answer away and an answer may write a poll away. *)
(*                                                                         *)
(* Every await on the adapter is a step.  The tokens a redeemed request is *)
(* given, and the steps of revokeByGrantId, are TokenGrants'.              *)
(***************************************************************************)
EXTENDS Naturals, FiniteSets

CONSTANTS
  Requests,        \* the device codes and auth_req_ids
  Polls,           \* token requests presenting one
  Answers,         \* calls of resolveDeviceCode and resolveBackchannelRequest
  Clients,
  Sessions,        \* the approving account's sign-ins
  Scenes,          \* the cases to consider: see Scene
  ClientOf,        \* [Requests -> Clients]
  Backends,        \* the kinds of store to consider: "kv" (fromKv), "sql" (drizzle, kysely, typeorm)
  DefaultInterval, \* DEFAULT_INTERVAL
  Ttl,             \* ttl.deviceCode, ttl.backchannelRequest
  MaxFailures,     \* MAX_FAILURES: wrong user codes of one peer
  Window,          \* ATTEMPT_WINDOW_SECONDS
  MaxTime,         \* the clock stops here
  Interactive,     \* names a consent given at the authorization endpoint
  None

\* Who takes part, and which of the requests are device codes: the others are CIBA's.
Scene == [device : SUBSET Requests, polls : SUBSET Polls, answers : SUBSET Answers]

ASSUME ApprovalsAssumption ==
  /\ Scenes \subseteq Scene /\ ClientOf \in [Requests -> Clients]
  /\ Backends \subseteq {"kv", "sql"} /\ Interactive \notin Answers
  /\ DefaultInterval \in Nat \ {0} /\ Ttl \in Nat \ {0} /\ MaxTime \in Nat
  /\ MaxFailures \in Nat \ {0} /\ Window \in Nat \ {0}

VARIABLES
  backend,  \* the store this provider runs on
  scene,    \* who takes part
  store,    \* [Requests -> the stored artifact or None]
  started,  \* the requests that have been made
  consumed, \* consumed/<kind>/<id> keys (kv), the rows' consumed_at (sql)
  grants,   \* the stored consents, each named by who made it
  revoked,  \* consents whose artifacts a revocation has deleted
  sessions, \* the stored sessions
  ended,    \* the sessions somebody has ended: what the properties compare with
  recorded, \* [Sessions -> the clients in the session's own record]
  keys,     \* kv only: [Sessions -> the clients with a session-client/ key]
  added,    \* [Sessions -> the clients addClient was called with]
  now,      \* Date.now()
  failures, \* the peer's user_code_attempts record, or None
  missed,   \* wrong codes recorded since that record was begun
  crowded,  \* two codes were looked up at once
  poll,     \* the polls' own state
  answer    \* the answers' own state

vars == <<backend, scene, store, started, consumed, grants, revoked, sessions, ended, recorded,
          keys, added, now, failures, missed, crowded, poll, answer>>
world == <<backend, scene>>
guesses == <<failures, missed, crowded>>
people == <<world, sessions, ended, recorded, keys, added, guesses>>

GrantIds == Answers \cup {Interactive}

\* The payload that decides, and the expiry.
Artifact == [status : {"pending", "approved", "denied"}, interval : Nat,
             polled : Nat \cup {None}, expires : Nat,
             grant : GrantIds \cup {None}, session : Sessions \cup {None}]

-----------------------------------------------------------------------------
(* The adapter. *)

\* find
Live(q) == store[q] # None /\ store[q].expires > now

\* upsert keeps what consume wrote: a kv store has it under another key, a table
\* leaves the column out of its update.  A row that is gone is inserted anew.
Upsert(q, artifact) == store' = [store EXCEPT ![q] = artifact]

\* destroy: a row takes its consumed_at with it, a kv store's key remains
Destroy(q) ==
  /\ store' = [store EXCEPT ![q] = None]
  /\ consumed' = IF backend = "sql" THEN consumed \ {q} ELSE consumed

\* sessions.find
List(s) == recorded[s] \cup keys[s]

\* Mutant: addClient rewrites the list of the session's record.
AddToRecord(s, c) ==
  IF s \in sessions
  THEN /\ recorded' = [recorded EXCEPT ![s] = @ \cup {c}]
       /\ added' = [added EXCEPT ![s] = @ \cup {c}]
       /\ UNCHANGED <<world, sessions, ended, keys, guesses>>
  ELSE UNCHANGED people

\* sessions.addClient: compare-and-swap on a table's list, a key of its own on a kv store
AddTo(s, c) ==
  IF s \in sessions
  THEN /\ recorded' = [recorded EXCEPT ![s] = IF backend = "sql" THEN @ \cup {c} ELSE @]
       /\ keys' = [keys EXCEPT ![s] = IF backend = "kv" THEN @ \cup {c} ELSE @]
       /\ added' = [added EXCEPT ![s] = @ \cup {c}]
       /\ UNCHANGED <<world, sessions, ended, guesses>>
  ELSE UNCHANGED people

\* grants.findByAccountAndClient
Consents(c) == {g \in grants : g.client = c}

\* grants.upsert: a table has one row per account and client, a kv store does not mind
Clashes(g) == backend = "sql" /\ \E other \in Consents(g.client) : other.id # g.id

-----------------------------------------------------------------------------
Init ==
  /\ backend \in Backends /\ scene \in Scenes
  /\ store = [q \in Requests |-> None]
  /\ started = {} /\ consumed = {} /\ grants = {} /\ revoked = {}
  /\ sessions = Sessions /\ ended = {}
  /\ recorded = [s \in Sessions |-> {}]
  /\ keys = [s \in Sessions |-> {}]
  /\ added = [s \in Sessions |-> {}]
  /\ now = 0 /\ failures = None /\ missed = 0 /\ crowded = FALSE
  /\ poll = [p \in Polls |-> [pc |-> "idle", request |-> None, seen |-> None,
                              at |-> 0, list |-> {}]]
  /\ answer = [a \in Answers |-> [pc |-> "idle", request |-> None, seen |-> None,
                                  session |-> None, list |-> {}, grant |-> None,
                                  record |-> None]]

Requested(q) ==
  /\ q \notin started
  /\ Upsert(q, [status |-> "pending", interval |-> DefaultInterval, polled |-> None,
                expires |-> now + Ttl, grant |-> None, session |-> None])
  /\ started' = started \cup {q}
  /\ UNCHANGED <<people, consumed, grants, revoked, now, poll, answer>>

DeviceAuthorization(q) == q \in scene.device /\ Requested(q)

\* A request that names no user, or more hints than one, or asks for a ping its client is
\* not registered for, stores nothing.
BackchannelAuthentication(q) == q \notin scene.device /\ Requested(q)

-----------------------------------------------------------------------------
(* The token endpoint: consumeDeviceCode and consumeAuthReqId, then          *)
(* deviceCodeGrant and cibaGrant.                                            *)

PollAt(p, pc) == poll' = [poll EXCEPT ![p].pc = pc]

FindRequest(p, q) ==
  /\ poll[p].pc = "idle" /\ p \in scene.polls /\ q \in started
  /\ poll' = [poll EXCEPT ![p] =
       [@ EXCEPT !.request = q, !.seen = store[q], !.at = now,
                 !.pc = IF Live(q) /\ q \notin consumed THEN "touch" ELSE "refused"]]
  /\ UNCHANGED <<people, store, started, consumed, grants, revoked, now, answer>>

Slow(p) ==
  /\ poll[p].seen.polled # None
  /\ poll[p].at - poll[p].seen.polled < poll[p].seen.interval

\* What a poll writes back: the request as it read it, with the poll noted.
Touched(p) ==
  [poll[p].seen EXCEPT !.polled = poll[p].at,
                       !.interval = IF Slow(p) THEN @ + DefaultInterval ELSE @]

\* Mutant: a declined request is redeemed like an approved one.
VerdictBlind(p) ==
  IF Slow(p) THEN "slow_down"
  ELSE IF poll[p].seen.status = "pending" THEN "pending" ELSE "consume"

\* The answer the poll then gets, unless the request is approved and may be redeemed.
Verdict(p) ==
  IF Slow(p) THEN "slow_down"
  ELSE IF poll[p].seen.status = "approved" THEN "consume" ELSE poll[p].seen.status

Touch(p) ==
  /\ poll[p].pc = "touch"
  /\ Upsert(poll[p].request, Touched(p))
  /\ PollAt(p, Verdict(p))
  /\ UNCHANGED <<people, started, consumed, grants, revoked, now, answer>>

\* artifacts.consume: one UPDATE on a table, a read and an insert on a kv store
ConsumeRow(p) ==
  LET q == poll[p].request IN
  /\ backend = "sql" /\ poll[p].pc = "consume"
  /\ IF Live(q) /\ q \notin consumed
       THEN consumed' = consumed \cup {q} /\ PollAt(p, "destroy")
       ELSE PollAt(p, "refused") /\ UNCHANGED consumed
  /\ UNCHANGED <<people, store, started, grants, revoked, now, answer>>

ConsumeRead(p) ==
  /\ backend = "kv" /\ poll[p].pc = "consume"
  /\ PollAt(p, IF Live(poll[p].request) THEN "insert" ELSE "refused")
  /\ UNCHANGED <<people, store, started, consumed, grants, revoked, now, answer>>

\* Mutant: the consumed key is put, not inserted.
ConsumePut(p) ==
  /\ poll[p].pc = "insert"
  /\ consumed' = consumed \cup {poll[p].request}
  /\ PollAt(p, "destroy")
  /\ UNCHANGED <<people, store, started, grants, revoked, now, answer>>

ConsumeInsert(p) ==
  LET q == poll[p].request IN
  /\ poll[p].pc = "insert"
  /\ IF q \notin consumed
       THEN consumed' = consumed \cup {q} /\ PollAt(p, "destroy")
       ELSE PollAt(p, "refused") /\ UNCHANGED consumed
  /\ UNCHANGED <<people, store, started, grants, revoked, now, answer>>

DestroyRequest(p) ==
  /\ poll[p].pc = "destroy"
  /\ Destroy(poll[p].request)
  /\ PollAt(p, "grant")
  /\ UNCHANGED <<people, started, grants, revoked, now, answer>>

LoadGrant(p) ==
  /\ poll[p].pc = "grant"
  /\ PollAt(p, IF \E g \in grants : g.id = poll[p].seen.grant THEN "session" ELSE "refused")
  /\ UNCHANGED <<people, store, started, consumed, grants, revoked, now, answer>>

LoadSession(p) ==
  LET s == poll[p].seen.session IN
  /\ poll[p].pc = "session"
  /\ IF s \in sessions
       THEN poll' = [poll EXCEPT ![p].pc = "addClient", ![p].list = List(s)]
       ELSE PollAt(p, "refused")
  /\ UNCHANGED <<people, store, started, consumed, grants, revoked, now, answer>>

\* issueTokens: a client the session it read does not list is added, then the
\* tokens are stored.
AddClient(p) ==
  LET c == ClientOf[poll[p].request] IN
  /\ poll[p].pc = "addClient"
  /\ IF c \in poll[p].list THEN UNCHANGED people ELSE AddTo(poll[p].seen.session, c)
  /\ PollAt(p, "issued")
  /\ UNCHANGED <<store, started, consumed, grants, revoked, now, answer>>

\* The process stops between two awaits.
FailPoll(p) ==
  /\ poll[p].pc \in {"touch", "consume", "insert", "destroy", "grant", "session", "addClient"}
  /\ PollAt(p, "failed")
  /\ UNCHANGED <<people, store, started, consumed, grants, revoked, now, answer>>

-----------------------------------------------------------------------------
(* resolveDeviceCode and resolveBackchannelRequest. *)

AnswerAt(a, pc) == answer' = [answer EXCEPT ![a].pc = pc]

\* findByUserCode on a kv store leaves the expiry to the store, which may miss it.
Findable(q) == Live(q) \/ (backend = "kv" /\ q \in scene.device /\ store[q] # None)

Idle(a) == answer[a].pc = "idle" /\ a \in scene.answers
Looking(a) == answer[a].pc \in {"lookup", "miss"}

\* The wrong codes the peer's record counts, if it still does.
Counted(record) == IF record = None \/ record.expires <= now THEN 0 ELSE record.count

\* Mutant: one attempt too many is allowed.
AllowedOneMore == Counted(failures) <= MaxFailures

\* attemptsFor
Allowed == Counted(failures) < MaxFailures

\* A person types the user code of q, or (None) one that is nobody's.  The record of
\* attempts is read; the code is looked up after that.
TypeCode(a, q) ==
  /\ Idle(a) /\ q \in (started \cap scene.device) \cup {None}
  /\ crowded' = (crowded \/ \E other \in Answers : Looking(other))
  /\ answer' = [answer EXCEPT ![a] =
       [@ EXCEPT !.pc = IF Allowed THEN "lookup" ELSE "refused", !.request = q,
                 !.record = IF Counted(failures) = 0 THEN None ELSE failures]]
  /\ UNCHANGED <<world, sessions, ended, recorded, keys, added, failures, missed, store, started,
                 consumed, grants, revoked, now, poll>>

\* findByUserCode, and what the caller does with a pending request: the host's answer for
\* session s, or a sign-in that has to come first.
Lookup(a, pc, s) ==
  LET q == answer[a].request
      found == q # None /\ Findable(q)
  IN
  /\ answer[a].pc = "lookup"
  /\ answer' = [answer EXCEPT ![a] =
       IF ~found THEN [@ EXCEPT !.pc = "miss"]
       ELSE IF store[q].status # "pending" THEN [@ EXCEPT !.pc = "refused"]
       ELSE [@ EXCEPT !.pc = pc, !.seen = store[q], !.session = s]]
  /\ UNCHANGED <<people, store, started, consumed, grants, revoked, now, poll>>

\* recordFailure: the count as it was read, and one
RecordFailure(a) ==
  LET record == answer[a].record IN
  /\ answer[a].pc = "miss"
  /\ failures' = IF record = None THEN [count |-> 1, expires |-> now + Window]
                 ELSE [record EXCEPT !.count = @ + 1]
  /\ missed' = IF record = None THEN 1 ELSE missed + 1
  /\ AnswerAt(a, "refused")
  /\ UNCHANGED <<world, sessions, ended, recorded, keys, added, crowded, store, started,
                 consumed, grants, revoked, now, poll>>

\* deviceSignIn: an interaction is stored for the person to sign in at
SignInFirst(a) ==
  /\ answer[a].pc = "signin"
  /\ AnswerAt(a, "refused")
  /\ UNCHANGED <<people, store, started, consumed, grants, revoked, now, poll>>

\* resolveBackchannelRequest, up to its checks
Resolve(a, q, pc, s) ==
  /\ Idle(a) /\ q \in started \ scene.device
  /\ answer' = [answer EXCEPT ![a] =
       IF Live(q) /\ store[q].status = "pending"
       THEN [@ EXCEPT !.pc = pc, !.request = q, !.seen = store[q], !.session = s]
       ELSE [@ EXCEPT !.pc = "refused"]]
  /\ UNCHANGED <<people, store, started, consumed, grants, revoked, now, poll>>

Deny(a) ==
  /\ answer[a].pc = "deny"
  /\ Upsert(answer[a].request, [answer[a].seen EXCEPT !.status = "denied"])
  /\ AnswerAt(a, "denied")
  /\ UNCHANGED <<people, started, consumed, grants, revoked, now, poll>>

\* checkApproval: scopes never asked for, another account, or a session that is
\* gone refuse the answer.  Only a device's approval goes on to the session.
CheckApproval(a) ==
  /\ answer[a].pc = "check"
  /\ \/ /\ answer[a].session \in sessions
        /\ AnswerAt(a, IF answer[a].request \in scene.device THEN "session" ELSE "consent")
     \/ AnswerAt(a, "refused")
  /\ UNCHANGED <<people, store, started, consumed, grants, revoked, now, poll>>

ReadSession(a) ==
  LET s == answer[a].session IN
  /\ answer[a].pc = "session"
  /\ IF s \in sessions /\ ClientOf[answer[a].request] \notin List(s)
       THEN answer' = [answer EXCEPT ![a].pc = "join", ![a].list = List(s)]
       ELSE AnswerAt(a, "consent")
  /\ UNCHANGED <<people, store, started, consumed, grants, revoked, now, poll>>

\* sessions.upsert of the session it read, with the device's client put on the list
JoinSession(a) ==
  LET s == answer[a].session IN
  /\ answer[a].pc = "join"
  /\ sessions' = sessions \cup {s}
  /\ recorded' = [recorded EXCEPT ![s] = answer[a].list \cup {ClientOf[answer[a].request]}]
  /\ AnswerAt(a, "consent")
  /\ UNCHANGED <<world, ended, keys, added, guesses, store, started, consumed, grants, revoked,
                 now, poll>>

\* The consent found is extended; where there is none, a new one is named a.
FindConsent(a) ==
  LET found == Consents(ClientOf[answer[a].request]) IN
  /\ answer[a].pc = "consent"
  /\ \E id \in IF found = {} THEN {a} ELSE {g.id : g \in found} :
       answer' = [answer EXCEPT ![a].pc = "grant", ![a].grant = id]
  /\ UNCHANGED <<people, store, started, consumed, grants, revoked, now, poll>>

\* Mutant: a refused insert of the consent goes unnoticed.
UpsertConsentDeaf(a) ==
  LET grant == [id |-> answer[a].grant, client |-> ClientOf[answer[a].request]] IN
  /\ answer[a].pc = "grant"
  /\ grants' = IF Clashes(grant) THEN grants ELSE grants \cup {grant}
  /\ AnswerAt(a, "approve")
  /\ UNCHANGED <<people, store, started, consumed, revoked, now, poll>>

UpsertConsent(a) ==
  LET grant == [id |-> answer[a].grant, client |-> ClientOf[answer[a].request]] IN
  /\ answer[a].pc = "grant"
  /\ IF Clashes(grant)
       THEN AnswerAt(a, "failed") /\ UNCHANGED grants
       ELSE AnswerAt(a, "approve") /\ grants' = grants \cup {grant}
  /\ UNCHANGED <<people, store, started, consumed, revoked, now, poll>>

Approve(a) ==
  /\ answer[a].pc = "approve"
  /\ Upsert(answer[a].request,
       [answer[a].seen EXCEPT !.status = "approved", !.grant = answer[a].grant,
                              !.session = answer[a].session])
  /\ AnswerAt(a, "approved")
  /\ UNCHANGED <<people, started, consumed, grants, revoked, now, poll>>

FailAnswer(a) ==
  /\ answer[a].pc \in {"lookup", "miss", "deny", "check", "session", "join", "consent", "grant",
                        "approve"}
  /\ AnswerAt(a, "failed")
  /\ UNCHANGED <<people, store, started, consumed, grants, revoked, now, poll>>

-----------------------------------------------------------------------------
(* The world around them. *)

\* Another client signs in through the session and the token endpoint adds it.
SignIn(s, c) ==
  /\ s \in sessions /\ c \notin List(s)
  /\ AddTo(s, c)
  /\ UNCHANGED <<store, started, consumed, grants, revoked, now, poll, answer>>

\* interactions.complete stores a consent of that client's own
Consent(c) ==
  LET grant == [id |-> Interactive, client |-> c] IN
  /\ Consents(c) = {} /\ Interactive \notin {g.id : g \in grants} \cup revoked
  /\ grants' = grants \cup {grant}
  /\ UNCHANGED <<people, store, started, consumed, revoked, now, poll, answer>>

\* sessions.destroy
EndSession(s) ==
  /\ s \in sessions
  /\ sessions' = sessions \ {s} /\ ended' = ended \cup {s}
  /\ recorded' = [recorded EXCEPT ![s] = {}]
  /\ keys' = [keys EXCEPT ![s] = {}]
  /\ UNCHANGED <<world, added, guesses, store, started, consumed, grants, revoked, now, poll,
                 answer>>

\* grants.revoke: the artifacts first, the consent after them
RevokeArtifacts(g) ==
  LET taken == {q \in Requests : store[q] # None /\ store[q].grant = g.id} IN
  /\ g \in grants /\ g.id \notin revoked
  /\ revoked' = revoked \cup {g.id}
  /\ store' = [q \in Requests |-> IF q \in taken THEN None ELSE store[q]]
  /\ consumed' = IF backend = "sql" THEN consumed \ taken ELSE consumed
  /\ UNCHANGED <<people, started, grants, now, poll, answer>>

DestroyConsent(g) ==
  /\ g \in grants /\ g.id \in revoked
  /\ grants' = grants \ {g}
  /\ UNCHANGED <<people, store, started, consumed, revoked, now, poll, answer>>

Tick ==
  /\ now < MaxTime
  /\ now' = now + 1
  /\ UNCHANGED <<people, store, started, consumed, grants, revoked, poll, answer>>

PollStep(p) ==
  \/ \E q \in Requests : FindRequest(p, q)
  \/ Touch(p) \/ ConsumeRow(p) \/ ConsumeRead(p) \/ ConsumeInsert(p)
  \/ DestroyRequest(p) \/ LoadGrant(p) \/ LoadSession(p) \/ AddClient(p) \/ FailPoll(p)

AnswerStep(a) ==
  \/ \E q \in Requests \cup {None} : TypeCode(a, q)
  \/ \E s \in Sessions, pc \in {"deny", "check"} :
       Lookup(a, pc, s) \/ \E q \in Requests : Resolve(a, q, pc, s)
  \/ Lookup(a, "signin", None) \/ RecordFailure(a) \/ SignInFirst(a)
  \/ Deny(a) \/ CheckApproval(a) \/ ReadSession(a) \/ JoinSession(a)
  \/ FindConsent(a) \/ UpsertConsent(a) \/ Approve(a) \/ FailAnswer(a)

Next ==
  \/ \E q \in Requests : DeviceAuthorization(q) \/ BackchannelAuthentication(q)
  \/ \E p \in Polls : PollStep(p)
  \/ \E a \in Answers : AnswerStep(a)
  \/ \E s \in Sessions : EndSession(s) \/ \E c \in Clients : SignIn(s, c)
  \/ \E c \in Clients : Consent(c)
  \/ \E g \in grants : RevokeArtifacts(g) \/ DestroyConsent(g)
  \/ Tick

Spec == Init /\ [][Next]_vars

-----------------------------------------------------------------------------
(* Properties. *)

PollPc == {"idle", "touch", "consume", "insert", "destroy", "grant", "session", "addClient",
           "issued", "refused", "pending", "denied", "slow_down", "failed"}
AnswerPc == {"idle", "lookup", "miss", "signin", "deny", "check", "session", "join", "consent",
             "grant", "approve", "approved", "denied", "refused", "failed"}

\* The types of the variables; a redeemable request names its consent and its session.
TypeOK ==
  /\ backend \in Backends /\ scene \in Scenes
  /\ failures \in [count : Nat, expires : Nat] \cup {None}
  /\ missed \in Nat /\ crowded \in BOOLEAN
  /\ store \in [Requests -> Artifact \cup {None}]
  /\ \A q \in Requests : store[q] # None /\ store[q].status = "approved" =>
       store[q].grant \in GrantIds /\ store[q].session \in Sessions
  /\ started \subseteq Requests /\ consumed \subseteq Requests
  /\ grants \subseteq [id : GrantIds, client : Clients] /\ revoked \subseteq GrantIds
  /\ sessions \subseteq Sessions /\ ended \subseteq Sessions
  /\ recorded \in [Sessions -> SUBSET Clients] /\ keys \in [Sessions -> SUBSET Clients]
  /\ added \in [Sessions -> SUBSET Clients]
  /\ now \in 0..MaxTime
  /\ poll \in [Polls -> [pc : PollPc, request : Requests \cup {None}, seen : Artifact \cup {None},
                         at : 0..MaxTime, list : SUBSET Clients]]
  /\ answer \in [Answers -> [pc : AnswerPc, request : Requests \cup {None},
                             seen : Artifact \cup {None}, session : Sessions \cup {None},
                             list : SUBSET Clients, grant : GrantIds \cup {None},
                             record : [count : Nat, expires : Nat] \cup {None}]]

Winners == {p \in Polls : poll[p].pc \in {"destroy", "grant", "session", "addClient", "issued"}}

\* NFR-S4, device.ts:114: an approval is redeemed once, however often the client polls.
RedeemedOnce == \A p, r \in Winners : poll[p].request = poll[r].request => p = r

\* On a kv store it is: the consumed key outlives the artifact.
KvRedeemsOnce == backend = "kv" => RedeemedOnce

\* FR-C7, FR-C17: a poll wins only with an answer that approved this very
\* request, and with that answer's consent and session; a declined request, or
\* one nobody has answered, never comes to tokens however the writes interleave.
WonByApproval ==
  \A p \in Winners : \E a \in Answers :
    /\ answer[a].pc = "approved" /\ answer[a].request = poll[p].request
    /\ answer[a].grant = poll[p].seen.grant /\ answer[a].session = poll[p].seen.session

\* The consent is stored before the approval that names it, so that a client
\* that polls in between finds the approval whole: a stored approval's consent
\* exists, or was revoked.
ConsentComesFirst ==
  \A q \in Requests : store[q] # None /\ store[q].status = "approved" =>
    store[q].grant \in revoked \cup {g.id : g \in grants}

\* Both: tokens go to a request that was approved, with a consent that is stored.
OnlyApproved == WonByApproval /\ ConsentComesFirst

\* adapter.ts:73 (FR-C11): two clients signing in through a session at once are
\* both kept.  On a kv store whoever addClient was called for stays on the list
\* for as long as the session lasts, whatever a device's approval writes back.
KvKeepsSignIns == backend = "kv" => \A s \in Sessions \ ended : added[s] \subseteq List(s)

\* device.ts:137: the wrong codes of one peer within a window stay within the limit unless
\* two of its lookups were under way at once: each one's count is read before the code is
\* looked up and written after, whatever is found, answered or expires in between.
CodesAreCounted == ~crowded => missed <= MaxFailures

=============================================================================
