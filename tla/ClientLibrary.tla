------------------------------- MODULE ClientLibrary -------------------------------
(***************************************************************************)
(* The browser library (packages/client, over packages/core) in the tabs   *)
(* of one application.  Tabs share localStorage and hear of each other's   *)
(* writes by storage events.  Each page holds an instance: the token in    *)
(* memory, the one check of it that may be in flight, the profile, and     *)
(* what the application asked for.                                         *)
(*                                                                         *)
(* A listener runs inside the write that wakes it, so a write and all it   *)
(* sets off is one step; what waits for an answer is a step of its own.    *)
(* A storage event not yet delivered is a key in `pending`: the handler    *)
(* reads the storage as it then is, so that many are as good as one.       *)
(*                                                                         *)
(* The provider is external.  It numbers access tokens as it issues them;  *)
(* a refresh token has the number of the access token it came with, and a  *)
(* login the number of its attempt.                                        *)
(***************************************************************************)
EXTENDS Naturals, Sequences, FiniteSets

CONSTANTS
  Tabs,
  Keys,       \* storage keys: a tenant each
  Setups,     \* configurations, and what the application does in them
  MaxLogins,
  MaxIssued,  \* access tokens
  Lost,       \* functions.ts's undefined: the request failed, or its answer was no JSON
  None

ASSUME ClientAssumption ==
  /\ MaxLogins \in Nat \ {0} /\ MaxIssued \in Nat \ {0}
  /\ Setups \subseteq [tabs : SUBSET Tabs, first : Keys, rotates : BOOLEAN, openid : BOOLEAN, pkce : BOOLEAN,
                       userPath : BOOLEAN, endSession : BOOLEAN, ops : Nat,
                       does : SUBSET {"lapse", "call", "password", "redirect", "reload", "logout", "dispose",
                                      "rekey"}]

VARIABLES
  setup,
  stored,    \* [Keys -> the token in localStorage]
  tab,       \* [Tabs -> the page: see Page]
  pending,   \* [Tabs -> the keys of storage events on their way]
  provider,
  ops,       \* what is left of setup.ops: acts of the user and the application, and lapses
  out,       \* logins the user has signed out of
  late,      \* access tokens written by what was in flight, or by a tab that had not heard
  crossed,   \* a storage key was switched with something under way (a callback's url counts: it
             \* can be loaded again), or on an inert page
  took       \* what callbacks ended with: <<the attempt whose state was held, the login>>

vars == <<setup, stored, tab, pending, provider, ops, out, late, crossed, took>>
ghosts == <<out, late, crossed, took>>

Logins == 1..MaxLogins
Issued == 1..MaxIssued

\* `expires` is set once the client has worked it out from expires_in; `state` stands for
\* the whole handoff of an attempt: state, nonce, code_verifier, redirect_uri.
Token == [access : {0} \cup Issued, refresh : {0} \cup Issued, expires : BOOLEAN,
          state : {0} \cup Logins, error : BOOLEAN]

\* What may be in flight in a page: the one check, a run of sync, and what the application asked for.
Checks == [of : Token, answer : Token \cup {None, Lost}]
Syncs == [pc : {"claims", "waiting", "sent"}, id : {0} \cup Issued, access : {0} \cup Issued]
Flows ==
  [op : {"call"}, pc : {"waiting", "sent"}, access : {0} \cup Issued]
    \cup [op : {"password"}, login : Logins, answer : Token \cup {None}]
    \cup [op : {"callback"}, held : Token, login : Logins, answer : Token \cup {None, Lost}]
    \cup [op : {"revoke"}, held : Token]

ASSUME NoneAssumption ==
  None # Lost /\ {None, Lost} \cap Token = {} /\ None \notin Checks \cup Syncs \cup Flows

Nothing == [access |-> 0, refresh |-> 0, expires |-> FALSE, state |-> 0, error |-> FALSE]
Handoff(u) == [Nothing EXCEPT !.state = u]
Failed == [Nothing EXCEPT !.error = TRUE]
Answer(a, r) == [Nothing EXCEPT !.access = a, !.refresh = r]

-----------------------------------------------------------------------------
(* What is derived from a token. *)

LoginOf(v) == IF v.access = 0 THEN 0 ELSE provider.of[v.access]

\* Every answer with tokens has a new id_token, where the scope asks for one.
IdOf(v) == IF setup.openid THEN v.access ELSE 0

IsExpiredToken(v) == v.expires /\ v.access \in provider.lapsed

IsAuthorized(v) == ~v.error /\ v.access # 0 /\ ~IsExpiredToken(v)

\* tokenState's accessToken: 0 where there is none to send
AccessToken(v) == IF IsExpiredToken(v) THEN 0 ELSE v.access

-----------------------------------------------------------------------------
(* The instance's own steps, as functions of the page's record.  What they leave in `mem` *)
(* they have also written, unless the caller only read it: see Save.                      *)

\* checkToken.  functions.refresh returns at once where there is no refresh token.
CheckToken(p) ==
  IF p.check # None \/ p.mem.access = 0 THEN p
  ELSE IF ~IsExpiredToken(p.mem) THEN [p EXCEPT !.mem.expires = TRUE]
  ELSE IF p.mem.refresh = 0 THEN p
  ELSE [p EXCEPT !.check = [of |-> p.mem, answer |-> None]]

\* oauthFetch for userinfo: ready to go, or waiting for the check.
AskUserInfo(p, id) ==
  LET q == CheckToken(p) IN
  [q EXCEPT !.sync = [pc |-> IF q.check = None THEN "sent" ELSE "waiting", id |-> id,
                      access |-> IF q.check = None THEN AccessToken(q.mem) ELSE 0]]

\* Mutant: an ended session clears the profile and leaves the run before it going.
SyncKeepsRun(p) ==
  LET id == IdOf(p.mem)
      asks == IsAuthorized(p.mem) /\ setup.userPath
  IN IF id = 0 /\ ~asks THEN [p EXCEPT !.user = 0]
     ELSE IF id # 0 THEN [p EXCEPT !.sync = [pc |-> "claims", id |-> id, access |-> 0]]
     ELSE AskUserInfo(p, 0)

\* user.ts's sync: its result counts only while no other run has started.
Sync(p) ==
  LET id == IdOf(p.mem)
      asks == IsAuthorized(p.mem) /\ setup.userPath
  IN IF id = 0 /\ ~asks THEN [p EXCEPT !.user = 0, !.sync = None]
     ELSE IF id # 0 THEN [p EXCEPT !.sync = [pc |-> "claims", id |-> id, access |-> 0]]
     ELSE AskUserInfo(p, 0)

\* The watcher of createUser.
Watch(p) ==
  LET seen == <<IdOf(p.mem), IsAuthorized(p.mem)>> IN
  IF ~p.on \/ seen = p.watched THEN p ELSE Sync([p EXCEPT !.watched = seen])

\* setState of the token store, and its listeners in the order they subscribed.
SetState(p, v) ==
  LET q == [p EXCEPT !.mem = v]
      changed == v.access # p.mem.access /\ v.access # 0
  IN Watch(IF p.on /\ changed THEN CheckToken(q) ELSE q)

\* token.ts's start: a stored token may have expired.
TokenStart(p) == CheckToken([p EXCEPT !.on = TRUE])

\* user.ts's, after it: its watcher fires on a change from here, so it syncs at once.
UserStart(p) == Sync([p EXCEPT !.watched = <<IdOf(p.mem), IsAuthorized(p.mem)>>])

\* createOAuth: the store is seeded from storage, and the instance starts itself.
Page(k, v, u) ==
  UserStart(TokenStart([at |-> "page", asked |-> 0, url |-> u, done |-> {}, key |-> k, wanted |-> k, mem |-> v,
         on |-> FALSE, check |-> None, flow |-> None, user |-> 0, sync |-> None,
         watched |-> <<>>, missed |-> FALSE, spent |-> {}]))

Away(p, u) ==
  [p EXCEPT !.at = "away", !.asked = u, !.url = 0, !.mem = Nothing, !.on = FALSE, !.check = None,
            !.flow = None, !.sync = None, !.user = 0, !.spent = {}, !.done = {}, !.missed = FALSE]

Listening(u) == tab[u].at = "page" /\ tab[u].on

\* localStorage.setItem, and the events it sends the other pages when the value changes.
Sent(t, k, v) ==
  [u \in Tabs |-> IF u # t /\ v # stored[k] /\ Listening(u) THEN pending[u] \cup {k} ELSE pending[u]]

Write(t, k, v) == stored' = [stored EXCEPT ![k] = v] /\ pending' = Sent(t, k, v)

\* The other pages' record of a write they will not be told of.
Missed(t, k, v, p) ==
  [u \in Tabs |-> IF u = t THEN p
                  ELSE IF v # stored[k] /\ tab[u].at = "page" /\ ~tab[u].on /\ tab[u].key = k
                    THEN [tab[u] EXCEPT !.missed = TRUE] ELSE tab[u]]

\* The page becomes p, which had v or read it from storage: where p's token is another,
\* setExpires has written it, over what a page that had not heard, or missed it, has not seen.
Save(t, p, v) ==
  IF p.mem = v
    THEN tab' = [tab EXCEPT ![t] = p] /\ UNCHANGED <<stored, pending, late>>
    ELSE /\ tab' = Missed(t, p.key, p.mem, p) /\ Write(t, p.key, p.mem)
         /\ late' = IF p.key \in pending[t] \/ p.missed THEN late \cup {p.mem.access} ELSE late

\* setToken(v), and the page goes to `asked` with all it had in flight.  The provider may have
\* handled that already: Refresh.
Goes(t, v, asked) ==
  /\ tab' = Missed(t, tab[t].key, v, Away(tab[t], asked))
  /\ stored' = [stored EXCEPT ![tab[t].key] = v]
  /\ pending' = [Sent(t, tab[t].key, v) EXCEPT ![t] = {}]

\* setToken(v) on page p: storage first, then memory and its listeners.
Put(t, p, v) ==
  LET q == SetState(p, v) IN
  tab' = Missed(t, q.key, q.mem, q) /\ Write(t, q.key, q.mem)

Does(op) == op \in setup.does /\ ops > 0 /\ ops' = ops - 1

OnPage(t) == tab[t].at = "page"
Free(t) == OnPage(t) /\ tab[t].flow = None

-----------------------------------------------------------------------------
(* The provider. *)

Issue(l) ==
  [provider EXCEPT !.of = Append(@, l), !.good[l] = Len(provider.of) + 1]

More == Len(provider.of) < MaxIssued

\* A refresh token is good for the login's next tokens while it is its last one; a rotated
\* one presented again ends the login.  Without rotation no new one comes.
Refresh(t) ==
  LET c == tab[t].check
      r == c.of.refresh
      l == provider.of[r]
      a == Len(provider.of) + 1
  IN
  /\ OnPage(t) /\ c # None /\ c.answer = None
  /\ \/ /\ provider.good[l] = r /\ a <= MaxIssued
        /\ provider' = IF setup.rotates THEN Issue(l) ELSE [provider EXCEPT !.of = Append(@, l)]
        /\ \E ans \in {Answer(a, IF setup.rotates THEN a ELSE 0), Lost} :
             tab' = [tab EXCEPT ![t].check.answer = ans]
     \/ /\ provider.good[l] # r
        /\ provider' = [provider EXCEPT !.good[l] = 0]
        /\ tab' = [tab EXCEPT ![t].check.answer = Failed]
     \/ tab' = [tab EXCEPT ![t].check.answer = Lost] /\ UNCHANGED provider
  /\ UNCHANGED <<setup, stored, pending, ops, ghosts>>

\* A protected resource and userinfo: a live access token, or 401.
Honours(a) == a # 0 /\ a \notin provider.lapsed /\ provider.good[provider.of[a]] # 0

\* An access token's lifetime ends.
Lapse(a) ==
  /\ Does("lapse") /\ a \in 1..Len(provider.of) \ provider.lapsed
  /\ provider' = [provider EXCEPT !.lapsed = @ \cup {a}]
  /\ UNCHANGED <<setup, stored, tab, pending, ghosts>>

\* The user comes to have a login, at `home`, by password or at the authorization endpoint.
Attempt(home) ==
  [provider EXCEPT !.good = Append(@, 0), !.code = Append(@, "none"), !.home = Append(@, home)]

NextLogin == Len(provider.good) + 1

-----------------------------------------------------------------------------
(* Token and storage. *)

Released(p) ==
  LET Sends(w) == [w EXCEPT !.pc = "sent", !.access = AccessToken(p.mem)] IN
  [p EXCEPT
    !.flow = IF @ # None /\ @.op = "call" /\ @.pc = "waiting" THEN Sends(@) ELSE @,
    !.sync = IF @ # None /\ @.pc = "waiting" THEN Sends(@) ELSE @]

\* Mutant: the old refresh token is kept over a new one.
RefreshedOld(t, ans) ==
  IF ans = Failed THEN ans
  ELSE [ans EXCEPT !.expires = TRUE, !.refresh = tab[t].check.of.refresh]

\* Keep the old refresh token where the response has none; it has its `expires` at once.
Refreshed(t, ans) ==
  IF ans = Failed THEN ans
  ELSE [ans EXCEPT !.expires = TRUE, !.refresh = IF @ = 0 THEN tab[t].check.of.refresh ELSE @]

\* The rest of checkToken: whoever waited for it goes on.
ReceiveCheck(t) ==
  LET c == tab[t].check
      p == IF setup.rotates /\ c.answer # Lost
             THEN [tab[t] EXCEPT !.spent = @ \cup {c.of.refresh}] ELSE tab[t]
      q == IF c.answer = Lost THEN p ELSE SetState(p, Refreshed(t, c.answer))
      r == Released([q EXCEPT !.check = None])
  IN
  /\ OnPage(t) /\ c # None /\ c.answer # None
  /\ IF c.answer = Lost
       THEN tab' = [tab EXCEPT ![t] = r] /\ UNCHANGED <<stored, pending, late>>
       ELSE /\ tab' = Missed(t, r.key, r.mem, r) /\ Write(t, r.key, r.mem)
            /\ late' = IF LoginOf(r.mem) \in out THEN late \cup {r.mem.access} ELSE late
  /\ UNCHANGED <<setup, provider, ops, out, crossed, took>>

\* onStorage: an event for another key than the store's is ignored.
Deliver(t, k) ==
  /\ k \in pending[t]
  /\ IF tab[t].key = k
       THEN LET p == SetState([tab[t] EXCEPT !.missed = FALSE], stored[k]) IN
            /\ tab' = Missed(t, k, p.mem, p)
            /\ stored' = [stored EXCEPT ![k] = p.mem]
            /\ pending' = [Sent(t, k, p.mem) EXCEPT ![t] = @ \ {k}]
       ELSE pending' = [pending EXCEPT ![t] = @ \ {k}] /\ UNCHANGED <<stored, tab>>
  /\ UNCHANGED <<setup, provider, ops, ghosts>>

\* Mutant: the token stays, for the new key's first write.
RekeyedKept(p, k) == [p EXCEPT !.key = k, !.missed = FALSE]

\* storage.rekey: load that key's value without writing it back.
Rekeyed(p, k) == SetState([p EXCEPT !.key = k, !.missed = FALSE], stored[k])

\* setStorageKey: a started instance follows its configuration, an inert one when it starts.
SetStorageKey(t, k) ==
  /\ Does("rekey") /\ OnPage(t) /\ tab[t].wanted # k
  /\ LET p == [tab[t] EXCEPT !.wanted = k] IN
     IF p.on THEN Save(t, Rekeyed(p, k), stored[k]) ELSE Save(t, p, p.mem)
  /\ crossed' = (crossed \/ ~tab[t].on \/ tab[t].check # None \/ tab[t].flow # None \/ tab[t].url # 0)
  /\ UNCHANGED <<setup, provider, out, took>>

\* dispose: nothing is listened to, and a profile on its way is not waited for.
Dispose(t) ==
  /\ Does("dispose") /\ OnPage(t) /\ tab[t].on
  /\ tab' = [tab EXCEPT ![t].on = FALSE, ![t].sync = None,
                         ![t].missed = @ \/ tab[t].key \in pending[t]]
  /\ pending' = [pending EXCEPT ![t] = {}]
  /\ UNCHANGED <<setup, stored, provider, ghosts>>

\* start, again: storage.rekey returns at once where the key is the same.
Restart(t) ==
  LET p == tab[t]
      q == IF p.wanted = p.key THEN p ELSE Rekeyed(p, p.wanted)
  IN
  /\ OnPage(t) /\ ~p.on
  /\ Save(t, UserStart(TokenStart(q)), IF p.wanted = p.key THEN p.mem ELSE stored[p.wanted])
  /\ UNCHANGED <<setup, provider, ops, out, crossed, took>>

-----------------------------------------------------------------------------
(* The profile. *)

\* jwt has read the id_token's claims; userinfo is next, where authorized.
ReadClaims(t) ==
  LET s == tab[t].sync
      p == [tab[t] EXCEPT !.user = provider.of[s.id], !.sync = None]
      asks == tab[t].watched[2] /\ setup.userPath
  IN
  /\ OnPage(t) /\ s # None /\ s.pc = "claims"
  /\ Save(t, IF asks THEN AskUserInfo(p, s.id) ELSE p, p.mem)
  /\ UNCHANGED <<setup, provider, ops, out, crossed, took>>

\* What the resource answers a call sent with an access token: oauthFetch on 401 puts the
\* body in place of whatever token there is.
Answered(t, p, access, user) ==
  IF Honours(access)
    THEN Save(t, [p EXCEPT !.user = user], p.mem)
    ELSE Put(t, p, Nothing) /\ UNCHANGED late

UserInfo(t) ==
  LET s == tab[t].sync
      p == [tab[t] EXCEPT !.sync = None]
  IN
  /\ OnPage(t) /\ s # None /\ s.pc = "sent"
  /\ \/ Answered(t, p, s.access, LoginOf(Answer(s.access, 0)))
     \/ Save(t, p, p.mem)
  /\ UNCHANGED <<setup, provider, ops, out, crossed, took>>

-----------------------------------------------------------------------------
(* Calls of the application. *)

\* oauthFetch: authHeaders waits for a check before it looks for an access token.
Call(t) ==
  LET p == CheckToken(tab[t]) IN
  /\ Does("call") /\ Free(t)
  /\ Save(t, [p EXCEPT !.flow = IF p.check = None
                                THEN [op |-> "call", pc |-> "sent", access |-> AccessToken(p.mem)]
                                ELSE [op |-> "call", pc |-> "waiting", access |-> 0]], tab[t].mem)
  /\ UNCHANGED <<setup, provider, out, crossed, took>>

CallAnswered(t) ==
  LET f == tab[t].flow IN
  /\ OnPage(t) /\ f # None /\ f.op = "call" /\ f.pc = "sent"
  /\ Answered(t, [tab[t] EXCEPT !.flow = None], f.access, tab[t].user)
  /\ UNCHANGED <<setup, provider, ops, out, crossed, took>>

-----------------------------------------------------------------------------
(* Signing in. *)

\* login with a password.  The login is the tenant's the instance was configured for.
Password(t) ==
  /\ Does("password") /\ Free(t) /\ NextLogin \in Logins /\ More
  /\ provider' = Attempt(tab[t].wanted)
  /\ tab' = [tab EXCEPT ![t].flow = [op |-> "password", login |-> NextLogin, answer |-> None]]
  /\ UNCHANGED <<setup, stored, pending, ghosts>>

PasswordHandled(t) ==
  LET f == tab[t].flow IN
  /\ OnPage(t) /\ f # None /\ f.op = "password" /\ f.answer = None
  /\ \/ /\ More /\ provider' = Issue(f.login)
        /\ LET a == Len(provider'.of) IN tab' = [tab EXCEPT ![t].flow.answer = Answer(a, a)]
     \/ /\ \E ans \in {Failed, Nothing} : tab' = [tab EXCEPT ![t].flow.answer = ans]
        /\ UNCHANGED provider
  /\ UNCHANGED <<setup, stored, pending, ops, ghosts>>

\* Whatever came takes the place of the token; where nothing did, {} does.
PasswordAnswered(t) ==
  LET f == tab[t].flow IN
  /\ OnPage(t) /\ f # None /\ f.op = "password" /\ f.answer # None
  /\ Put(t, [tab[t] EXCEPT !.flow = None], f.answer) /\ UNCHANGED late
  /\ UNCHANGED <<setup, provider, ops, out, crossed, took>>

\* login by redirect: the handoff is stored before the page goes away.
Redirect(t) ==
  /\ Does("redirect") /\ Free(t) /\ NextLogin \in Logins
  /\ provider' = Attempt(tab[t].wanted)
  /\ Goes(t, Handoff(NextLogin), NextLogin)
  /\ UNCHANGED <<setup, ghosts>>

\* The user is back, with a code for the attempt or from the end of a session.
Return(t) ==
  LET u == tab[t].asked
      p == Page(tab[t].wanted, stored[tab[t].wanted], u)
  IN
  /\ tab[t].at = "away"
  /\ provider' = IF u = 0 THEN provider ELSE [provider EXCEPT !.code[u] = "ready"]
  /\ Save(t, p, stored[p.key])
  /\ UNCHANGED <<setup, ops, out, crossed, took>>

\* The user reloads the page, or comes back to the callback's url.
Reload(t) ==
  LET p == Page(tab[t].wanted, stored[tab[t].wanted], tab[t].url) IN
  /\ Does("reload") /\ OnPage(t)
  /\ Save(t, p, stored[p.key])
  /\ UNCHANGED <<setup, provider, out, crossed, took>>

\* Mutant: the state that comes back is not compared.
CheckStateNever(held, u) == TRUE

\* Checked only against a state that is held.
CheckState(held, u) == held.state = 0 \/ held.state = u

\* oauthCallback, once for a redirect in the life of the page.  A failed check is stored.
OauthCallback(t) ==
  LET u == tab[t].url
      p == [tab[t] EXCEPT !.done = @ \cup {u}]
  IN
  /\ Free(t) /\ u # 0 /\ u \notin tab[t].done
  /\ IF CheckState(p.mem, u)
       THEN Save(t, [p EXCEPT !.flow = [op |-> "callback", held |-> p.mem, login |-> u,
                                        answer |-> None]], p.mem)
       ELSE Put(t, p, Failed) /\ UNCHANGED late
  /\ UNCHANGED <<setup, provider, ops, out, crossed, took>>

\* The token endpoint: a code for its own verifier, once; a second time ends what it gave.
CodeHandled(t) ==
  LET f == tab[t].flow
      fits == setup.pkce => f.held.state = f.login
      a == Len(provider.of) + 1
  IN
  /\ OnPage(t) /\ f # None /\ f.op = "callback" /\ f.answer = None
  /\ \/ /\ provider.code[f.login] = "ready" /\ fits /\ More
        /\ provider' = [Issue(f.login) EXCEPT !.code[f.login] = "used"]
        /\ \E ans \in {Answer(a, a), Lost} : tab' = [tab EXCEPT ![t].flow.answer = ans]
     \/ /\ ~(provider.code[f.login] = "ready" /\ fits)
        /\ provider' = [provider EXCEPT !.good[f.login] = IF provider.code[f.login] = "used" THEN 0 ELSE @]
        /\ tab' = [tab EXCEPT ![t].flow.answer = Failed]
     \/ tab' = [tab EXCEPT ![t].flow.answer = Lost] /\ UNCHANGED provider
  /\ UNCHANGED <<setup, stored, pending, ops, ghosts>>

\* checkNonce: the id_token's against the one held, none held included.
CheckNonce(f) == setup.openid => f.answer # Lost /\ f.held.state = f.login

\* The rest of completeAuthorization.  Where no answer came, what was held stands for it.
Completed(f) ==
  LET result == IF f.answer = Lost THEN f.held ELSE f.answer
  IN IF result.error \/ ~CheckNonce(f) THEN Failed ELSE result

CallbackAnswered(t) ==
  LET f == tab[t].flow
      result == Completed(f)
  IN
  /\ OnPage(t) /\ f # None /\ f.op = "callback" /\ f.answer # None
  /\ Put(t, [tab[t] EXCEPT !.flow = None], result)
  /\ late' = IF result = f.held THEN late \cup ({result.access} \ {0}) ELSE late
  /\ took' = IF result = f.answer /\ result # Failed
               THEN took \cup {<<f.held.state, f.login>>} ELSE took
  /\ UNCHANGED <<setup, provider, ops, out, crossed>>

-----------------------------------------------------------------------------
(* Signing out. *)

SignedOut(v) == out' = IF v.access = 0 THEN out ELSE out \cup {LoginOf(v)}

\* logout with an end_session_endpoint: the token goes, and the page does.
Leave(t) ==
  LET v == tab[t].mem IN
  /\ Does("logout") /\ setup.endSession /\ Free(t)
  /\ Goes(t, Nothing, 0)
  /\ SignedOut(v)
  /\ provider' = IF v.access = 0 THEN provider ELSE [provider EXCEPT !.good[LoginOf(v)] = 0]
  /\ UNCHANGED <<setup, late, crossed, took>>

\* Without one it revokes what it holds,
Revoke(t) ==
  /\ Does("logout") /\ ~setup.endSession /\ Free(t)
  /\ tab' = [tab EXCEPT ![t].flow = [op |-> "revoke", held |-> tab[t].mem]]
  /\ UNCHANGED <<setup, stored, pending, provider, ghosts>>

\* Mutant: the token goes once it is revoked.
RevokedThen(t) ==
  LET f == tab[t].flow
      l == LoginOf(f.held)
  IN
  /\ OnPage(t) /\ f # None /\ f.op = "revoke"
  /\ SignedOut(f.held)
  /\ \/ provider' = (IF l = 0 THEN provider ELSE [provider EXCEPT !.good[l] = 0])
        /\ Put(t, [tab[t] EXCEPT !.flow = None], Nothing) /\ UNCHANGED late
     \/ UNCHANGED provider /\ Save(t, [tab[t] EXCEPT !.flow = None], tab[t].mem)
  /\ UNCHANGED <<setup, ops, crossed, took>>

\* and drops the token whether or not that went well.
Revoked(t) ==
  LET f == tab[t].flow
      l == LoginOf(f.held)
  IN
  /\ OnPage(t) /\ f # None /\ f.op = "revoke"
  /\ SignedOut(f.held)
  /\ provider' \in {provider} \cup {[provider EXCEPT !.good[l] = 0] : m \in {l} \ {0}}
  /\ Put(t, [tab[t] EXCEPT !.flow = None], Nothing) /\ UNCHANGED late
  /\ UNCHANGED <<setup, ops, crossed, took>>

-----------------------------------------------------------------------------

\* A page of an application whose user is signed in: login 1, at the first of its keys.
Init ==
  /\ setup \in Setups
  /\ stored = [k \in Keys |-> IF k # setup.first THEN Nothing
                               ELSE [Answer(1, 1) EXCEPT !.expires = TRUE]]
  /\ provider = [of |-> <<1>>, lapsed |-> {}, good |-> <<1>>, code |-> <<"none">>,
                  home |-> <<setup.first>>]
  /\ tab = [t \in Tabs |->
       IF t \in setup.tabs
         THEN [Page(setup.first, stored[setup.first], 0) EXCEPT !.user = 1, !.sync = None]
       ELSE Away(Page(setup.first, Nothing, 0), 0)]
  /\ pending = [t \in Tabs |-> {}]
  /\ ops = setup.ops
  /\ out = {} /\ late = {} /\ crossed = FALSE /\ took = {}

TabStep(t) ==
  \/ Refresh(t) \/ ReceiveCheck(t) \/ \E k \in Keys : Deliver(t, k) \/ SetStorageKey(t, k)
  \/ Dispose(t) \/ Restart(t) \/ ReadClaims(t) \/ UserInfo(t) \/ Call(t) \/ CallAnswered(t)
  \/ Password(t) \/ PasswordHandled(t) \/ PasswordAnswered(t)
  \/ Redirect(t) \/ Return(t) \/ Reload(t)
  \/ OauthCallback(t) \/ CodeHandled(t) \/ CallbackAnswered(t)
  \/ Leave(t) \/ Revoke(t) \/ Revoked(t)

Next ==
  \/ \E t \in setup.tabs : TabStep(t)
  \/ \E a \in Issued : Lapse(a)

Spec == Init /\ [][Next]_vars

-----------------------------------------------------------------------------

\* Every variable has its type.
TypeOK ==
  /\ setup \in Setups
  /\ stored \in [Keys -> Token]
  /\ pending \in [Tabs -> SUBSET Keys]
  /\ ops \in 0..setup.ops /\ out \subseteq Logins /\ late \subseteq Issued /\ crossed \in BOOLEAN
  /\ took \subseteq ({0} \cup Logins) \X Logins
  /\ \A t \in Tabs :
       /\ tab[t].at \in {"page", "away"} /\ tab[t].mem \in Token /\ tab[t].key \in Keys
       /\ tab[t].user \in {0} \cup Logins
       /\ tab[t].check # None => tab[t].check.of.refresh # 0

\* A page that listens, and is owed no event, has in memory what is stored under the key it
\* is configured for (storage.ts:44-58, token.ts:121-134); unless it was written while the
\* page was inert, which start does not look for.  And what is stored under a tenant's key is of
\* a login at that tenant, unless something was under way as the key was switched.
HoldsItsKey ==
  /\ \A t \in setup.tabs : Listening(t) /\ tab[t].key \notin pending[t] /\ ~tab[t].missed =>
       tab[t].key = tab[t].wanted /\ tab[t].mem = stored[tab[t].key]
  /\ \A k \in Keys : stored[k].access # 0 => crossed \/ provider.home[LoginOf(stored[k])] = k

\* Once the user has signed out of a login (flows.ts:58-81), in any tab, a page is
\* authorized by it only if it has yet to hear of that, or did not listen; or if a refresh
\* was in flight as they did, or a tab that had not heard wrote it again.
SignedOutStays ==
  \A t \in setup.tabs :
    OnPage(t) /\ IsAuthorized(tab[t].mem) /\ LoginOf(tab[t].mem) \in out =>
      \/ tab[t].key \in pending[t] \/ tab[t].missed \/ ~tab[t].on
      \/ tab[t].mem.access \in late \/ crossed

\* A rotated refresh token that was answered is not presented again by the page that
\* presented it (token.ts:81-106): presented twice, it ends its login.  Unless a code exchange
\* that was lost put back the token it had begun with (flow.ts:103-106).
PresentedOnce ==
  \A t \in setup.tabs : LET c == tab[t].check IN
    c # None => c.of.refresh \notin tab[t].spent \/ c.of.access \in late \/ crossed

\* The profile is of the login whose token the page holds, or a new one is on its way
\* (user.ts:30-50).  Without id_tokens the page does not see a login follow another at once.
ProfileIsCurrent ==
  \A t \in setup.tabs : Listening(t) /\ tab[t].user # 0 =>
    \/ tab[t].sync # None
    \/ tab[t].mem.access # 0 /\ (setup.openid => tab[t].user = LoginOf(tab[t].mem))

\* A callback ends with the tokens of the attempt whose handoff the page held as it began
\* (flow.ts:32-38, :61-68 and the provider's check of the verifier); of another's only where
\* no state was held, there is no verifier, and no nonce is asked for.
ItsOwn ==
  \A a \in took : a[1] = a[2] \/ (a[1] = 0 /\ ~setup.pkce /\ ~setup.openid)
====================================================================================
