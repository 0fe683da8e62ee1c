-------------------------- MODULE ClientLibrary_proofs --------------------------
(* Theorems about ClientLibrary, for every value of its constants. The inductive invariant
   IInv is about tokens: where one may be (Sound), that pages and storage agree (Synced),
   that nothing of a session that ended or of a refresh token that was spent is held
   (Stands), and that an answer on its way is nowhere else (New, Sealed, Own). A step
   stores or takes at most one token; most bring none that was not there (Ordinarily).
   And, at the end, theorems about the bindings that draw its token (ViewInv). *)
EXTENDS ClientLibrary, Bindings, SequenceTheorems, TLAPS

-----------------------------------------------------------------------------
(* Types. *)

\* What is remembered of the last change the profile's watcher saw.
Watched == {<<>>} \cup (({0} \cup Issued) \X BOOLEAN)
\* A tab, with a type for every field.
Pages ==
  [at : {"page", "away"}, asked : {0} \cup Logins, url : {0} \cup Logins, done : SUBSET Logins,
   key : Keys, wanted : Keys, mem : Token, on : BOOLEAN, check : Checks \cup {None}, flow : Flows \cup {None},
   user : {0} \cup Logins, sync : Syncs \cup {None}, watched : Watched, missed : BOOLEAN, spent : SUBSET Issued]

\* A page after one of its fields has changed.
LEMMA PageFields ==
  ASSUME NEW p \in Pages
  PROVE  /\ \A x \in Token : [p EXCEPT !.mem = x] \in Pages
         /\ \A x \in Checks \cup {None} : [p EXCEPT !.check = x] \in Pages
         /\ \A x \in Syncs \cup {None} : [p EXCEPT !.sync = x] \in Pages
         /\ \A x \in Flows \cup {None} : [p EXCEPT !.flow = x] \in Pages
         /\ \A x \in Watched : [p EXCEPT !.watched = x] \in Pages
         /\ \A x \in {0} \cup Logins : [p EXCEPT !.user = x] \in Pages
         /\ \A x \in BOOLEAN : [p EXCEPT !.on = x] \in Pages /\ [p EXCEPT !.missed = x] \in Pages
         /\ \A x \in Keys : [p EXCEPT !.key = x] \in Pages /\ [p EXCEPT !.wanted = x] \in Pages
         /\ \A x \in SUBSET Issued : [p EXCEPT !.spent = x] \in Pages
         /\ \A x \in SUBSET Logins : [p EXCEPT !.done = x] \in Pages
BY DEF Pages

\* The tokens the model makes, and the fields of any of them.
LEMMA TokensAre ==
  /\ Nothing \in Token /\ Failed \in Token
  /\ \A w \in Token : [w EXCEPT !.expires = TRUE] \in Token
  /\ \A u \in Logins : Handoff(u) \in Token
  /\ \A a \in Issued, b \in {0} \cup Issued : Answer(a, b) \in Token
  /\ \A w \in Token : w.access \in {0} \cup Issued /\ w.refresh \in {0} \cup Issued /\ w.expires \in BOOLEAN
                      /\ w.state \in {0} \cup Logins /\ w.error \in BOOLEAN
  /\ Nothing.access = 0 /\ Nothing.refresh = 0 /\ Failed.access = 0 /\ Failed.refresh = 0 /\ Failed.error
  /\ \A u \in Logins : Handoff(u).access = 0 /\ Handoff(u).refresh = 0
  /\ \A a \in Issued, b \in {0} \cup Issued : LET w == Answer(a, b) IN w.access = a /\ w.refresh = b /\ ~w.error
BY DEF Token, Nothing, Failed, Handoff, Answer

-----------------------------------------------------------------------------
(* What the functions of a page leave of it. *)

\* v is w, whose expiry may have been worked out.
Alike(v, w) == v \in {w, [w EXCEPT !.expires = TRUE]}

\* Page q is page p but for its memory, its check and its profile.
Keeps(p, q) ==
  /\ q.at = p.at /\ q.asked = p.asked /\ q.url = p.url /\ q.done = p.done /\ q.key = p.key /\ q.wanted = p.wanted
  /\ q.on = p.on /\ q.flow = p.flow /\ q.missed = p.missed /\ q.spent = p.spent

\* A run of sync asks with what was issued.
SyncIssued(n, s) == s.id <= n /\ s.access <= n /\ (s.pc = "claims" => s.id # 0)

\* The page looks after its token: the check begins, or the expiry is worked out, where it can.
Settles(p, q) ==
  /\ q \in Pages /\ Keeps(p, q) /\ Alike(q.mem, p.mem)
  /\ q.check = p.check \/ (p.check = None /\ q.check = [of |-> q.mem, answer |-> None] /\ q.mem.refresh # 0)
  /\ p.check # None => q.mem = p.mem
  /\ q.mem # p.mem => q.mem.access # 0
  /\ p.mem.access <= Len(provider.of) => q.sync \in {p.sync, None} \/ SyncIssued(Len(provider.of), q.sync)

\* Checks, when they begin and later.
LEMMA ChecksAre ==
  /\ \A w \in Token : [of |-> w, answer |-> None] \in Checks /\ [of |-> w, answer |-> None] # None
  /\ \A c \in Checks : c.of \in Token /\ c.answer \in Token \cup {None, Lost} /\ c # None
<1>1. \A w \in Token : [of |-> w, answer |-> None] \in Checks
  BY DEF Checks
<1>2. \A c \in Checks : c.of \in Token /\ c.answer \in Token \cup {None, Lost}
  BY DEF Checks
<1>. QED BY <1>1, <1>2, NoneAssumption

\* Settling is transitive,
LEMMA SettlesTwice ==
  ASSUME NEW p, NEW q, NEW r, p \in Pages, Settles(p, q), Settles(q, r)
  PROVE  Settles(p, r)
<1>1. Keeps(p, r)
  BY DEF Settles, Keeps
<1>2. q.mem \in Token /\ p.mem \in Token
  BY DEF Settles, Pages
<1>3. Alike(r.mem, p.mem) /\ q.mem.access = p.mem.access
  BY <1>2, TokensAre DEF Settles, Alike, Token
<1>4. p.mem.access <= Len(provider.of) => r.sync \in {p.sync, None} \/ SyncIssued(Len(provider.of), r.sync)
  BY <1>3 DEF Settles
<1>5. r.mem # p.mem => r.mem.access # 0
  BY <1>2, <1>3, TokensAre DEF Settles, Alike, Token
<1>. QED BY <1>1, <1>2, <1>3, <1>4, <1>5, ChecksAre DEF Settles

\* and reflexive.
LEMMA SettlesNot ==
  ASSUME NEW p \in Pages
  PROVE  Settles(p, p)
BY DEF Settles, Keeps, Alike

\* The fields the profile is made of are not those.
LEMMA SettlesProfile ==
  ASSUME NEW p \in Pages
  PROVE  /\ \A x \in Syncs \cup {None} : (p.mem.access <= Len(provider.of) => x = None \/ SyncIssued(Len(provider.of), x)) =>
                                             Settles(p, [p EXCEPT !.sync = x])
         /\ \A x \in Watched : Settles(p, [p EXCEPT !.watched = x])
         /\ \A x \in {0} \cup Logins : Settles(p, [p EXCEPT !.user = x])
<1>1. \A x : /\ [p EXCEPT !.sync = x].mem = p.mem /\ [p EXCEPT !.sync = x].check = p.check
             /\ [p EXCEPT !.sync = x].sync = x /\ Keeps(p, [p EXCEPT !.sync = x])
  BY DEF Pages, Keeps
<1>2. \A x : /\ [p EXCEPT !.watched = x].mem = p.mem /\ [p EXCEPT !.watched = x].check = p.check
             /\ [p EXCEPT !.watched = x].sync = p.sync /\ Keeps(p, [p EXCEPT !.watched = x])
  BY DEF Pages, Keeps
<1>3. \A x : /\ [p EXCEPT !.user = x].mem = p.mem /\ [p EXCEPT !.user = x].check = p.check
             /\ [p EXCEPT !.user = x].sync = p.sync /\ Keeps(p, [p EXCEPT !.user = x])
  BY DEF Pages, Keeps
<1>. QED BY <1>1, <1>2, <1>3, PageFields DEF Settles, Alike

\* The token and its check are not kept by a change of theirs alone.
LEMMA TokenFields ==
  ASSUME NEW p \in Pages
  PROVE  /\ \A x : [p EXCEPT !.mem = x].mem = x /\ [p EXCEPT !.mem = x].check = p.check
                  /\ [p EXCEPT !.mem = x].sync = p.sync /\ Keeps(p, [p EXCEPT !.mem = x])
         /\ \A x : [p EXCEPT !.check = x].mem = p.mem /\ [p EXCEPT !.check = x].check = x
                  /\ [p EXCEPT !.check = x].sync = p.sync
                  /\ Keeps(p, [p EXCEPT !.check = x])
BY DEF Pages, Keeps

\* A look at the token (token.ts:72-88) leaves the token the page had, or one like it.
LEMMA CheckTokenSettles ==
  ASSUME NEW p \in Pages
  PROVE  Settles(p, CheckToken(p))
<1>0. p.mem \in Token
  BY DEF Pages
<1>1. CASE p.check # None \/ p.mem.access = 0
  BY <1>1, SettlesNot DEF CheckToken
<1>2. CASE ~(p.check # None \/ p.mem.access = 0) /\ ~IsExpiredToken(p.mem)
  <2>. DEFINE w == [p.mem EXCEPT !.expires = TRUE]
              q == [p EXCEPT !.mem = w]
  <2>1. CheckToken(p) = q
    BY <1>2 DEF CheckToken, Pages
  <2>2. w \in Token
    BY <1>0, TokensAre
  <2>. HIDE DEF w
  <2>3. q.mem = w /\ q.check = p.check /\ q.sync = p.sync /\ Keeps(p, q) /\ q \in Pages
    BY <2>2, PageFields, TokenFields
  <2>4. w = [p.mem EXCEPT !.expires = TRUE] /\ w.access = p.mem.access
    BY <1>0 DEF w, Token
  <2>. QED BY <1>2, <2>1, <2>3, <2>4 DEF Settles, Alike
<1>3. CASE ~(p.check # None \/ p.mem.access = 0) /\ IsExpiredToken(p.mem) /\ p.mem.refresh = 0
  BY <1>3, SettlesNot DEF CheckToken
<1>4. CASE ~(p.check # None \/ p.mem.access = 0) /\ IsExpiredToken(p.mem) /\ p.mem.refresh # 0
  <2>. DEFINE c == [of |-> p.mem, answer |-> None]
              q == [p EXCEPT !.check = c]
  <2>1. CheckToken(p) = q
    BY <1>4 DEF CheckToken
  <2>2. c \in Checks /\ c = [of |-> p.mem, answer |-> None]
    BY <1>0, ChecksAre
  <2>. HIDE DEF c
  <2>3. q \in Pages
    BY <2>2, PageFields
  <2>4. q.mem = p.mem /\ q.check = c /\ q.sync = p.sync /\ Keeps(p, q)
    BY TokenFields
  <2>. HIDE DEF q
  <2>. QED BY <1>4, <2>1, <2>2, <2>3, <2>4 DEF Settles, Alike
<1>. QED BY <1>1, <1>2, <1>3, <1>4

\* What is derived from a token is a part of it.
LEMMA DerivedAre ==
  ASSUME NEW w \in Token, setup \in Setups
  PROVE  /\ IdOf(w) \in {0} \cup Issued /\ IsAuthorized(w) \in BOOLEAN /\ AccessToken(w) \in {0} \cup Issued
         /\ IdOf(w) \in {0, w.access} /\ AccessToken(w) \in {0, w.access}
BY TokensAre DEF IdOf, IsAuthorized, AccessToken, IsExpiredToken

\* To ask for the profile touches the profile alone.
LEMMA AskUserInfoSettles ==
  ASSUME setup \in Setups, Len(provider.of) \in Nat, NEW p \in Pages, NEW id \in {0} \cup Issued, id <= Len(provider.of)
  PROVE  Settles(p, AskUserInfo(p, id))
<1>. DEFINE q == CheckToken(p)
            s == [pc |-> IF q.check = None THEN "sent" ELSE "waiting", id |-> id,
                  access |-> IF q.check = None THEN AccessToken(q.mem) ELSE 0]
<1>1. Settles(p, q)
  BY CheckTokenSettles
<1>2. q \in Pages /\ q.mem \in Token
  BY <1>1 DEF Settles, Pages
<1>3. AskUserInfo(p, id) = [q EXCEPT !.sync = s]
  BY DEF AskUserInfo
<1>. HIDE DEF q
<1>4. s \in Syncs
  BY <1>2, DerivedAre DEF Syncs
<1>5. q.mem.access <= Len(provider.of) => SyncIssued(Len(provider.of), s)
  BY <1>2, DerivedAre DEF SyncIssued
<1>. HIDE DEF s
<1>. QED BY <1>1, <1>2, <1>3, <1>4, <1>5, SettlesProfile, SettlesTwice

\* So does the profile's own look at the token,
LEMMA SyncSettles ==
  ASSUME setup \in Setups, Len(provider.of) \in Nat, NEW p \in Pages
  PROVE  Settles(p, Sync(p))
<1>. DEFINE id == IdOf(p.mem)
            asks == IsAuthorized(p.mem) /\ setup.userPath
            s == [pc |-> "claims", id |-> id, access |-> 0]
<1>1. id \in {0} \cup Issued
  BY DerivedAre DEF Pages
<1>2. s \in Syncs
  BY <1>1 DEF Syncs
<1>3. CASE id = 0 /\ ~asks
  <2>. DEFINE q == [p EXCEPT !.user = 0]
  <2>1. Sync(p) = [q EXCEPT !.sync = None]
    BY <1>3 DEF Sync
  <2>2. q \in Pages /\ Settles(p, q)
    BY PageFields, SettlesProfile
  <2>. HIDE DEF q
  <2>3. Settles(q, [q EXCEPT !.sync = None])
    BY <2>2, SettlesProfile
  <2>. QED BY <2>1, <2>2, <2>3, SettlesTwice
<1>4. CASE id # 0
  <2>1. Sync(p) = [p EXCEPT !.sync = s]
    BY <1>4 DEF Sync
  <2>2. p.mem.access <= Len(provider.of) => SyncIssued(Len(provider.of), s)
    BY <1>4, DerivedAre DEF SyncIssued, Pages
  <2>. HIDE DEF s
  <2>. QED BY <1>2, <2>1, <2>2, SettlesProfile
<1>5. CASE id = 0 /\ asks
  <2>1. Sync(p) = AskUserInfo(p, 0)
    BY <1>5 DEF Sync
  <2>. QED BY <2>1, AskUserInfoSettles
<1>. HIDE DEF id, asks
<1>. QED BY <1>3, <1>4, <1>5

\* and its watcher.
LEMMA WatchSettles ==
  ASSUME setup \in Setups, Len(provider.of) \in Nat, NEW p \in Pages
  PROVE  Settles(p, Watch(p))
<1>. DEFINE seen == <<IdOf(p.mem), IsAuthorized(p.mem)>>
            q == [p EXCEPT !.watched = seen]
<1>1. seen \in Watched
  BY DerivedAre DEF Pages, Watched
<1>. HIDE DEF seen
<1>2. Settles(p, q) /\ q \in Pages
  BY <1>1, SettlesProfile, PageFields
<1>3. Watch(p) \in {p, Sync(q)}
  BY DEF Watch, seen
<1>. HIDE DEF q
<1>. QED BY <1>2, <1>3, SettlesNot, SyncSettles, SettlesTwice

\* The token store has v: it is settled.
LEMMA SetStateSettles ==
  ASSUME setup \in Setups, Len(provider.of) \in Nat, NEW p \in Pages, NEW v \in Token
  PROVE  [p EXCEPT !.mem = v] \in Pages /\ Settles([p EXCEPT !.mem = v], SetState(p, v))
<1>. DEFINE q == [p EXCEPT !.mem = v]
            changed == v.access # p.mem.access /\ v.access # 0
            r == IF p.on /\ changed THEN CheckToken(q) ELSE q
<1>1. q \in Pages
  BY PageFields
<1>2. SetState(p, v) = Watch(r)
  BY DEF SetState
<1>. HIDE DEF q
<1>3. Settles(q, r)
  BY <1>1, CheckTokenSettles, SettlesNot
<1>4. r \in Pages
  BY <1>3 DEF Settles
<1>. HIDE DEF r
<1>5. Settles(q, Watch(r))
  BY <1>1, <1>3, <1>4, WatchSettles, SettlesTwice
<1>. QED BY <1>1, <1>2, <1>5 DEF q

\* A page that starts is settled.
LEMMA StartSettles ==
  ASSUME setup \in Setups, Len(provider.of) \in Nat, NEW p \in Pages
  PROVE  /\ [p EXCEPT !.on = TRUE] \in Pages
         /\ Settles([p EXCEPT !.on = TRUE], UserStart(TokenStart(p)))
<1>. DEFINE q == [p EXCEPT !.on = TRUE]
            r == CheckToken(q)
            seen == <<IdOf(r.mem), IsAuthorized(r.mem)>>
            s == [r EXCEPT !.watched = seen]
<1>1. q \in Pages
  BY PageFields
<1>2. UserStart(TokenStart(p)) = Sync(s)
  BY DEF UserStart, TokenStart
<1>. HIDE DEF q
<1>3. Settles(q, r) /\ r \in Pages
  BY <1>1, CheckTokenSettles DEF Settles
<1>. HIDE DEF r
<1>4. seen \in Watched
  BY <1>3, DerivedAre DEF Pages, Watched
<1>. HIDE DEF seen
<1>5. Settles(q, s) /\ s \in Pages
  BY <1>1, <1>3, <1>4, SettlesProfile, SettlesTwice, PageFields
<1>. HIDE DEF s
<1>6. Settles(q, Sync(s))
  BY <1>1, <1>5, SyncSettles, SettlesTwice
<1>. QED BY <1>1, <1>2, <1>6 DEF q

-----------------------------------------------------------------------------
(* Types of the state. *)

ProviderTyped(v) ==
  /\ v \in [of : Seq(Logins), lapsed : SUBSET Issued, good : Seq({0} \cup Issued),
            code : Seq({"none", "ready", "used"}), home : Seq(Keys)]
  /\ Len(v.of) <= MaxIssued /\ Len(v.good) <= MaxLogins
  /\ Len(v.code) = Len(v.good) /\ Len(v.home) = Len(v.good)
  /\ \A a \in 1..Len(v.of) : v.of[a] <= Len(v.good)

\* The types of the state, with more of the provider than TypeOK says.
Typed ==
  /\ setup \in Setups /\ stored \in [Keys -> Token] /\ pending \in [Tabs -> SUBSET Keys] /\ tab \in [Tabs -> Pages]
  /\ ops \in 0..setup.ops /\ out \subseteq Logins /\ late \subseteq Issued /\ crossed \in BOOLEAN
  /\ took \subseteq ({0} \cup Logins) \X Logins
  /\ ProviderTyped(provider)

-----------------------------------------------------------------------------
(* Writes, in plain terms. *)

\* What the others have of a write of v at k by t; where v is there already it is none.
Spread(t, k, v) ==
  /\ stored' = [stored EXCEPT ![k] = v]
  /\ \A u \in Tabs \ {t} :
       /\ pending'[u] = IF v # stored[k] /\ Listening(u) THEN pending[u] \cup {k} ELSE pending[u]
       /\ tab'[u] = IF v # stored[k] /\ tab[u].at = "page" /\ ~tab[u].on /\ tab[u].key = k
                    THEN [tab[u] EXCEPT !.missed = TRUE] ELSE tab[u]

\* A step that writes nothing spreads what is stored,
LEMMA SilentSpreads ==
  ASSUME Typed, NEW t \in Tabs, NEW q \in Pages, NEW k \in Keys,
         tab' = [tab EXCEPT ![t] = q], stored' = stored, pending' = pending
  PROVE  Spread(t, k, stored[k]) /\ tab'[t] = q /\ tab' \in [Tabs -> Pages]
         /\ pending'[t] = pending[t] /\ pending' \in [Tabs -> SUBSET Keys]
BY DEF Typed, Spread

\* and one that writes spreads what it writes: the other tabs' pages are as they were, but for what
\* they missed.
LEMMA WriteSpreads ==
  ASSUME Typed, NEW t \in Tabs, NEW q \in Pages, NEW k \in Keys, NEW v \in Token,
         tab' = Missed(t, k, v, q), Write(t, k, v)
  PROVE  Spread(t, k, v) /\ tab'[t] = q /\ tab' \in [Tabs -> Pages]
         /\ pending'[t] = pending[t] /\ pending' \in [Tabs -> SUBSET Keys]
<1>1. \A u \in Tabs : tab[u] \in Pages /\ [tab[u] EXCEPT !.missed = TRUE] \in Pages
  BY PageFields DEF Typed
<1>2. tab' \in [Tabs -> Pages] /\ tab'[t] = q
  BY <1>1 DEF Missed
<1>3. pending' \in [Tabs -> SUBSET Keys] /\ pending'[t] = pending[t]
  BY DEF Write, Sent, Typed
<1>. QED BY <1>2, <1>3 DEF Typed, Missed, Write, Sent, Spread

\* The page is q, which had v or read it.
LEMMA SaveSpreads ==
  ASSUME Typed, NEW t \in Tabs, NEW q \in Pages, NEW v \in Token, Save(t, q, v)
  PROVE  /\ Spread(t, q.key, IF q.mem = v THEN stored[q.key] ELSE q.mem)
         /\ tab'[t] = q /\ tab' \in [Tabs -> Pages] /\ pending'[t] = pending[t] /\ pending' \in [Tabs -> SUBSET Keys]
         /\ late \subseteq late' /\ late' \subseteq late \cup {q.mem.access} /\ (q.mem = v => late' = late)
         /\ q.mem # v /\ (q.key \in pending[t] \/ q.missed) => q.mem.access \in late'
<1>1. q.key \in Keys /\ q.mem \in Token
  BY DEF Pages
<1>2. CASE q.mem = v
  BY <1>1, <1>2, SilentSpreads DEF Save
<1>3. CASE q.mem # v
  BY <1>1, <1>3, WriteSpreads DEF Save
<1>. QED BY <1>2, <1>3

\* The page is q, with v put in the place of its token, and settled.
LEMMA PutSpreads ==
  ASSUME Typed, NEW t \in Tabs, NEW q \in Pages, NEW v \in Token, Put(t, q, v)
  PROVE  /\ Spread(t, q.key, tab'[t].mem) /\ Settles([q EXCEPT !.mem = v], tab'[t]) /\ tab'[t] = SetState(q, v)
         /\ tab' \in [Tabs -> Pages] /\ pending'[t] = pending[t] /\ pending' \in [Tabs -> SUBSET Keys]
<1>. DEFINE r == SetState(q, v)
<1>1. [q EXCEPT !.mem = v] \in Pages /\ Settles([q EXCEPT !.mem = v], r)
  BY SetStateSettles DEF Typed, ProviderTyped
<1>2. r \in Pages /\ r.mem \in Token
  BY <1>1 DEF Settles, Pages
<1>3. r.key = q.key /\ q.key \in Keys
  BY <1>1 DEF Settles, Keeps, Pages
<1>4. tab' = Missed(t, r.key, r.mem, r) /\ Write(t, r.key, r.mem)
  BY DEF Put
<1>. HIDE DEF r
<1>5. Spread(t, r.key, r.mem) /\ tab'[t] = r /\ tab' \in [Tabs -> Pages]
      /\ pending'[t] = pending[t] /\ pending' \in [Tabs -> SUBSET Keys]
  BY <1>2, <1>3, <1>4, WriteSpreads
<1>. QED BY <1>1, <1>3, <1>5 DEF r

-----------------------------------------------------------------------------
(* What a page and the storage may hold: tokens that were issued, of logins at their tenant. *)

WorldOf(v, x, s) == [of |-> v.of, home |-> v.home, crossed |-> x,
                     rotates |-> s.rotates, openid |-> s.openid, pkce |-> s.pkce]
\* What tokens are judged by: the provider's issues and logins, and whether keys were switched under
\* way.
World == WorldOf(provider, crossed, setup)

\* Its types.
WorldTyped(W) ==
  /\ W.of \in Seq(Logins) /\ W.home \in Seq(Keys) /\ W.crossed \in BOOLEAN /\ Len(W.of) <= MaxIssued
  /\ \A a \in 1..Len(W.of) : W.of[a] <= Len(W.home)

\* A login is at the tenant of key k.
AtHome(W, l, k) == l <= Len(W.home) /\ (l # 0 => W.crossed \/ W.home[l] = k)

\* A token that may be held under key k: its refresh token is of the same login.
Good(W, w, k) ==
  /\ w.access <= Len(W.of)
  /\ w.access # 0 => AtHome(W, W.of[w.access], k)
  /\ w.refresh # 0 => w.access # 0 /\ w.refresh <= Len(W.of) /\ W.of[w.refresh] = W.of[w.access]

\* The answer of a check is for the login of the token it is of, and replaces a rotated refresh token.
GoodCheck(W, c, k) ==
  /\ Good(W, c.of, k) /\ c.of.refresh # 0
  /\ c.answer \in Token =>
       \/ c.answer = Failed
       \/ /\ Good(W, c.answer, k) /\ c.answer.access # 0
          /\ W.of[c.answer.access] = W.of[c.of.access] /\ (W.rotates => c.answer.refresh # 0)

\* A flow under way on a page of key k: its answer is of its own login, what it holds was held.
GoodFlow(W, f, k) ==
  /\ f.op = "call" => f.access <= Len(W.of)
  /\ f.op \in {"password", "callback"} =>
       /\ AtHome(W, f.login, k)
       /\ f.answer \in Token => Good(W, f.answer, k) /\ (f.answer.access # 0 => W.of[f.answer.access] = f.login)
  /\ f.op \in {"callback", "revoke"} => Good(W, f.held, k)
  /\ f.op = "callback" =>
       /\ CheckState(f.held, f.login)
       /\ f.answer \in Token /\ ~f.answer.error => (W.pkce => f.held.state = f.login)

\* A page: what it asked for, holds and awaits is of logins at its tenant, and it spent what was
\* issued.
GoodPage(W, p) ==
  /\ AtHome(W, p.asked, p.wanted) /\ AtHome(W, p.url, p.wanted) /\ Good(W, p.mem, p.key)
  /\ p.at = "page" => p.asked = 0 /\ (p.on => p.key = p.wanted)
  /\ p.key # p.wanted => W.crossed
  /\ p.spent \subseteq 1..Len(W.of) /\ (~W.rotates => p.spent = {})
  /\ p.check # None => GoodCheck(W, p.check, p.key)
  /\ p.flow # None => GoodFlow(W, p.flow, p.key)
  /\ p.sync # None => SyncIssued(Len(W.of), p.sync)

\* The profile follows the token of a page that listens: it is gone where there is none, a run of sync
\* is for the id_token there is, and has read its claims before it asks for more.
Follows(W, p) ==
  LET id == IF W.openid THEN p.mem.access ELSE 0 IN
  p.at = "page" /\ p.on =>
    /\ p.watched \in {id} \X BOOLEAN /\ (p.watched[2] => p.mem.access # 0)
    /\ id = 0 /\ ~p.watched[2] => p.user = 0 /\ p.sync = None
    /\ p.sync # None /\ W.openid => /\ p.sync.id = p.mem.access /\ p.sync.access \in {0, p.mem.access}
                                    /\ p.sync.pc # "claims" => p.user = W.of[p.mem.access]
    /\ p.sync = None /\ p.user # 0 /\ W.openid => p.user = W.of[p.mem.access]

\* The storage and every page hold such tokens, and every profile follows its token.
Sound ==
  /\ \A k \in Keys : Good(World, stored[k], k)
  /\ \A t \in Tabs : GoodPage(World, tab[t]) /\ Follows(World, tab[t])

\* What was issued and whose it is stays.
Grows(W, X) ==
  /\ Len(W.of) <= Len(X.of) /\ Len(W.home) <= Len(X.home)
  /\ \A a \in 1..Len(W.of) : X.of[a] = W.of[a]
  /\ \A l \in 1..Len(W.home) : X.home[l] = W.home[l]
  /\ (W.crossed => X.crossed) /\ X.rotates = W.rotates /\ X.openid = W.openid /\ X.pkce = W.pkce

\* The world only grows, and what was good in it stays so: a login,
LEMMA AtHomeKept ==
  ASSUME NEW W, NEW X, WorldTyped(W), WorldTyped(X), Grows(W, X), NEW l \in Nat, NEW k, AtHome(W, l, k)
  PROVE  AtHome(X, l, k)
BY DEF WorldTyped, Grows, AtHome

\* a token,
LEMMA GoodKept ==
  ASSUME NEW W, NEW X, WorldTyped(W), WorldTyped(X), Grows(W, X), NEW w \in Token, NEW k, Good(W, w, k)
  PROVE  Good(X, w, k)
<1>1. w.access \in Nat /\ w.refresh \in Nat /\ Len(W.of) \in Nat /\ Len(X.of) \in Nat
  BY DEF Token, WorldTyped, Issued
<1>2. w.access # 0 => W.of[w.access] \in Nat /\ X.of[w.access] = W.of[w.access]
  <2>1. w.access # 0 => w.access \in 1..Len(W.of)
    BY <1>1 DEF Good
  <2>2. \A a \in 1..Len(W.of) : W.of[a] \in Nat
    <3>1. W.of \in Seq(Logins)
      BY DEF WorldTyped
    <3>2. \A a \in 1..Len(W.of) : W.of[a] \in Logins
      BY <3>1
    <3>. QED BY <3>2 DEF Logins
  <2>. QED BY <2>1, <2>2 DEF Grows
<1>3. w.refresh # 0 => w.refresh \in 1..Len(W.of) /\ X.of[w.refresh] = W.of[w.refresh]
  BY <1>1 DEF Good, Grows
<1>4. w.access # 0 => AtHome(X, X.of[w.access], k)
  BY <1>2, AtHomeKept DEF Good
<1>. QED BY <1>1, <1>2, <1>3, <1>4 DEF Good, Grows

\* a check,
LEMMA GoodCheckKept ==
  ASSUME NEW W, NEW X, WorldTyped(W), WorldTyped(X), Grows(W, X), NEW c \in Checks, NEW k, GoodCheck(W, c, k)
  PROVE  GoodCheck(X, c, k)
<1>1. c.of \in Token /\ Good(X, c.of, k) /\ c.of.refresh # 0
  BY GoodKept, ChecksAre DEF GoodCheck
<1>2. ASSUME c.answer \in Token, c.answer # Failed
      PROVE  /\ Good(X, c.answer, k) /\ c.answer.access # 0
             /\ X.of[c.answer.access] = X.of[c.of.access] /\ (X.rotates => c.answer.refresh # 0)
  <2>1. Good(W, c.answer, k) /\ c.answer.access # 0 /\ Good(W, c.of, k) /\ c.of.access # 0
        /\ W.of[c.answer.access] = W.of[c.of.access] /\ (W.rotates => c.answer.refresh # 0)
    BY <1>2 DEF GoodCheck, Good
  <2>2. c.answer.access \in 1..Len(W.of) /\ c.of.access \in 1..Len(W.of)
    BY <1>1, <1>2, <2>1 DEF Good, Token, Issued, WorldTyped
  <2>. QED BY <1>2, <2>1, <2>2, GoodKept DEF Grows
<1>. QED BY <1>1, <1>2 DEF GoodCheck

\* Flows, by what they do.
LEMMA FlowsAre ==
  ASSUME NEW f \in Flows
  PROVE  /\ f # None /\ f.op \in {"call", "password", "callback", "revoke"}
         /\ f.op = "call" => f.pc \in {"waiting", "sent"} /\ f.access \in {0} \cup Issued
         /\ f.op = "password" => f.login \in Logins /\ f.answer \in Token \cup {None}
         /\ f.op = "callback" => f.held \in Token /\ f.login \in Logins /\ f.answer \in Token \cup {None, Lost}
         /\ f.op = "revoke" => f.held \in Token
BY NoneAssumption DEF Flows

\* a flow,
LEMMA GoodFlowKept ==
  ASSUME NEW W, NEW X, WorldTyped(W), WorldTyped(X), Grows(W, X), NEW f \in Flows, NEW k, GoodFlow(W, f, k)
  PROVE  GoodFlow(X, f, k)
<1>1. f.op = "call" => f.access <= Len(X.of)
  BY FlowsAre DEF GoodFlow, Grows, WorldTyped, Issued
<1>2. f.op \in {"password", "callback"} => f.login \in Nat /\ AtHome(X, f.login, k)
  BY FlowsAre, AtHomeKept DEF GoodFlow, Logins
<1>3. ASSUME f.op \in {"password", "callback"}, f.answer \in Token
      PROVE  Good(X, f.answer, k) /\ (f.answer.access # 0 => X.of[f.answer.access] = f.login)
  <2>1. Good(W, f.answer, k) /\ (f.answer.access # 0 => W.of[f.answer.access] = f.login)
    BY <1>3 DEF GoodFlow
  <2>2. f.answer.access # 0 => f.answer.access \in 1..Len(W.of)
    BY <1>3, <2>1 DEF Good, Token, Issued, WorldTyped
  <2>. QED BY <1>3, <2>1, <2>2, GoodKept DEF Grows
<1>4. f.op \in {"callback", "revoke"} => Good(X, f.held, k)
  BY FlowsAre, GoodKept DEF GoodFlow
<1>. QED BY <1>1, <1>2, <1>3, <1>4 DEF GoodFlow, Grows

\* a page,
LEMMA GoodPageKept ==
  ASSUME NEW W, NEW X, WorldTyped(W), WorldTyped(X), Grows(W, X), NEW p \in Pages, GoodPage(W, p)
  PROVE  GoodPage(X, p)
<1>1. p.asked \in Nat /\ p.url \in Nat /\ p.mem \in Token /\ p.check \in Checks \cup {None}
      /\ p.flow \in Flows \cup {None} /\ p.sync \in Syncs \cup {None}
  BY DEF Pages, Logins
<1>2. AtHome(X, p.asked, p.wanted) /\ AtHome(X, p.url, p.wanted) /\ Good(X, p.mem, p.key)
  BY <1>1, AtHomeKept, GoodKept DEF GoodPage
<1>3. (p.check # None => GoodCheck(X, p.check, p.key)) /\ (p.flow # None => GoodFlow(X, p.flow, p.key))
  BY <1>1, GoodCheckKept, GoodFlowKept DEF GoodPage
<1>4. p.sync # None => SyncIssued(Len(X.of), p.sync)
  BY <1>1 DEF GoodPage, SyncIssued, Syncs, Issued, Grows, WorldTyped
<1>5. p.spent \subseteq 1..Len(X.of)
  BY DEF GoodPage, Grows, WorldTyped
<1>. QED BY <1>2, <1>3, <1>4, <1>5 DEF GoodPage, Grows

\* and its profile.
LEMMA FollowsKept ==
  ASSUME NEW W, NEW X, WorldTyped(W), WorldTyped(X), Grows(W, X), NEW p \in Pages, p.mem.access <= Len(W.of), Follows(W, p)
  PROVE  Follows(X, p)
<1>1. p.mem.access # 0 => X.of[p.mem.access] = W.of[p.mem.access]
  <2>1. p.mem.access # 0 => p.mem.access \in 1..Len(W.of)
    BY DEF Pages, Token, Issued, WorldTyped
  <2>. QED BY <2>1 DEF Grows
<1>2. p.sync # None => p.sync.id \in Nat
  BY DEF Pages, Syncs, Issued
<1>3. CASE X.openid
  <2>1. W.openid
    BY <1>3 DEF Grows
  <2>. QED BY <1>1, <1>3, <2>1 DEF Follows
<1>4. CASE ~X.openid
  <2>1. ~W.openid
    BY <1>4 DEF Grows
  <2>. QED BY <1>4, <2>1 DEF Follows
<1>. QED BY <1>3, <1>4

\* All that the profile of a page is told by.
ProfileAs(p, q) ==
  q.at = p.at /\ q.on = p.on /\ q.mem.access = p.mem.access /\ q.watched = p.watched /\ q.sync = p.sync /\ q.user = p.user

\* A profile that is as it was follows its token as it did.
LEMMA FollowsAs ==
  ASSUME NEW W, NEW p, NEW q, ProfileAs(p, q), Follows(W, p)
  PROVE  Follows(W, q)
BY DEF ProfileAs, Follows

\* A look at the token leaves the profile.
LEMMA CheckTokenProfile ==
  ASSUME NEW p \in Pages
  PROVE  ProfileAs(p, CheckToken(p))
<1>1. p.mem \in Token
  BY DEF Pages
<1>2. \A x \in Token : x.access = p.mem.access => ProfileAs(p, [p EXCEPT !.mem = x])
  BY DEF ProfileAs, Pages
<1>3. \A x : ProfileAs(p, [p EXCEPT !.check = x])
  BY DEF ProfileAs, Pages
<1>4. [p.mem EXCEPT !.expires = TRUE] \in Token /\ [p.mem EXCEPT !.expires = TRUE].access = p.mem.access
  BY <1>1, TokensAre DEF Token
<1>5. [p EXCEPT !.mem.expires = TRUE] = [p EXCEPT !.mem = [p.mem EXCEPT !.expires = TRUE]]
  BY DEF Pages
<1>6. ProfileAs(p, p)
  BY DEF ProfileAs
<1>7. CheckToken(p) \in {p, [p EXCEPT !.mem.expires = TRUE], [p EXCEPT !.check = [of |-> p.mem, answer |-> None]]}
  BY DEF CheckToken
<1>. QED BY <1>2, <1>3, <1>4, <1>5, <1>6, <1>7

\* The profile that was asked for, with what it was asked with.
LEMMA AskIs ==
  ASSUME setup \in Setups, NEW p \in Pages, NEW id \in {0} \cup Issued
  PROVE  LET q == AskUserInfo(p, id) IN
         /\ q.at = p.at /\ q.on = p.on /\ q.mem.access = p.mem.access /\ q.watched = p.watched /\ q.user = p.user
         /\ q.sync \in Syncs /\ q.sync.pc # "claims" /\ q.sync.id = id /\ q.sync.access \in {0, p.mem.access}
<1>. DEFINE r == CheckToken(p)
            s == [pc |-> IF r.check = None THEN "sent" ELSE "waiting", id |-> id,
                  access |-> IF r.check = None THEN AccessToken(r.mem) ELSE 0]
<1>1. r \in Pages /\ ProfileAs(p, r)
  BY CheckTokenSettles, CheckTokenProfile DEF Settles
<1>2. AskUserInfo(p, id) = [r EXCEPT !.sync = s]
  BY DEF AskUserInfo
<1>3. r.mem \in Token
  BY <1>1 DEF Pages
<1>. HIDE DEF r
<1>4. s.access \in {0, p.mem.access} /\ s.access \in {0} \cup Issued /\ s.id = id /\ s.pc \in {"sent", "waiting"}
  BY <1>1, <1>3, DerivedAre DEF ProfileAs
<1>5. s \in Syncs
  BY <1>4 DEF Syncs
<1>. HIDE DEF s
<1>6. LET q == [r EXCEPT !.sync = s] IN
      q.sync = s /\ q.at = r.at /\ q.on = r.on /\ q.mem = r.mem /\ q.watched = r.watched /\ q.user = r.user
  BY <1>1 DEF Pages
<1>. QED BY <1>1, <1>2, <1>4, <1>5, <1>6 DEF ProfileAs

\* A run of sync for the token that the watcher has seen.
LEMMA SyncFollows ==
  ASSUME setup \in Setups, NEW p \in Pages, NEW b \in BOOLEAN, p.watched = <<IdOf(p.mem), b>>,
         b => p.mem.access # 0, IsAuthorized(p.mem) => b
  PROVE  Follows(World, Sync(p))
<1>. DEFINE id == IdOf(p.mem)
            asks == IsAuthorized(p.mem) /\ setup.userPath
            s == [pc |-> "claims", id |-> id, access |-> 0]
<1>1. World.openid = setup.openid /\ id = IF World.openid THEN p.mem.access ELSE 0
  BY DEF World, WorldOf, IdOf
<1>2. CASE id = 0 /\ ~asks
  <2>. DEFINE q == Sync(p)
  <2>1. q = [p EXCEPT !.user = 0, !.sync = None]
    BY <1>2 DEF Sync
  <2>2. q.user = 0 /\ q.sync = None /\ q.mem = p.mem /\ q.watched = p.watched
    BY <2>1 DEF Pages
  <2>. QED BY <1>1, <2>2 DEF Follows
<1>3. CASE id # 0
  <2>. DEFINE q == Sync(p)
  <2>1. q = [p EXCEPT !.sync = s]
    BY <1>3 DEF Sync
  <2>2. q.sync = s /\ q.mem = p.mem /\ q.watched = p.watched
    BY <2>1 DEF Pages
  <2>3. s # None
    <3>1. s \in Syncs
      BY DerivedAre DEF Pages, Syncs
    <3>. QED BY <3>1, NoneAssumption
  <2>4. q.sync.id = id /\ q.sync.access = 0 /\ q.sync.pc = "claims" /\ q.sync # None
        /\ q.watched = <<id, b>> /\ q.mem.access = p.mem.access
    BY <2>2, <2>3
  <2>. HIDE DEF q, id
  <2>5. q.watched \in {id} \X BOOLEAN /\ q.watched[2] = b
    BY <2>4
  <2>6. Follows(World, q)
    BY <1>1, <1>3, <2>4, <2>5 DEF Follows
  <2>. QED BY <2>6 DEF q
<1>4. CASE id = 0 /\ asks
  <2>. DEFINE q == Sync(p)
  <2>1. q = AskUserInfo(p, 0)
    BY <1>4 DEF Sync
  <2>2. q.mem.access = p.mem.access /\ q.watched = p.watched /\ q.sync # None
    BY <2>1, AskIs, NoneAssumption
  <2>3. b /\ p.mem.access # 0 /\ ~World.openid
    BY <1>1, <1>4 DEF IsAuthorized
  <2>. HIDE DEF q, id
  <2>4. q.watched \in {id} \X BOOLEAN /\ q.watched[2] = b
    BY <2>2 DEF id
  <2>5. Follows(World, q)
    BY <1>1, <2>2, <2>3, <2>4 DEF Follows
  <2>. QED BY <2>5 DEF q
<1>. HIDE DEF id, asks
<1>. QED BY <1>2, <1>3, <1>4

\* Nobody is authorized by a token without an access token.
LEMMA AuthorizedIs ==
  ASSUME NEW w, IsAuthorized(w)
  PROVE  w.access # 0
BY DEF IsAuthorized

\* The profile follows a token that is set (user.ts:30-50),
LEMMA SetStateFollows ==
  ASSUME setup \in Setups, Len(provider.of) \in Nat, NEW p \in Pages, NEW v \in Token, Follows(World, p)
  PROVE  Follows(World, SetState(p, v))
<1>. DEFINE q == [p EXCEPT !.mem = v]
            changed == v.access # p.mem.access /\ v.access # 0
            r == IF p.on /\ changed THEN CheckToken(q) ELSE q
            seen == <<IdOf(r.mem), IsAuthorized(r.mem)>>
            w == [r EXCEPT !.watched = seen]
<1>1. q \in Pages /\ q.at = p.at /\ q.on = p.on /\ q.mem = v /\ q.watched = p.watched /\ q.sync = p.sync /\ q.user = p.user
  <2>1. q \in Pages
    BY PageFields
  <2>2. q.at = p.at /\ q.on = p.on /\ q.mem = v /\ q.watched = p.watched /\ q.sync = p.sync /\ q.user = p.user
    BY DEF Pages
  <2>. QED BY <2>1, <2>2
<1>2. SetState(p, v) = Watch(r)
  BY DEF SetState
<1>. HIDE DEF q
<1>3. r \in Pages /\ ProfileAs(q, r)
  BY <1>1, CheckTokenSettles, CheckTokenProfile DEF ProfileAs, Settles
<1>. HIDE DEF r
<1>4. r.mem \in Token /\ IsAuthorized(r.mem) \in BOOLEAN /\ seen \in Watched
  BY <1>3, DerivedAre DEF Pages, Watched
<1>5. CASE ~r.on
  <2>1. Watch(r) = r /\ ~r.on
    BY <1>5 DEF Watch
  <2>. QED BY <1>2, <2>1 DEF Follows
<1>6. CASE r.at # "page"
  <2>1. (SetState(p, v)).at # "page"
    BY <1>1, <1>3, <1>6, SetStateSettles DEF Settles, Keeps, ProfileAs, q
  <2>. QED BY <2>1 DEF Follows
<1>7. CASE r.on /\ r.at = "page" /\ seen = r.watched
  <2>1. Watch(r) = r
    BY <1>7 DEF Watch
  <2>2. World.openid = setup.openid /\ IdOf(r.mem) = (IF World.openid THEN r.mem.access ELSE 0)
    BY DEF World, WorldOf, IdOf
  <2>3. p.on /\ p.at = "page" /\ p.watched = <<IdOf(r.mem), IsAuthorized(r.mem)>> /\ r.sync = p.sync /\ r.user = p.user
    BY <1>1, <1>3, <1>7 DEF ProfileAs
  <2>4. p.watched[1] = (IF World.openid THEN p.mem.access ELSE 0) /\ p.watched[2] = IsAuthorized(r.mem)
    BY <2>3 DEF Follows
  <2>5. World.openid => p.mem.access = r.mem.access
    BY <2>2, <2>3, <2>4
  <2>6. IsAuthorized(r.mem) => r.mem.access # 0
    BY AuthorizedIs
  <2>. QED BY <1>2, <1>4, <1>7, <2>1, <2>2, <2>3, <2>4, <2>5, <2>6 DEF Follows
<1>8. CASE r.on /\ seen # r.watched
  <2>1. Watch(r) = Sync(w)
    BY <1>8 DEF Watch
  <2>2. w \in Pages
    BY <1>3, <1>4, PageFields
  <2>3. w.watched = seen /\ w.mem = r.mem
    BY <1>3 DEF Pages
  <2>. HIDE DEF w
  <2>4. Follows(World, Sync(w))
    BY <1>4, <2>2, <2>3, SyncFollows, AuthorizedIs
  <2>. QED BY <1>2, <2>1, <2>4
<1>. QED BY <1>5, <1>6, <1>7, <1>8

\* and the token a page starts with.
LEMMA StartFollows ==
  ASSUME setup \in Setups, Len(provider.of) \in Nat, NEW p \in Pages
  PROVE  Follows(World, UserStart(TokenStart(p)))
<1>. DEFINE r == TokenStart(p)
            seen == <<IdOf(r.mem), IsAuthorized(r.mem)>>
            w == [r EXCEPT !.watched = seen]
<1>1. r \in Pages
  BY PageFields, CheckTokenSettles DEF TokenStart, Settles
<1>2. UserStart(r) = Sync(w)
  BY DEF UserStart
<1>. HIDE DEF r
<1>3. r.mem \in Token /\ IsAuthorized(r.mem) \in BOOLEAN /\ seen \in Watched
  BY <1>1, DerivedAre DEF Pages, Watched
<1>4. w \in Pages /\ w.watched = seen /\ w.mem = r.mem
  <2>1. w \in Pages
    BY <1>1, <1>3, PageFields
  <2>2. w.watched = seen /\ w.mem = r.mem
    BY <1>1 DEF Pages
  <2>. QED BY <2>1, <2>2
<1>. HIDE DEF w
<1>5. Follows(World, Sync(w))
  BY <1>3, <1>4, SyncFollows, AuthorizedIs
<1>. QED BY <1>2, <1>5 DEF r

\* The world of a provider of the right types.
LEMMA WorldIs ==
  ASSUME NEW v, ProviderTyped(v), NEW x \in BOOLEAN, NEW s
  PROVE  WorldTyped(WorldOf(v, x, s))
BY DEF ProviderTyped, WorldOf, WorldTyped

\* Tokens that are alike differ in their expiry only,
LEMMA AlikeIs ==
  ASSUME NEW w \in Token, NEW v, Alike(v, w)
  PROVE  v \in Token /\ v.access = w.access /\ v.refresh = w.refresh /\ v.state = w.state /\ v.error = w.error
BY TokensAre DEF Alike, Token

\* and are as good.
LEMMA GoodAlike ==
  ASSUME NEW W, NEW w \in Token, NEW v, NEW k, Alike(v, w), Good(W, w, k)
  PROVE  Good(W, v, k)
BY AlikeIs DEF Good

\* A page that settles is as good as it was.
LEMMA GoodSettles ==
  ASSUME NEW W, WorldTyped(W), NEW p \in Pages, NEW q, Settles(p, q), GoodPage(W, p),
         Len(provider.of) \in Nat, Len(provider.of) <= Len(W.of), p.mem.access <= Len(provider.of)
  PROVE  GoodPage(W, q)
<1>1. q \in Pages /\ Keeps(p, q) /\ p.mem \in Token /\ q.mem \in Token /\ q.key = p.key
  BY DEF Settles, Pages, Keeps
<1>2. Good(W, q.mem, p.key)
  BY <1>1, GoodAlike DEF Settles, GoodPage
<1>3. q.check # None => GoodCheck(W, q.check, p.key)
  <2>1. CASE q.check = p.check
    BY <2>1 DEF GoodPage
  <2>2. CASE q.check = [of |-> q.mem, answer |-> None] /\ q.mem.refresh # 0
    BY <1>2, <2>2, NoneAssumption DEF GoodCheck
  <2>. QED BY <2>1, <2>2 DEF Settles
<1>4. q.sync # None => SyncIssued(Len(W.of), q.sync)
  <2>1. q.sync \in {p.sync, None} \/ SyncIssued(Len(provider.of), q.sync)
    BY DEF Settles
  <2>2. ASSUME q.sync # None, SyncIssued(Len(provider.of), q.sync)
        PROVE  SyncIssued(Len(W.of), q.sync)
    <3>1. q.sync \in Syncs
      BY <1>1, <2>2 DEF Pages
    <3>. QED BY <2>2, <3>1 DEF SyncIssued, Syncs, Issued, WorldTyped
  <2>. QED BY <2>1, <2>2 DEF GoodPage
<1>. QED BY <1>1, <1>2, <1>3, <1>4 DEF GoodPage, Keeps

-----------------------------------------------------------------------------
(* The provider's steps. *)

\* It may end a login, or take note of a code, or of a lapse.
LEMMA LoginEnds ==
  ASSUME NEW v, ProviderTyped(v), NEW l, NEW b \in {0} \cup Issued
  PROVE  /\ ProviderTyped([v EXCEPT !.good[l] = b])
         /\ [v EXCEPT !.good[l] = b].of = v.of /\ [v EXCEPT !.good[l] = b].home = v.home
         /\ [v EXCEPT !.good[l] = b].code = v.code
<1>. DEFINE g == [v.good EXCEPT ![l] = b]
<1>1. v.good \in Seq({0} \cup Issued) /\ (l \in 1..Len(v.good) \/ g = v.good)
  BY DEF ProviderTyped
<1>2. g \in Seq({0} \cup Issued) /\ Len(g) = Len(v.good)
  <2>1. CASE l \in 1..Len(v.good)
    BY <1>1, <2>1, ExceptSeq
  <2>2. CASE g = v.good
    BY <1>1, <2>2
  <2>. QED BY <1>1, <2>1, <2>2
<1>3. [v EXCEPT !.good[l] = b] = [v EXCEPT !.good = g]
  OBVIOUS
<1>. HIDE DEF g
<1>. QED BY <1>2, <1>3 DEF ProviderTyped

\* The provider with b as the refresh token login l is good for.
WithGood(v, l, b) == [v EXCEPT !.good[l] = b]

\* The same by name.
LEMMA WithGoodIs ==
  ASSUME NEW v, ProviderTyped(v), NEW l, NEW b \in {0} \cup Issued
  PROVE  LET x == WithGood(v, l, b) IN ProviderTyped(x) /\ x.of = v.of /\ x.home = v.home /\ x.code = v.code
<1>. DEFINE x == WithGood(v, l, b)
<1>1. x = [v EXCEPT !.good[l] = b]
  BY DEF WithGood
<1>2. ProviderTyped([v EXCEPT !.good[l] = b])
  BY LoginEnds
<1>3. ProviderTyped(x)
  BY <1>1, <1>2
<1>4. x.of = v.of /\ x.home = v.home /\ x.code = v.code
  BY <1>1 DEF ProviderTyped
<1>. QED BY <1>3, <1>4

\* It may take note of what has become of a code,
LEMMA CodeNoted ==
  ASSUME NEW v, ProviderTyped(v), NEW l, NEW c \in {"none", "ready", "used"}
  PROVE  /\ ProviderTyped([v EXCEPT !.code[l] = c])
         /\ [v EXCEPT !.code[l] = c].of = v.of /\ [v EXCEPT !.code[l] = c].home = v.home
         /\ [v EXCEPT !.code[l] = c].code = [v.code EXCEPT ![l] = c]
<1>. DEFINE g == [v.code EXCEPT ![l] = c]
<1>1. v.code \in Seq({"none", "ready", "used"}) /\ (l \in 1..Len(v.code) \/ g = v.code)
  BY DEF ProviderTyped
<1>2. g \in Seq({"none", "ready", "used"}) /\ Len(g) = Len(v.code)
  <2>1. CASE l \in 1..Len(v.code)
    BY <1>1, <2>1, ExceptSeq
  <2>2. CASE g = v.code
    BY <1>1, <2>2
  <2>. QED BY <1>1, <2>1, <2>2
<1>3. [v EXCEPT !.code[l] = c] = [v EXCEPT !.code = g]
  OBVIOUS
<1>4. [v EXCEPT !.code = g].code = g
  BY DEF ProviderTyped
<1>. HIDE DEF g
<1>5. ProviderTyped([v EXCEPT !.code = g]) /\ [v EXCEPT !.code = g].of = v.of /\ [v EXCEPT !.code = g].home = v.home
  BY <1>2, <1>3 DEF ProviderTyped
<1>. QED BY <1>3, <1>4, <1>5 DEF g

\* and of an access token that has lapsed.
LEMMA LapseNoted ==
  ASSUME NEW v, ProviderTyped(v), NEW a \in Issued
  PROVE  LET w == [v EXCEPT !.lapsed = @ \cup {a}] IN
         ProviderTyped(w) /\ w.of = v.of /\ w.home = v.home /\ w.code = v.code
BY DEF ProviderTyped

\* It issues an access token for a login, which comes next.
LEMMA ProviderIssues ==
  ASSUME ProviderTyped(provider), NEW l \in Logins, l <= Len(provider.good), Len(provider.of) < MaxIssued
  PROVE  LET a == Len(provider.of) + 1 IN
         /\ a \in Issued
         /\ \A w \in {Issue(l), [provider EXCEPT !.of = Append(@, l)]} :
              /\ ProviderTyped(w) /\ w.home = provider.home /\ w.code = provider.code
              /\ Len(w.of) = a /\ w.of[a] = l /\ \A b \in 1..Len(provider.of) : w.of[b] = provider.of[b]
<1>. DEFINE a == Len(provider.of) + 1
            o == Append(provider.of, l)
            w == [provider EXCEPT !.of = o]
<1>1. Len(provider.of) \in Nat /\ a \in Issued
  BY ClientAssumption DEF ProviderTyped, Issued
<1>2. o \in Seq(Logins) /\ Len(o) = a /\ o[a] = l /\ \A b \in 1..Len(provider.of) : o[b] = provider.of[b]
  BY DEF ProviderTyped
<1>3. \A b \in 1..Len(o) : o[b] <= Len(provider.good)
  BY <1>1, <1>2 DEF ProviderTyped
<1>4. Len(o) <= MaxIssued
  BY <1>1, <1>2 DEF Issued
<1>5. Issue(l) = [w EXCEPT !.good[l] = a]
  BY DEF Issue, ProviderTyped
<1>6. w.of = o /\ w.home = provider.home /\ w.code = provider.code
  BY DEF ProviderTyped
<1>. HIDE DEF o
<1>7. ProviderTyped(w)
  BY <1>2, <1>3, <1>4 DEF ProviderTyped
<1>. HIDE DEF w, a
<1>8. /\ ProviderTyped(Issue(l)) /\ Issue(l).of = w.of /\ Issue(l).home = w.home /\ Issue(l).code = w.code
  <2>1. a \in {0} \cup Issued
    BY <1>1 DEF a
  <2>2. LET x == WithGood(w, l, a) IN ProviderTyped(x) /\ x.of = w.of /\ x.home = w.home /\ x.code = w.code
    BY <1>7, <2>1, WithGoodIs
  <2>. QED BY <1>5, <2>2 DEF WithGood
<1>9. [provider EXCEPT !.of = Append(@, l)] = w
  BY DEF w, o
<1>10. Len(w.of) = a /\ w.of[a] = l /\ \A b \in 1..Len(provider.of) : w.of[b] = provider.of[b]
  BY <1>2, <1>6 DEF a
<1>. QED BY <1>1, <1>6, <1>7, <1>8, <1>9, <1>10 DEF a

\* It comes to have one login more.
LEMMA ProviderAttempts ==
  ASSUME ProviderTyped(provider), NEW k \in Keys, NextLogin \in Logins
  PROVE  LET w == Attempt(k) IN
         /\ ProviderTyped(w) /\ w.of = provider.of /\ NextLogin = Len(provider.good) + 1
         /\ Len(w.home) = NextLogin /\ w.home[NextLogin] = k /\ w.code[NextLogin] = "none"
         /\ \A l \in 1..Len(provider.home) : w.home[l] = provider.home[l] /\ w.code[l] = provider.code[l]
<1>. DEFINE g == Append(provider.good, 0)
            c == Append(provider.code, "none")
            h == Append(provider.home, k)
            n == Len(provider.good)
<1>1. n \in Nat /\ n + 1 <= MaxLogins /\ n + 1 = NextLogin
  BY DEF ProviderTyped, NextLogin, Logins
<1>2. g \in Seq({0} \cup Issued) /\ Len(g) = n + 1
  BY DEF ProviderTyped
<1>3. c \in Seq({"none", "ready", "used"}) /\ Len(c) = n + 1 /\ c[n + 1] = "none" /\ \A l \in 1..n : c[l] = provider.code[l]
  BY DEF ProviderTyped
<1>4. h \in Seq(Keys) /\ Len(h) = n + 1 /\ h[n + 1] = k /\ \A l \in 1..n : h[l] = provider.home[l]
  BY DEF ProviderTyped
<1>5. Attempt(k) = [provider EXCEPT !.good = g, !.code = c, !.home = h]
  BY DEF Attempt
<1>6. n = Len(provider.home)
  BY DEF ProviderTyped
<1>7. \A b \in 1..Len(provider.of) : provider.of[b] <= n + 1
  <2>1. \A b \in 1..Len(provider.of) : provider.of[b] \in Logins /\ provider.of[b] <= n
    BY DEF ProviderTyped
  <2>. QED BY <1>1, <2>1 DEF Logins
<1>. HIDE DEF g, c, h, n
<1>. DEFINE w == [provider EXCEPT !.good = g, !.code = c, !.home = h]
<1>8. w.of = provider.of /\ w.home = h /\ w.code = c /\ w.good = g
  BY DEF ProviderTyped
<1>9. w \in [of : Seq(Logins), lapsed : SUBSET Issued, good : Seq({0} \cup Issued),
            code : Seq({"none", "ready", "used"}), home : Seq(Keys)]
  BY <1>2, <1>3, <1>4 DEF ProviderTyped
<1>10. ProviderTyped(w)
  BY <1>1, <1>2, <1>3, <1>4, <1>7, <1>8, <1>9 DEF ProviderTyped
<1>. HIDE DEF w
<1>. QED BY <1>1, <1>3, <1>4, <1>5, <1>6, <1>8, <1>10 DEF w, n

-----------------------------------------------------------------------------
(* A step of a page, as far as it can be told from what is stored and what pages have. *)

\* A page that is owed no event, and missed none, has what is stored; one that is owed listens.
Synced ==
  \A t \in Tabs :
    /\ pending[t] # {} => Listening(t)
    /\ tab[t].at = "page" /\ tab[t].key \notin pending[t] /\ ~tab[t].missed => tab[t].mem = stored[tab[t].key]

\* The page t wrote v at k and has it, or nothing of that has changed, or it went away.
Heard(t, k, v) ==
  /\ pending'[t] # {} => tab'[t].at = "page" /\ tab'[t].on
  /\ \/ tab'[t].at = "away"
     \/ k = tab'[t].key /\ v = tab'[t].mem
     \/ /\ tab[t].at = "page" /\ tab'[t].mem = tab[t].mem /\ tab'[t].key = tab[t].key /\ v = stored[k]
        /\ tab[t].key \in pending[t] \/ tab[t].missed => tab'[t].key \in pending'[t] \/ tab'[t].missed

\* What every step of tab t is: its page becomes a good one, v is stored under k and spreads, the
\* world grows.
Moves(t, k, v) ==
  /\ setup' = setup /\ ops' \in 0..setup.ops /\ out' \subseteq Logins /\ late' \subseteq Issued /\ crossed' \in BOOLEAN
  /\ took' \subseteq ({0} \cup Logins) \X Logins /\ ProviderTyped(provider') /\ Grows(World, World')
  /\ k \in Keys /\ v \in Token /\ Spread(t, k, v)
  /\ tab' \in [Tabs -> Pages] /\ pending' \in [Tabs -> SUBSET Keys]
  /\ Good(World', v, k) /\ GoodPage(World', tab'[t]) /\ Follows(World', tab'[t]) /\ Heard(t, k, v)

\* An event a page misses changes nothing else of it.
LEMMA MissedKeeps ==
  ASSUME NEW p \in Pages
  PROVE  LET q == [p EXCEPT !.missed = TRUE] IN
         /\ q.missed
         /\ q.at = p.at /\ q.asked = p.asked /\ q.url = p.url /\ q.key = p.key /\ q.wanted = p.wanted /\ q.on = p.on
         /\ q.flow = p.flow /\ q.spent = p.spent /\ q.mem = p.mem /\ q.check = p.check /\ q.sync = p.sync
         /\ q.user = p.user /\ q.watched = p.watched
BY DEF Pages

\* The other tabs in a step: each is as it was, but for what it missed.
LEMMA SpreadOthers ==
  ASSUME Typed, NEW t \in Tabs, NEW k \in Keys, NEW v, Spread(t, k, v), NEW u \in Tabs, u # t
  PROVE  /\ tab'[u].at = tab[u].at /\ tab'[u].asked = tab[u].asked /\ tab'[u].url = tab[u].url
         /\ tab'[u].key = tab[u].key /\ tab'[u].wanted = tab[u].wanted /\ tab'[u].on = tab[u].on
         /\ tab'[u].flow = tab[u].flow /\ tab'[u].spent = tab[u].spent /\ tab'[u].mem = tab[u].mem
         /\ tab'[u].check = tab[u].check /\ tab'[u].sync = tab[u].sync
         /\ tab'[u].user = tab[u].user /\ tab'[u].watched = tab[u].watched
<1>1. tab[u] \in Pages
  BY DEF Typed
<1>. DEFINE q == [tab[u] EXCEPT !.missed = TRUE]
<1>2. tab'[u] \in {tab[u], q}
  BY DEF Spread
<1>3. /\ q.at = tab[u].at /\ q.asked = tab[u].asked /\ q.url = tab[u].url
      /\ q.key = tab[u].key /\ q.wanted = tab[u].wanted /\ q.on = tab[u].on
      /\ q.flow = tab[u].flow /\ q.spent = tab[u].spent /\ q.mem = tab[u].mem
      /\ q.check = tab[u].check /\ q.sync = tab[u].sync
      /\ q.user = tab[u].user /\ q.watched = tab[u].watched
  BY <1>1, MissedKeeps
<1>. HIDE DEF q
<1>. QED BY <1>2, <1>3

\* The world in a state of the right types.
LEMMA WorldTypes ==
  ASSUME Typed
  PROVE  /\ WorldTyped(World) /\ World.of = provider.of /\ World.home = provider.home /\ World.crossed = crossed
         /\ World.rotates = setup.rotates /\ World.openid = setup.openid /\ World.pkce = setup.pkce
         /\ Len(provider.of) \in Nat /\ Len(provider.home) = Len(provider.good) /\ Len(provider.home) \in Nat
<1>1. WorldTyped(World)
  BY WorldIs DEF Typed, World
<1>. QED BY <1>1 DEF World, WorldOf, WorldTyped, Typed, ProviderTyped

\* Such a step keeps the types,
LEMMA MovesTyped ==
  ASSUME Typed, NEW t \in Tabs, NEW k, NEW v, Moves(t, k, v)
  PROVE  Typed'
<1>1. stored' \in [Keys -> Token]
  BY DEF Moves, Spread, Typed
<1>. QED BY <1>1 DEF Moves, Typed

\* what is held sound,
LEMMA MovesSound ==
  ASSUME Typed, Sound, NEW t \in Tabs, NEW k, NEW v, Moves(t, k, v)
  PROVE  Sound'
<1>1. WorldTyped(World) /\ WorldTyped(World') /\ Grows(World, World')
  BY WorldIs DEF Typed, Moves, World
<1>2. k \in Keys /\ v \in Token /\ Spread(t, k, v) /\ Good(World', v, k) /\ GoodPage(World', tab'[t])
      /\ Follows(World', tab'[t])
  BY DEF Moves
<1>3. ASSUME NEW j \in Keys
      PROVE  Good(World', stored'[j], j)
  <2>1. stored[j] \in Token /\ Good(World, stored[j], j)
    BY DEF Typed, Sound
  <2>2. Good(World', stored[j], j)
    BY <1>1, <2>1, GoodKept
  <2>. QED BY <1>2, <2>2 DEF Spread, Typed
<1>4. ASSUME NEW u \in Tabs, u # t
      PROVE  GoodPage(World', tab'[u]) /\ Follows(World', tab'[u])
  <2>1. tab[u] \in Pages /\ GoodPage(World, tab[u]) /\ Follows(World, tab[u]) /\ tab[u].mem.access <= Len(World.of)
    BY DEF Typed, Sound, GoodPage, Good
  <2>2. GoodPage(World', tab[u]) /\ Follows(World', tab[u])
    BY <1>1, <2>1, GoodPageKept, FollowsKept
  <2>3. GoodPage(World', tab'[u])
    BY <1>2, <1>4, <2>2, SpreadOthers DEF GoodPage
  <2>4. Follows(World', tab'[u])
    BY <1>2, <1>4, <2>2, SpreadOthers, FollowsAs DEF ProfileAs
  <2>. QED BY <2>3, <2>4
<1>. QED BY <1>2, <1>3, <1>4 DEF Sound

\* and the pages that listen in step with the storage.
LEMMA MovesSynced ==
  ASSUME Typed, Synced, NEW t \in Tabs, NEW k, NEW v, Moves(t, k, v)
  PROVE  Synced'
<1>1. k \in Keys /\ v \in Token /\ Spread(t, k, v) /\ Heard(t, k, v) /\ stored \in [Keys -> Token]
      /\ stored' = [stored EXCEPT ![k] = v] /\ tab'[t].key \in Keys
  BY DEF Moves, Typed, Spread, Pages
<1>2. pending'[t] # {} => Listening(t)'
  BY <1>1 DEF Heard, Listening
<1>3. tab'[t].at = "page" /\ tab'[t].key \notin pending'[t] /\ ~tab'[t].missed => tab'[t].mem = stored'[tab'[t].key]
  <2>1. CASE k = tab'[t].key /\ v = tab'[t].mem
    BY <1>1, <2>1
  <2>2. CASE /\ tab[t].at = "page" /\ tab'[t].mem = tab[t].mem /\ tab'[t].key = tab[t].key /\ v = stored[k]
             /\ tab[t].key \in pending[t] \/ tab[t].missed => tab'[t].key \in pending'[t] \/ tab'[t].missed
    BY <1>1, <2>2 DEF Synced
  <2>. QED BY <1>1, <2>1, <2>2 DEF Heard
<1>4. ASSUME NEW u \in Tabs, u # t
      PROVE  /\ pending'[u] # {} => Listening(u)'
             /\ tab'[u].at = "page" /\ tab'[u].key \notin pending'[u] /\ ~tab'[u].missed =>
                  tab'[u].mem = stored'[tab'[u].key]
  <2>1. /\ tab'[u].at = tab[u].at /\ tab'[u].key = tab[u].key /\ tab'[u].on = tab[u].on /\ tab'[u].mem = tab[u].mem
        /\ tab[u].key \in Keys /\ tab[u] \in Pages
    BY <1>1, <1>4, SpreadOthers DEF Typed, Pages
  <2>2. pending'[u] = IF v # stored[k] /\ Listening(u) THEN pending[u] \cup {k} ELSE pending[u]
    BY <1>1, <1>4 DEF Spread
  <2>3. tab'[u] = IF v # stored[k] /\ tab[u].at = "page" /\ ~tab[u].on /\ tab[u].key = k
                  THEN [tab[u] EXCEPT !.missed = TRUE] ELSE tab[u]
    BY <1>1, <1>4 DEF Spread
  <2>4. [tab[u] EXCEPT !.missed = TRUE].missed
    BY <2>1, MissedKeeps
  <2>5. pending'[u] # {} => Listening(u)'
    BY <2>1, <2>2 DEF Synced, Listening
  <2>6. tab[u].at = "page" /\ tab[u].key \notin pending[u] /\ ~tab[u].missed => tab[u].mem = stored[tab[u].key]
    BY DEF Synced
  <2>7. tab'[u].missed \/ tab'[u].missed = tab[u].missed
    BY <2>3, <2>4
  <2>8. CASE v # stored[k] /\ tab[u].key = k /\ tab[u].at = "page"
    BY <2>1, <2>2, <2>3, <2>4, <2>5, <2>8 DEF Listening
  <2>9. CASE ~(v # stored[k] /\ tab[u].key = k)
    BY <1>1, <2>1, <2>2, <2>3, <2>5, <2>6, <2>9
  <2>. QED BY <2>1, <2>5, <2>8, <2>9
<1>. QED BY <1>2, <1>3, <1>4 DEF Synced

-----------------------------------------------------------------------------
(* Where the tokens of a step come from. *)

Numbers(w) == <<w.access, w.refresh>>
\* Tokens of the same numbers, and tokens without any.
Same(v, w) == v.access = w.access /\ v.refresh = w.refresh
Blank(v) == v.access = 0 /\ v.refresh = 0

\* The numbers that a flow holds, a check is of, and a page has.
HeldBy(f) == IF f # None /\ f.op \in {"callback", "revoke"} THEN {Numbers(f.held)} ELSE {}
CheckedBy(c) == IF c # None THEN {Numbers(c.of)} ELSE {}
NumbersOf(p) == {Numbers(p.mem)} \cup CheckedBy(p.check) \cup HeldBy(p.flow)

\* What is stored and held, all answers on their way left out.
Around == {Numbers(stored[k]) : k \in Keys} \cup UNION {NumbersOf(tab[t]) : t \in Tabs}

\* The login a sign-in has the tokens of, on their way; and the refresh token in a check's answer.
FlowLogin(f) ==
  IF f # None /\ f.op \in {"password", "callback"} /\ f.answer \in Token /\ f.answer.access # 0 THEN f.login ELSE 0
\* The refresh token that the answer of a check brings.
CheckNumber(c) == IF c # None /\ c.answer \in Token THEN c.answer.refresh ELSE 0

\* The login the user is about to have.
Awaited(p) ==
  IF p.at = "away" THEN p.asked
  ELSE IF p.flow # None /\ p.flow.op = "password" /\ p.flow.answer = None THEN p.flow.login ELSE 0

\* Tokens that page t and the storage come to have were around before, or are of S.
Plain(t, v, S) ==
  /\ provider'.of = provider.of
  /\ out' \subseteq out \cup {provider.of[n[1]] : n \in {m \in Around : m[1] # 0}}
  /\ FlowLogin(tab'[t].flow) \in {0, FlowLogin(tab[t].flow)}
  /\ CheckNumber(tab'[t].check) \in {0, CheckNumber(tab[t].check)}
  /\ tab'[t].spent \subseteq tab[t].spent \cup {n[2] : n \in Around}
  /\ NumbersOf(tab'[t]) \cup {Numbers(v)} \subseteq Around \cup {<<0, 0>>} \cup S

\* The step changes no code's state and waits for no login but the one that the tab waited for.
Unasked(t) == provider'.code = provider.code /\ Awaited(tab'[t]) \in {0, Awaited(tab[t])}

\* No session ends, no refresh token is spent; what is written was stored, or is known to be late.
Quiet(t, v) ==
  /\ out' = out /\ tab'[t].spent \subseteq tab[t].spent /\ late \subseteq late'
  /\ Blank(v) \/ v.access \in late' \/ \E j \in Keys : Same(v, stored[j])
  /\ \/ tab'[t].spent = {} \/ Blank(tab'[t].mem) \/ tab'[t].mem.access \in late' \/ Same(tab'[t].mem, tab[t].mem)
     \/ \E j \in Keys : Same(tab'[t].mem, stored[j])
  /\ \/ tab'[t].check = None \/ Same(tab'[t].check.of, tab'[t].mem)
     \/ tab[t].check # None /\ tab'[t].check.of = tab[t].check.of

\* What a page may change beside its token.
Carries(p, r) ==
  /\ r.check # None => p.check # None /\ r.check.of = p.check.of
  /\ CheckNumber(r.check) \in {0, CheckNumber(p.check)} /\ FlowLogin(r.flow) \in {0, FlowLogin(p.flow)}
  /\ Awaited(r) \in {0, Awaited(p)}
  /\ HeldBy(r.flow) \subseteq HeldBy(p.flow) \cup {Numbers(p.mem)}

\* The variables beside the tabs and the storage, in any step.
Meanwhile ==
  /\ setup' = setup /\ ops' \in 0..setup.ops /\ out' \subseteq Logins /\ crossed' \in BOOLEAN
  /\ took' \subseteq ({0} \cup Logins) \X Logins /\ ProviderTyped(provider') /\ Grows(World, World')

\* What a page and the storage have is around.
LEMMA AroundIs ==
  ASSUME NEW t \in Tabs
  PROVE  NumbersOf(tab[t]) \subseteq Around /\ \A k \in Keys : Numbers(stored[k]) \in Around
BY DEF Around

\* A page that is settled carries what it carried.
LEMMA SettledCarries ==
  ASSUME NEW r \in Pages, NEW q, Settles(r, q)
  PROVE  /\ q \in Pages /\ q.mem \in Token /\ Same(q.mem, r.mem) /\ Numbers(q.mem) = Numbers(r.mem)
         /\ q.at = r.at /\ q.key = r.key /\ q.on = r.on /\ q.missed = r.missed /\ q.spent = r.spent
         /\ q.flow = r.flow /\ Awaited(q) = Awaited(r) /\ CheckNumber(q.check) \in {0, CheckNumber(r.check)}
         /\ NumbersOf(q) \subseteq NumbersOf(r)
         /\ q.check = None \/ Same(q.check.of, q.mem) \/ q.check = r.check
<1>1. q \in Pages /\ q.mem \in Token /\ r.mem \in Token /\ Keeps(r, q) /\ Alike(q.mem, r.mem)
  BY DEF Settles, Pages
<1>2. Same(q.mem, r.mem) /\ Numbers(q.mem) = Numbers(r.mem)
  BY <1>1, AlikeIs DEF Same, Numbers
<1>3. CASE q.check = r.check
  BY <1>1, <1>2, <1>3 DEF Keeps, Awaited, NumbersOf
<1>4. CASE q.check = [of |-> q.mem, answer |-> None]
  <2>1. q.check.of = q.mem /\ q.check.answer = None
    BY <1>4
  <2>2. CheckNumber(q.check) = 0
    BY <2>1, NoneAssumption DEF CheckNumber
  <2>3. NumbersOf(q) \subseteq NumbersOf(r)
    BY <1>1, <1>2, <2>1 DEF NumbersOf, CheckedBy, Keeps
  <2>. QED BY <1>1, <1>2, <2>1, <2>2, <2>3 DEF Keeps, Awaited, Same
<1>. QED BY <1>3, <1>4 DEF Settles

\* The page t, with its token, becomes r, and settles.
LEMMA Steady ==
  ASSUME Typed, Sound, Synced, Meanwhile, NEW t \in Tabs, NEW r \in Pages, NEW q, Settles(r, q), Save(t, q, tab[t].mem),
         tab[t].at = "page", r.at = "page", r.key = tab[t].key, r.mem = tab[t].mem, r.missed = tab[t].missed,
         tab[t].on => r.on, GoodPage(World', r), Follows(World, q), out' = out, provider'.of = provider.of, Carries(tab[t], r), r.spent \subseteq tab[t].spent
  PROVE  \E k \in Keys, v \in Token : Moves(t, k, v) /\ Quiet(t, v) /\ Plain(t, v, {}) /\ Awaited(tab'[t]) \in {0, Awaited(tab[t])}
<1>. DEFINE k == q.key
            v == IF q.mem = tab[t].mem THEN stored[k] ELSE q.mem
            p == tab[t]
<1>1. p \in Pages /\ p.mem \in Token /\ stored \in [Keys -> Token] /\ late \subseteq Issued /\ p.key \in Keys
  BY DEF Typed, Pages
<1>2. q \in Pages /\ q.mem \in Token /\ k = p.key /\ k \in Keys /\ v \in Token
  BY <1>1, SettledCarries
<1>3. /\ Spread(t, k, v) /\ tab'[t] = q /\ tab' \in [Tabs -> Pages] /\ pending'[t] = pending[t]
      /\ pending' \in [Tabs -> SUBSET Keys]
      /\ late \subseteq late' /\ late' \subseteq late \cup {q.mem.access} /\ (q.mem = p.mem => late' = late)
      /\ q.mem # p.mem /\ (q.key \in pending[t] \/ q.missed) => q.mem.access \in late'
  BY <1>1, <1>2, SaveSpreads
<1>4. late' \subseteq Issued
  <2>1. q.mem # p.mem => q.mem.access \in Issued
    BY <1>2, TokensAre DEF Settles
  <2>. QED BY <1>1, <1>3, <2>1
<1>5. WorldTyped(World) /\ WorldTyped(World') /\ Grows(World, World')
  BY WorldIs DEF Typed, Meanwhile, World
<1>6. GoodPage(World', q)
  <2>1. Len(provider.of) \in Nat /\ Len(World'.of) = Len(provider.of) /\ p.mem.access <= Len(provider.of)
    BY WorldTypes DEF World, WorldOf, Sound, GoodPage, Good
  <2>. QED BY <1>5, <2>1, GoodSettles
<1>7. Good(World', v, k)
  <2>1. Good(World', stored[k], k)
    BY <1>1, <1>2, <1>5, GoodKept DEF Sound
  <2>. QED BY <1>2, <1>6, <2>1 DEF GoodPage
<1>8. Heard(t, k, v)
  <2>1. pending'[t] # {} => q.at = "page" /\ q.on
    BY <1>3, SettledCarries DEF Synced, Listening
  <2>2. CASE q.mem = p.mem
    BY <1>2, <1>3, <2>1, <2>2, SettledCarries DEF Heard
  <2>3. CASE q.mem # p.mem
    BY <1>2, <1>3, <2>1, <2>3 DEF Heard
  <2>. QED BY <2>2, <2>3
<1>9. Moves(t, k, v)
  <2>1. Follows(World', q)
    <3>1. q.mem.access <= Len(World.of)
      BY SettledCarries DEF Sound, GoodPage, Good, Same
    <3>. QED BY <1>2, <1>5, <3>1, FollowsKept
  <2>. QED BY <1>2, <1>3, <1>4, <1>6, <1>7, <1>8, <2>1 DEF Moves, Meanwhile
<1>10. v.access \in late' \/ Same(v, stored[k])
  <2>1. CASE q.mem = p.mem
    BY <2>1 DEF Same
  <2>2. CASE q.mem # p.mem /\ (q.key \in pending[t] \/ q.missed)
    BY <1>3, <2>2
  <2>3. CASE q.mem # p.mem /\ ~(q.key \in pending[t] \/ q.missed)
    <3>1. p.mem = stored[k]
      BY <1>2, <2>3, SettledCarries DEF Synced
    <3>. QED BY <2>3, <3>1, SettledCarries
  <2>. QED BY <2>1, <2>2, <2>3
<1>11. Same(q.mem, p.mem) /\ Numbers(q.mem) = Numbers(p.mem)
  BY SettledCarries
<1>12. Quiet(t, v)
  BY <1>2, <1>3, <1>10, <1>11, SettledCarries DEF Quiet, Carries
<1>13. NumbersOf(r) \subseteq NumbersOf(p)
  BY DEF NumbersOf, Carries, CheckedBy
<1>14. Numbers(v) \in Around /\ NumbersOf(q) \subseteq Around
  <2>1. NumbersOf(q) \subseteq NumbersOf(p) /\ NumbersOf(p) \subseteq Around /\ Numbers(stored[k]) \in Around
    BY <1>2, <1>13, SettledCarries, AroundIs
  <2>. QED BY <2>1 DEF NumbersOf
<1>15. Plain(t, v, {}) /\ Awaited(tab'[t]) \in {0, Awaited(p)}
  <2>1. CheckNumber(q.check) \in {0, CheckNumber(p.check)} /\ FlowLogin(q.flow) \in {0, FlowLogin(p.flow)}
        /\ Awaited(q) \in {0, Awaited(p)} /\ q.spent \subseteq p.spent
    BY SettledCarries DEF Carries
  <2>. QED BY <1>3, <1>14, <2>1 DEF Plain
<1>. QED BY <1>2, <1>9, <1>12, <1>15

\* The page t becomes r, which has what is stored under its key, settles, and writes what it then has.
LEMMA LoadedWrites ==
  ASSUME Typed, Sound, Synced, Meanwhile, NEW t \in Tabs, NEW r \in Pages, NEW q, Settles(r, q),
         Spread(t, q.key, q.mem), tab'[t] = q, tab' \in [Tabs -> Pages], pending'[t] \subseteq pending[t],
         pending' \in [Tabs -> SUBSET Keys], late \subseteq late', late' \subseteq Issued,
         r.at = "page", r.mem = stored[r.key], pending[t] # {} => r.on, GoodPage(World', r), Follows(World, q),
         out' = out, provider'.of = provider.of, Carries(tab[t], r), r.spent \subseteq tab[t].spent
  PROVE  \E k \in Keys, v \in Token : Moves(t, k, v) /\ Quiet(t, v) /\ Plain(t, v, {}) /\ Awaited(tab'[t]) \in {0, Awaited(tab[t])}
<1>. DEFINE k == q.key
            v == q.mem
            p == tab[t]
<1>1. p \in Pages /\ stored \in [Keys -> Token] /\ r.key \in Keys
  BY DEF Typed, Pages
<1>2. q \in Pages /\ q.mem \in Token /\ k = r.key /\ k \in Keys /\ v \in Token /\ stored[k] \in Token
  BY <1>1, SettledCarries
<1>5. WorldTyped(World) /\ WorldTyped(World') /\ Grows(World, World')
  BY WorldIs DEF Typed, Meanwhile, World
<1>6. GoodPage(World', q)
  <2>1. Len(provider.of) \in Nat /\ Len(World'.of) = Len(provider.of) /\ r.mem.access <= Len(provider.of)
    BY <1>1, WorldTypes DEF World, WorldOf, Sound, Good
  <2>. QED BY <1>5, <2>1, GoodSettles
<1>7. Good(World', v, k)
  BY <1>6 DEF GoodPage
<1>8. Heard(t, k, v)
  BY SettledCarries DEF Heard
<1>9. Moves(t, k, v)
  <2>1. Follows(World', q)
    <3>1. q.mem.access <= Len(World.of)
      BY <1>1, SettledCarries DEF Sound, Good, Same
    <3>. QED BY <1>2, <1>5, <3>1, FollowsKept
  <2>. QED BY <1>2, <1>6, <1>7, <1>8, <2>1 DEF Moves, Meanwhile
<1>10. Same(v, stored[k]) /\ Numbers(v) = Numbers(stored[k]) /\ Numbers(v) \in Around
  BY <1>2, SettledCarries, AroundIs
<1>11. Quiet(t, v)
  BY <1>2, <1>10, SettledCarries DEF Quiet, Carries
<1>12. NumbersOf(r) \subseteq NumbersOf(p) \cup {Numbers(v)}
  BY <1>2, <1>10 DEF NumbersOf, Carries, CheckedBy
<1>13. NumbersOf(q) \subseteq Around
  BY <1>10, <1>12, SettledCarries, AroundIs
<1>14. Plain(t, v, {}) /\ Awaited(tab'[t]) \in {0, Awaited(p)}
  <2>1. CheckNumber(q.check) \in {0, CheckNumber(p.check)} /\ FlowLogin(q.flow) \in {0, FlowLogin(p.flow)}
        /\ Awaited(q) \in {0, Awaited(p)} /\ q.spent \subseteq p.spent
    BY SettledCarries DEF Carries
  <2>. QED BY <1>10, <1>13, <2>1 DEF Plain
<1>. QED BY <1>2, <1>9, <1>11, <1>14

\* It has read what is stored, and need not write.
LEMMA Loaded ==
  ASSUME Typed, Sound, Synced, Meanwhile, NEW t \in Tabs, NEW r \in Pages, NEW q, Settles(r, q), Save(t, q, stored[r.key]),
         r.at = "page", r.mem = stored[r.key], pending[t] # {} => r.on, GoodPage(World', r), Follows(World, q),
         out' = out, provider'.of = provider.of, Carries(tab[t], r), r.spent \subseteq tab[t].spent
  PROVE  \E k \in Keys, v \in Token : Moves(t, k, v) /\ Quiet(t, v) /\ Plain(t, v, {}) /\ Awaited(tab'[t]) \in {0, Awaited(tab[t])}
<1>1. stored \in [Keys -> Token] /\ late \subseteq Issued /\ r.key \in Keys
  BY DEF Typed, Pages
<1>2. q \in Pages /\ q.mem \in Token /\ q.key = r.key /\ stored[q.key] \in Token
  BY <1>1, SettledCarries
<1>3. /\ Spread(t, q.key, q.mem) /\ tab'[t] = q /\ tab' \in [Tabs -> Pages] /\ pending'[t] = pending[t]
      /\ pending' \in [Tabs -> SUBSET Keys]
      /\ late \subseteq late' /\ late' \subseteq late \cup {q.mem.access} /\ (q.mem = r.mem => late' = late)
  BY <1>1, <1>2, SaveSpreads
<1>4. late' \subseteq Issued
  <2>1. q.mem # r.mem => q.mem.access \in Issued
    BY <1>2, TokensAre DEF Settles
  <2>. QED BY <1>1, <1>3, <2>1
<1>. QED BY <1>3, <1>4, LoadedWrites

\* A page that writes nothing.
LEMMA Silent ==
  ASSUME Typed, Sound, Synced, Meanwhile, NEW t \in Tabs, NEW r \in Pages, NEW D, D \subseteq pending[t],
         tab' = [tab EXCEPT ![t] = r], stored' = stored, late' = late, pending' = [pending EXCEPT ![t] = D],
         D # {} => r.at = "page" /\ r.on, r.mem = tab[t].mem, r.key = tab[t].key, tab[t].at = "page",
         tab[t].key \in pending[t] \/ tab[t].missed => tab[t].key \in D \/ r.missed,
         GoodPage(World', r), Follows(World', r)
  PROVE  tab'[t] = r /\ Moves(t, tab[t].key, stored[tab[t].key])
<1>. DEFINE k == tab[t].key
            v == stored[k]
<1>1. tab \in [Tabs -> Pages] /\ pending \in [Tabs -> SUBSET Keys] /\ stored \in [Keys -> Token] /\ k \in Keys /\ v \in Token
      /\ late \subseteq Issued
  BY DEF Typed, Pages
<1>2. tab'[t] = r /\ pending'[t] = D /\ tab' \in [Tabs -> Pages] /\ pending' \in [Tabs -> SUBSET Keys] /\ stored'[k] = v
  BY <1>1
<1>3. Spread(t, k, v)
  BY <1>1 DEF Spread
<1>4. Heard(t, k, v)
  BY <1>2 DEF Heard
<1>5. Good(World', v, k)
  <2>1. WorldTyped(World) /\ WorldTyped(World') /\ Grows(World, World')
    BY WorldIs DEF Typed, Meanwhile, World
  <2>. QED BY <1>1, <2>1, GoodKept DEF Sound
<1>. QED BY <1>1, <1>2, <1>3, <1>4, <1>5 DEF Moves, Meanwhile

\* It is quiet, and brings nothing.
LEMMA SilentQuiet ==
  ASSUME Typed, NEW t \in Tabs, late' = late, out' = out, provider'.of = provider.of,
         tab'[t].mem = tab[t].mem, Carries(tab[t], tab'[t]), tab'[t].spent \subseteq tab[t].spent
  PROVE  Quiet(t, stored[tab[t].key]) /\ Plain(t, stored[tab[t].key], {}) /\ Awaited(tab'[t]) \in {0, Awaited(tab[t])}
<1>1. tab[t].key \in Keys
  BY DEF Typed, Pages
<1>2. Same(tab'[t].mem, tab[t].mem) /\ Same(stored[tab[t].key], stored[tab[t].key])
  BY DEF Same
<1>3. NumbersOf(tab'[t]) \subseteq NumbersOf(tab[t])
  BY DEF NumbersOf, Carries, CheckedBy
<1>4. Quiet(t, stored[tab[t].key])
  BY <1>1, <1>2 DEF Quiet, Carries
<1>5. Plain(t, stored[tab[t].key], {})
  BY <1>1, <1>3, AroundIs DEF Plain, Carries
<1>. QED BY <1>4, <1>5 DEF Carries

\* A good token in memory leaves a page good.
LEMMA GoodMem ==
  ASSUME NEW W, NEW r \in Pages, GoodPage(W, r), NEW v \in Token, Good(W, v, r.key)
  PROVE  GoodPage(W, [r EXCEPT !.mem = v])
<1>. DEFINE q == [r EXCEPT !.mem = v]
<1>1. q.mem = v /\ q.check = r.check /\ q.sync = r.sync /\ Keeps(r, q)
  BY TokenFields
<1>. HIDE DEF q
<1>2. GoodPage(W, q)
  BY <1>1 DEF GoodPage, Keeps
<1>. QED BY <1>2 DEF q

\* The page t, which is r beside its token, puts v in the token's place.
LEMMA Putting ==
  ASSUME Typed, Sound, Synced, Meanwhile, late' \subseteq Issued, NEW t \in Tabs, NEW r \in Pages, NEW v \in Token,
         Put(t, r, v), r.at = "page", pending[t] # {} => r.on, GoodPage(World', r), Good(World', v, r.key), Follows(World, r),
         Len(provider'.of) = Len(provider.of)
  PROVE  LET q == tab'[t] IN
         /\ Moves(t, r.key, q.mem) /\ Settles([r EXCEPT !.mem = v], q) /\ q \in Pages /\ q.mem \in Token
         /\ Same(q.mem, v) /\ q.spent = r.spent /\ q.flow = r.flow /\ q.at = r.at
         /\ Awaited(q) = Awaited(r) /\ CheckNumber(q.check) \in {0, CheckNumber(r.check)}
         /\ q.check = None \/ Same(q.check.of, q.mem) \/ q.check = r.check
         /\ NumbersOf(q) \subseteq {Numbers(v)} \cup CheckedBy(r.check) \cup HeldBy(r.flow)
<1>. DEFINE s == [r EXCEPT !.mem = v]
            q == tab'[t]
<1>1. /\ Spread(t, r.key, q.mem) /\ Settles(s, q) /\ q = SetState(r, v)
      /\ tab' \in [Tabs -> Pages] /\ pending'[t] = pending[t] /\ pending' \in [Tabs -> SUBSET Keys]
  BY PutSpreads
<1>2. s \in Pages /\ s.mem = v /\ s.check = r.check /\ s.sync = r.sync /\ Keeps(r, s) /\ r.key \in Keys
  <2>1. s \in Pages
    BY PageFields
  <2>2. s.mem = v /\ s.check = r.check /\ s.sync = r.sync /\ Keeps(r, s)
    BY TokenFields
  <2>3. r.key \in Keys
    BY DEF Pages
  <2>. QED BY <2>1, <2>2, <2>3
<1>3. GoodPage(World', s)
  BY GoodMem
<1>4. WorldTyped(World') /\ Len(World'.of) = Len(provider.of) /\ Len(provider.of) \in Nat
  BY WorldIs, WorldTypes DEF Meanwhile, World, WorldOf
<1>. HIDE DEF s
<1>5. s.mem.access <= Len(provider.of)
  BY <1>2, <1>4 DEF Good
<1>6. GoodPage(World', q)
  BY <1>1, <1>2, <1>3, <1>4, <1>5, GoodSettles
<1>7. /\ q \in Pages /\ q.mem \in Token /\ Same(q.mem, v) /\ q.at = r.at /\ q.key = r.key /\ q.on = r.on
      /\ q.spent = r.spent /\ q.flow = r.flow /\ Awaited(q) = Awaited(r) /\ CheckNumber(q.check) \in {0, CheckNumber(r.check)}
      /\ NumbersOf(q) \subseteq NumbersOf(s)
      /\ q.check = None \/ Same(q.check.of, q.mem) \/ q.check = r.check
  BY <1>1, <1>2, SettledCarries DEF Keeps, Awaited
<1>8. Heard(t, r.key, q.mem)
  BY <1>1, <1>7 DEF Heard
<1>9. Good(World', q.mem, r.key)
  BY <1>6, <1>7 DEF GoodPage
<1>10. Moves(t, r.key, q.mem)
  <2>1. Follows(World, q)
    BY <1>1, <1>4, SetStateFollows DEF Typed
  <2>2. WorldTyped(World) /\ Grows(World, World') /\ q.mem.access <= Len(World.of)
    BY <1>4, <1>5, <1>2, <1>7, WorldTypes DEF Meanwhile, Same
  <2>3. Follows(World', q)
    BY <1>4, <1>7, <2>1, <2>2, FollowsKept
  <2>. QED BY <1>1, <1>2, <1>6, <1>7, <1>8, <1>9, <2>3 DEF Moves, Meanwhile
<1>11. NumbersOf(s) = {Numbers(v)} \cup CheckedBy(r.check) \cup HeldBy(r.flow)
  BY <1>2 DEF NumbersOf, Keeps
<1>. HIDE DEF q
<1>12. Settles([r EXCEPT !.mem = v], q)
  BY <1>1 DEF s
<1>. QED BY <1>7, <1>10, <1>11, <1>12 DEF q

-----------------------------------------------------------------------------
(* Tokens of sessions that ended, and refresh tokens that were spent. *)

EndedIn(P, O, T, v) == (v.access # 0 /\ P[v.access] \in O) \/ \E t \in Tabs : v.refresh \in T[t].spent
\* It is so now, and after the step with the tokens as they were.
Ended(v) == EndedIn(provider.of, out, tab, v)
EndedThen(v) == EndedIn(provider'.of, out', tab', v)

\* They are nowhere but where something in flight, or a page that had not heard, has put them.
Stands ==
  /\ \A k \in Keys : Ended(stored[k]) => stored[k].access \in late \/ crossed
  /\ \A t \in Tabs :
       /\ tab[t].mem.refresh \in tab[t].spent => tab[t].mem.access \in late \/ crossed
       /\ tab[t].check # None /\ tab[t].check.of.refresh \in tab[t].spent => tab[t].check.of.access \in late \/ crossed

\* What other pages have of it stays, as does what is stored and was not written.
LEMMA StandsOthers ==
  ASSUME Typed, Sound, Stands, NEW t \in Tabs, NEW k, NEW v, Moves(t, k, v), late \subseteq late',
         EndedThen(v) => v.access \in late' \/ crossed',
         \A j \in Keys \ {k} : EndedThen(stored[j]) => Ended(stored[j]) \/ crossed',
         tab'[t].mem.refresh \in tab'[t].spent => tab'[t].mem.access \in late' \/ crossed',
         tab'[t].check # None /\ tab'[t].check.of.refresh \in tab'[t].spent => tab'[t].check.of.access \in late' \/ crossed'
  PROVE  Stands'
<1>1. k \in Keys /\ v \in Token /\ Spread(t, k, v) /\ stored \in [Keys -> Token] /\ (crossed => crossed')
  BY DEF Moves, Typed, Grows, World, WorldOf
<1>2. stored' = [stored EXCEPT ![k] = v]
  BY <1>1 DEF Spread
<1>3. ASSUME NEW j \in Keys, EndedThen(stored'[j])
      PROVE  stored'[j].access \in late' \/ crossed'
  <2>1. CASE j = k
    <3>1. stored'[j] = v
      BY <1>1, <1>2, <2>1
    <3>. QED BY <1>3, <3>1
  <2>2. CASE j # k
    <3>1. stored'[j] = stored[j]
      BY <1>1, <1>2, <2>2
    <3>2. Ended(stored[j]) \/ crossed'
      BY <1>3, <2>2, <3>1
    <3>. QED BY <1>1, <3>1, <3>2 DEF Stands
  <2>. QED BY <2>1, <2>2
<1>4. ASSUME NEW u \in Tabs, u # t
      PROVE  /\ tab'[u].mem.refresh \in tab'[u].spent => tab'[u].mem.access \in late' \/ crossed'
             /\ tab'[u].check # None /\ tab'[u].check.of.refresh \in tab'[u].spent =>
                  tab'[u].check.of.access \in late' \/ crossed'
  BY <1>1, <1>4, SpreadOthers DEF Stands
<1>. QED BY <1>3, <1>4 DEF Stands, Ended, EndedThen

\* A step that brings no token of a session that ended keeps what stands.
LEMMA QuietStands ==
  ASSUME Typed, Sound, Stands, NEW t \in Tabs, NEW k, NEW v, Moves(t, k, v), Quiet(t, v)
  PROVE  Stands'
<1>. DEFINE p == tab[t]
            q == tab'[t]
<1>1. /\ k \in Keys /\ v \in Token /\ Spread(t, k, v) /\ stored \in [Keys -> Token] /\ (crossed => crossed')
      /\ tab' \in [Tabs -> Pages] /\ late \subseteq late' /\ out' = out /\ q.spent \subseteq p.spent
  BY DEF Moves, Typed, Grows, World, WorldOf, Quiet
<1>2. \A u \in Tabs : tab'[u].spent \subseteq tab[u].spent /\ 0 \notin tab'[u].spent
  <2>1. \A u \in Tabs : tab'[u].spent \subseteq tab[u].spent
    BY <1>1, SpreadOthers
  <2>2. \A u \in Tabs : 0 \notin tab[u].spent
    BY DEF Typed, Pages, Issued
  <2>. QED BY <2>1, <2>2
<1>3. ASSUME NEW w \in Token, w.access <= Len(provider.of), EndedThen(w)
      PROVE  Ended(w)
  <2>1. w.access # 0 => provider'.of[w.access] = provider.of[w.access]
    <3>1. w.access # 0 => w.access \in 1..Len(provider.of)
      BY <1>3, WorldTypes DEF Token, Issued
    <3>. QED BY <3>1 DEF Moves, Grows, World, WorldOf
  <2>. QED BY <1>1, <1>2, <1>3, <2>1 DEF EndedThen, Ended, EndedIn
<1>4. ASSUME NEW j \in Keys
      PROVE  /\ stored[j] \in Token /\ (EndedThen(stored[j]) => Ended(stored[j]))
             /\ Ended(stored[j]) => stored[j].access \in late' \/ crossed'
  <2>1. stored[j] \in Token /\ stored[j].access <= Len(provider.of)
    BY <1>1, WorldTypes DEF Sound, Good
  <2>. QED BY <1>1, <1>3, <2>1 DEF Stands
<1>5. ASSUME NEW w, NEW j \in Keys, Same(w, stored[j]), EndedThen(w)
      PROVE  w.access \in late' \/ crossed'
  <2>1. EndedThen(stored[j])
    BY <1>5 DEF Same, EndedThen, EndedIn
  <2>. QED BY <1>4, <1>5, <2>1 DEF Same
<1>6. EndedThen(v) => v.access \in late' \/ crossed'
  <2>1. CASE Blank(v)
    BY <1>2, <2>1 DEF Blank, EndedThen, EndedIn
  <2>. QED BY <1>5, <2>1 DEF Quiet
<1>7. q.mem.refresh \in q.spent => q.mem.access \in late' \/ crossed'
  <2>1. CASE q.spent = {} \/ Blank(q.mem) \/ q.mem.access \in late'
    BY <1>2, <2>1 DEF Blank
  <2>2. CASE Same(q.mem, p.mem)
    BY <1>1, <2>2 DEF Same, Stands
  <2>3. CASE \E j \in Keys : Same(q.mem, stored[j])
    <3>1. q.mem.refresh \in q.spent => EndedThen(q.mem)
      BY DEF EndedThen, EndedIn
    <3>. QED BY <1>5, <2>3, <3>1
  <2>. QED BY <2>1, <2>2, <2>3 DEF Quiet
<1>8. q.check # None /\ q.check.of.refresh \in q.spent => q.check.of.access \in late' \/ crossed'
  <2>1. CASE q.check = None
    BY <2>1
  <2>2. CASE Same(q.check.of, q.mem)
    BY <1>7, <2>2 DEF Same
  <2>3. CASE p.check # None /\ q.check.of = p.check.of
    BY <1>1, <2>3 DEF Stands
  <2>. QED BY <2>1, <2>2, <2>3 DEF Quiet
<1>. QED BY <1>1, <1>4, <1>6, <1>7, <1>8, StandsOthers

-----------------------------------------------------------------------------
(* Answers on their way: what is in them is nowhere else. *)

IssuedLogins == {provider.of[a] : a \in 1..Len(provider.of)}

\* A sign-in whose tokens are on their way is the only one to have anything of its login.
New ==
  \A t \in Tabs : LET l == FlowLogin(tab[t].flow) IN
    l # 0 => /\ l \notin out /\ \A n \in Around : n[1] # 0 => provider.of[n[1]] # l
             /\ \A u \in Tabs : /\ \A r \in tab[u].spent : provider.of[r] # l
                                /\ u # t => FlowLogin(tab[u].flow) # l

\* A rotated refresh token on its way has not been presented, and nobody has it.
Sealed ==
  setup.rotates =>
    \A t \in Tabs : LET c == CheckNumber(tab[t].check) IN
      c # 0 => /\ \A n \in Around : n[2] # c
               /\ \A u \in Tabs : c \notin tab[u].spent /\ (u # t => CheckNumber(tab[u].check) # c)

\* Nothing was issued for a login that is awaited or has a code, and there is one page that awaits it.
Own ==
  /\ out \subseteq IssuedLogins
  /\ \A l \in 1..Len(provider.code) : provider.code[l] = "ready" => l \notin IssuedLogins
  /\ \A t \in Tabs : LET l == Awaited(tab[t]) IN
       l # 0 => /\ l \notin IssuedLogins /\ provider.code[l] = "none"
                /\ \A u \in Tabs \ {t} : Awaited(tab[u]) # l

\* What came to be around is of no sign-in and no check on its way.
Clear(t, S) ==
  \A n \in S : \A u \in Tabs :
    /\ n[1] # 0 => n[1] \in 1..Len(provider.of) /\ (FlowLogin(tab'[u].flow) # 0 => provider.of[n[1]] # FlowLogin(tab'[u].flow))
    /\ setup.rotates /\ CheckNumber(tab'[u].check) # 0 => n[2] # CheckNumber(tab'[u].check)

\* What is around was issued.
LEMMA AroundValid ==
  ASSUME Typed, Sound, NEW n \in Around
  PROVE  /\ n[1] # 0 => n[1] \in 1..Len(provider.of)
         /\ n[2] # 0 => n[1] # 0 /\ n[2] \in 1..Len(provider.of) /\ provider.of[n[2]] = provider.of[n[1]]
<1>1. ASSUME NEW w \in Token, NEW k, Good(World, w, k), n = Numbers(w)
      PROVE  /\ n[1] # 0 => n[1] \in 1..Len(provider.of)
             /\ n[2] # 0 => n[1] # 0 /\ n[2] \in 1..Len(provider.of) /\ provider.of[n[2]] = provider.of[n[1]]
  BY <1>1, WorldTypes, TokensAre DEF Good, Numbers, Issued
<1>2. CASE \E k \in Keys : n = Numbers(stored[k])
  BY <1>1, <1>2 DEF Typed, Sound
<1>3. CASE \E t \in Tabs : n \in NumbersOf(tab[t])
  <2>1. PICK t \in Tabs : n \in NumbersOf(tab[t])
    BY <1>3
  <2>2. tab[t].mem \in Token /\ tab[t].check \in Checks \cup {None} /\ tab[t].flow \in Flows \cup {None} /\ GoodPage(World, tab[t])
    BY DEF Typed, Sound, Pages
  <2>3. CASE n = Numbers(tab[t].mem)
    BY <1>1, <2>2, <2>3 DEF GoodPage
  <2>4. CASE n \in CheckedBy(tab[t].check)
    BY <1>1, <2>2, <2>4, ChecksAre DEF GoodPage, GoodCheck, CheckedBy
  <2>5. CASE n \in HeldBy(tab[t].flow)
    BY <1>1, <2>2, <2>5, FlowsAre DEF GoodPage, GoodFlow, HeldBy
  <2>. QED BY <2>1, <2>3, <2>4, <2>5 DEF NumbersOf
<1>. QED BY <1>2, <1>3 DEF Around

\* After a step, around is what was, what it stored, and what the tab has.
LEMMA AroundAfter ==
  ASSUME Typed, NEW t \in Tabs, NEW k, NEW v, Moves(t, k, v), NEW n \in Around'
  PROVE  n \in Around \/ n = Numbers(v) \/ n \in NumbersOf(tab'[t])
<1>1. k \in Keys /\ v \in Token /\ Spread(t, k, v) /\ stored \in [Keys -> Token] /\ stored' = [stored EXCEPT ![k] = v]
  BY DEF Moves, Typed, Spread
<1>2. CASE \E j \in Keys : n = Numbers(stored'[j])
  BY <1>1, <1>2 DEF Around
<1>3. CASE \E u \in Tabs : n \in NumbersOf(tab'[u])
  <2>1. PICK u \in Tabs : n \in NumbersOf(tab'[u])
    BY <1>3
  <2>2. u # t => NumbersOf(tab'[u]) = NumbersOf(tab[u])
    BY <1>1, SpreadOthers DEF NumbersOf
  <2>. QED BY <2>1, <2>2, AroundIs
<1>4. Around' = {Numbers(stored'[j]) : j \in Keys} \cup UNION {NumbersOf(tab'[u]) : u \in Tabs}
  BY DEF Around, Numbers, NumbersOf, CheckedBy, HeldBy
<1>. QED BY <1>2, <1>3, <1>4

\* A step that brings nothing but what was around, or what has been taken, leaves the answers on
\* their way new.
LEMMA PlainFresh ==
  ASSUME Typed, Sound, New, Sealed, NEW t \in Tabs, NEW k, NEW v, Moves(t, k, v), NEW S, Plain(t, v, S), Clear(t, S)
  PROVE  New' /\ Sealed'
<1>1. k \in Keys /\ v \in Token /\ Spread(t, k, v) /\ provider'.of = provider.of /\ setup' = setup
  BY DEF Moves, Plain
<1>2. ASSUME NEW n \in Around'
      PROVE  n \in Around \/ n = <<0, 0>> \/ n \in S
  BY AroundAfter DEF Plain
<1>3. ASSUME NEW u \in Tabs
      PROVE  /\ FlowLogin(tab'[u].flow) \in {0, FlowLogin(tab[u].flow)}
             /\ CheckNumber(tab'[u].check) \in {0, CheckNumber(tab[u].check)}
             /\ tab'[u].spent \subseteq tab[u].spent \cup {n[2] : n \in Around}
             /\ 0 \notin tab'[u].spent
  <2>1. 0 \notin tab'[u].spent
    BY DEF Moves, Pages, Issued
  <2>. QED BY <1>1, <2>1, SpreadOthers DEF Plain
<1>4. ASSUME NEW u \in Tabs, FlowLogin(tab'[u].flow) # 0
      PROVE  LET l == FlowLogin(tab'[u].flow) IN
             /\ l \notin out' /\ \A n \in Around' : n[1] # 0 => provider'.of[n[1]] # l
             /\ \A w \in Tabs : /\ \A r \in tab'[w].spent : provider'.of[r] # l
                                /\ w # u => FlowLogin(tab'[w].flow) # l
  <2>. DEFINE l == FlowLogin(tab[u].flow)
  <2>1. FlowLogin(tab'[u].flow) = l /\ l # 0
    BY <1>3, <1>4
  <2>. HIDE DEF l
  <2>2. /\ l \notin out /\ \A n \in Around : n[1] # 0 => provider.of[n[1]] # l
        /\ \A w \in Tabs : /\ \A r \in tab[w].spent : provider.of[r] # l
                           /\ w # u => FlowLogin(tab[w].flow) # l
    BY <2>1 DEF New, l
  <2>3. l \notin out'
    BY <2>2 DEF Plain
  <2>4. \A n \in Around' : n[1] # 0 => provider'.of[n[1]] # l
    BY <1>1, <1>2, <1>4, <2>1, <2>2 DEF Clear
  <2>5. \A w \in Tabs : \A r \in tab'[w].spent : provider'.of[r] # l
    <3>1. ASSUME NEW w \in Tabs, NEW r \in tab'[w].spent, r \notin tab[w].spent
          PROVE  provider.of[r] # l
      <4>1. PICK n \in Around : r = n[2]
        BY <1>3, <3>1
      <4>2. r # 0
        BY <1>3
      <4>. QED BY <2>2, <4>1, <4>2, AroundValid
    <3>. QED BY <1>1, <2>2, <3>1
  <2>6. \A w \in Tabs : w # u => FlowLogin(tab'[w].flow) # l
    BY <1>3, <2>1, <2>2
  <2>. QED BY <2>1, <2>3, <2>4, <2>5, <2>6
<1>5. ASSUME setup.rotates, NEW u \in Tabs, CheckNumber(tab'[u].check) # 0
      PROVE  LET c == CheckNumber(tab'[u].check) IN
             /\ \A n \in Around' : n[2] # c
             /\ \A w \in Tabs : c \notin tab'[w].spent /\ (w # u => CheckNumber(tab'[w].check) # c)
  <2>. DEFINE c == CheckNumber(tab[u].check)
  <2>1. CheckNumber(tab'[u].check) = c /\ c # 0
    BY <1>3, <1>5
  <2>. HIDE DEF c
  <2>2. /\ \A n \in Around : n[2] # c
        /\ \A w \in Tabs : c \notin tab[w].spent /\ (w # u => CheckNumber(tab[w].check) # c)
    BY <1>5, <2>1 DEF Sealed, c
  <2>3. \A n \in Around' : n[2] # c
    BY <1>2, <1>5, <2>1, <2>2 DEF Clear
  <2>4. \A w \in Tabs : c \notin tab'[w].spent /\ (w # u => CheckNumber(tab'[w].check) # c)
    BY <1>3, <2>1, <2>2
  <2>. QED BY <2>1, <2>3, <2>4
<1>6. New'
  BY <1>4 DEF New, FlowLogin
<1>7. Sealed'
  BY <1>1, <1>5 DEF Sealed, CheckNumber
<1>. QED BY <1>6, <1>7

\* Logins are awaited and codes are ready as they were.
LEMMA UnaskedOwn ==
  ASSUME Typed, Sound, Own, NEW t \in Tabs, NEW k, NEW v, Moves(t, k, v), NEW S, Plain(t, v, S), Unasked(t)
  PROVE  Own'
<1>1. k \in Keys /\ v \in Token /\ Spread(t, k, v) /\ provider'.of = provider.of /\ provider'.code = provider.code
  BY DEF Moves, Plain, Unasked
<1>2. IssuedLogins' = IssuedLogins
  BY <1>1 DEF IssuedLogins
<1>3. out' \subseteq IssuedLogins
  BY AroundValid DEF Plain, Own, IssuedLogins
<1>4. \A u \in Tabs : Awaited(tab'[u]) \in {0, Awaited(tab[u])}
  BY <1>1, SpreadOthers DEF Unasked, Awaited
<1>5. \A u \in Tabs : Awaited(tab[u])' = Awaited(tab'[u])
  BY DEF Awaited
<1>6. ASSUME NEW u \in Tabs, Awaited(tab'[u]) # 0
      PROVE  LET l == Awaited(tab'[u]) IN
             /\ l \notin IssuedLogins /\ provider.code[l] = "none"
             /\ \A w \in Tabs \ {u} : Awaited(tab'[w]) # l
  BY <1>4, <1>6 DEF Own
<1>. QED BY <1>1, <1>2, <1>3, <1>5, <1>6 DEF Own

-----------------------------------------------------------------------------
(* The inductive invariant, and the steps that bring nothing new. *)

IInv == Typed /\ Sound /\ Synced /\ Stands /\ New /\ Sealed /\ Own /\ ItsOwn

\* A step that brings nothing new, ends nothing and takes no callback.
Ordinarily(t) ==
  /\ \E k \in Keys, v \in Token : Moves(t, k, v) /\ Quiet(t, v) /\ Plain(t, v, {})
  /\ Unasked(t) /\ took' = took

\* Such a step keeps the invariant.
LEMMA OrdinaryKeeps ==
  ASSUME IInv, NEW t \in Tabs, Ordinarily(t)
  PROVE  IInv'
<1>1. PICK k \in Keys, v \in Token : Moves(t, k, v) /\ Quiet(t, v) /\ Plain(t, v, {})
  BY DEF Ordinarily
<1>2. Typed /\ Sound /\ Synced /\ Stands /\ New /\ Sealed /\ Own /\ ItsOwn /\ Unasked(t) /\ took' = took
  BY DEF IInv, Ordinarily
<1>3. Typed' /\ Sound' /\ Synced'
  BY <1>1, <1>2, MovesTyped, MovesSound, MovesSynced
<1>4. Stands'
  BY <1>1, <1>2, QuietStands
<1>5. New' /\ Sealed'
  <2>1. Clear(t, {})
    BY DEF Clear
  <2>. QED BY <1>1, <1>2, <2>1, PlainFresh
<1>6. Own'
  BY <1>1, <1>2, UnaskedOwn
<1>7. ItsOwn'
  BY <1>1, <1>2 DEF ItsOwn, Moves
<1>. QED BY <1>3, <1>4, <1>5, <1>6, <1>7 DEF IInv

\* The world stays as it is.
LEMMA Still ==
  ASSUME Typed, UNCHANGED <<setup, provider, out, crossed, took>>, ops' = ops \/ (ops > 0 /\ ops' = ops - 1)
  PROVE  /\ Meanwhile /\ World' = World /\ out' = out /\ provider'.of = provider.of /\ provider'.code = provider.code
         /\ took' = took
<1>1. World' = World
  BY DEF World
<1>2. Grows(World, World)
  BY WorldTypes DEF Grows
<1>3. ops' \in 0..setup.ops
  BY ClientAssumption DEF Typed
<1>. QED BY <1>1, <1>2, <1>3 DEF Meanwhile, Typed

\* A tab's page, and that it is one of the typed and sound ones.
LEMMA PageIs ==
  ASSUME Typed, Sound, NEW t \in Tabs
  PROVE  /\ tab[t] \in Pages /\ tab[t].mem \in Token /\ tab[t].key \in Keys /\ tab[t].wanted \in Keys
         /\ tab[t].check \in Checks \cup {None} /\ tab[t].flow \in Flows \cup {None} /\ tab[t].sync \in Syncs \cup {None}
         /\ tab[t].url \in {0} \cup Logins /\ tab[t].asked \in {0} \cup Logins /\ tab[t].spent \subseteq Issued
         /\ GoodPage(World, tab[t]) /\ Follows(World, tab[t]) /\ setup \in Setups /\ Len(provider.of) \in Nat
         /\ tab[t].mem.access <= Len(provider.of)
<1>1. tab[t] \in Pages /\ setup \in Setups
  BY DEF Typed
<1>. QED BY <1>1, WorldTypes DEF Sound, Pages, GoodPage, Good

\* A page carries on with what it has.
LEMMA CarriesItself ==
  ASSUME NEW p
  PROVE  Carries(p, p)
BY DEF Carries

\* The token is dropped: {} or an error is in its place.
LEMMA PutsBlank ==
  ASSUME Typed, Sound, Synced, NEW t \in Tabs, NEW r \in Pages, NEW v \in {Nothing, Failed}, Put(t, r, v),
         UNCHANGED <<setup, provider, out, crossed, took, late>>, ops' = ops \/ (ops > 0 /\ ops' = ops - 1),
         r.at = "page", pending[t] # {} => r.on, GoodPage(World, r), Follows(World, r), Carries(tab[t], r),
         r.spent \subseteq tab[t].spent
  PROVE  Ordinarily(t)
<1>. DEFINE q == tab'[t]
<1>1. /\ Meanwhile /\ World' = World /\ out' = out /\ provider'.of = provider.of /\ provider'.code = provider.code
      /\ took' = took
  BY Still
<1>2. v \in Token /\ v.access = 0 /\ v.refresh = 0
  BY TokensAre
<1>3. Good(World, v, r.key)
  BY <1>2, WorldTypes DEF Good
<1>4. late' \subseteq Issued
  BY DEF Typed
<1>5. /\ Moves(t, r.key, q.mem) /\ q \in Pages /\ q.mem \in Token
      /\ Same(q.mem, v) /\ q.spent = r.spent /\ q.flow = r.flow
      /\ Awaited(q) = Awaited(r) /\ CheckNumber(q.check) \in {0, CheckNumber(r.check)}
      /\ q.check = None \/ Same(q.check.of, q.mem) \/ q.check = r.check
      /\ NumbersOf(q) \subseteq {Numbers(v)} \cup CheckedBy(r.check) \cup HeldBy(r.flow)
  BY <1>1, <1>2, <1>3, <1>4, Putting
<1>6. Blank(q.mem) /\ Numbers(q.mem) = <<0, 0>> /\ Numbers(v) = <<0, 0>>
  BY <1>2, <1>5 DEF Same, Blank, Numbers
<1>7. Quiet(t, q.mem)
  BY <1>1, <1>5, <1>6 DEF Quiet, Carries
<1>8. NumbersOf(q) \subseteq Around \cup {<<0, 0>>}
  <2>1. CheckedBy(r.check) \subseteq NumbersOf(tab[t]) /\ HeldBy(r.flow) \subseteq NumbersOf(tab[t])
    BY DEF NumbersOf, CheckedBy, Carries
  <2>. QED BY <1>5, <1>6, <2>1, AroundIs
<1>9. Plain(t, q.mem, {})
  BY <1>1, <1>5, <1>6, <1>8 DEF Plain, Carries
<1>10. Unasked(t)
  BY <1>1, <1>5 DEF Unasked, Carries
<1>11. r.key \in Keys
  BY DEF Pages
<1>. HIDE DEF q
<1>. QED BY <1>1, <1>5, <1>7, <1>9, <1>10, <1>11 DEF Ordinarily

-----------------------------------------------------------------------------
(* A page with one of its fields changed. *)

\* All but the flow, the run of sync and the profile.
RestAs(p, q) ==
  /\ q.at = p.at /\ q.asked = p.asked /\ q.url = p.url /\ q.key = p.key /\ q.wanted = p.wanted /\ q.mem = p.mem
  /\ q.on = p.on /\ q.missed = p.missed /\ q.check = p.check /\ q.spent = p.spent /\ q.watched = p.watched

\* A page after its flow,
LEMMA FlowField ==
  ASSUME NEW p \in Pages, NEW x \in Flows \cup {None}
  PROVE  LET q == [p EXCEPT !.flow = x] IN
         q \in Pages /\ RestAs(p, q) /\ q.sync = p.sync /\ q.user = p.user /\ q.flow = x
BY DEF Pages, RestAs

\* its profile's request,
LEMMA SyncField ==
  ASSUME NEW p \in Pages, NEW x \in Syncs \cup {None}
  PROVE  LET q == [p EXCEPT !.sync = x] IN
         q \in Pages /\ RestAs(p, q) /\ q.flow = p.flow /\ q.user = p.user /\ q.sync = x
BY DEF Pages, RestAs

\* its profile,
LEMMA UserField ==
  ASSUME NEW p \in Pages, NEW x \in {0} \cup Logins
  PROVE  LET q == [p EXCEPT !.user = x] IN
         q \in Pages /\ RestAs(p, q) /\ q.flow = p.flow /\ q.sync = p.sync /\ q.user = x
BY DEF Pages, RestAs

\* or the logins it has finished have changed.
LEMMA DoneField ==
  ASSUME NEW p \in Pages, NEW u \in Logins
  PROVE  LET q == [p EXCEPT !.done = @ \cup {u}] IN
         q \in Pages /\ RestAs(p, q) /\ q.flow = p.flow /\ q.sync = p.sync /\ q.user = p.user
BY DEF Pages, RestAs

\* The relation is transitive.
LEMMA RestTwice ==
  ASSUME NEW p, NEW q, NEW r, RestAs(p, q), RestAs(q, r)
  PROVE  RestAs(p, r)
BY DEF RestAs

\* A page with a good flow and a good request is good,
LEMMA RestGood ==
  ASSUME NEW W, NEW p, NEW q, RestAs(p, q), GoodPage(W, p),
         q.flow # None => q.flow = p.flow \/ GoodFlow(W, q.flow, p.key),
         q.sync # None => q.sync = p.sync \/ SyncIssued(Len(W.of), q.sync)
  PROVE  GoodPage(W, q)
BY DEF RestAs, GoodPage

\* and carries what it did if the flow brings nothing.
LEMMA RestCarries ==
  ASSUME NEW p, NEW q, RestAs(p, q), FlowLogin(q.flow) \in {0, FlowLogin(p.flow)}, Awaited(q) \in {0, Awaited(p)},
         HeldBy(q.flow) \subseteq HeldBy(p.flow) \cup {Numbers(p.mem)}
  PROVE  Carries(p, q)
BY DEF RestAs, Carries

\* So it does when the flow is over,
LEMMA NoFlowCarries ==
  ASSUME NEW p, NEW q, RestAs(p, q), p.at = "page", q.flow = None
  PROVE  Carries(p, q)
BY RestCarries DEF RestAs, FlowLogin, Awaited, HeldBy

\* or goes on.
LEMMA SameFlowCarries ==
  ASSUME NEW p, NEW q, RestAs(p, q), p.at = "page", q.flow = p.flow
  PROVE  Carries(p, q)
BY RestCarries DEF RestAs, Awaited

\* Where nothing but the profile is told by, a page is followed.
LEMMA RestFollows ==
  ASSUME NEW W, NEW p, NEW q, RestAs(p, q), q.sync = p.sync, q.user = p.user, Follows(W, p)
  PROVE  Follows(W, q)
BY FollowsAs DEF RestAs, ProfileAs

\* A settled page with its token, in a world that stays.
LEMMA SteadyStill ==
  ASSUME Typed, Sound, Synced, NEW t \in Tabs, NEW r \in Pages, NEW q, Settles(r, q), Save(t, q, tab[t].mem),
         UNCHANGED <<setup, provider, out, crossed, took>>, ops' = ops \/ (ops > 0 /\ ops' = ops - 1),
         tab[t].at = "page", RestAs(tab[t], r), GoodPage(World, r), Follows(World, q), Carries(tab[t], r)
  PROVE  Ordinarily(t)
<1>1. /\ Meanwhile /\ World' = World /\ out' = out /\ provider'.of = provider.of /\ provider'.code = provider.code
      /\ took' = took
  BY Still
<1>2. r.at = "page" /\ r.key = tab[t].key /\ r.mem = tab[t].mem /\ r.missed = tab[t].missed /\ r.on = tab[t].on
      /\ r.spent = tab[t].spent
  BY DEF RestAs
<1>3. \E k \in Keys, v \in Token : Moves(t, k, v) /\ Quiet(t, v) /\ Plain(t, v, {}) /\ Awaited(tab'[t]) \in {0, Awaited(tab[t])}
  BY <1>1, <1>2, Steady
<1>. QED BY <1>1, <1>3 DEF Ordinarily, Unasked

-----------------------------------------------------------------------------
(* The profile's steps, and the application's calls. *)

LEMMA ReadClaimsOrdinary ==
  ASSUME Typed, Sound, Synced, NEW t \in Tabs, ReadClaims(t)
  PROVE  Ordinarily(t)
<1>. DEFINE p == tab[t]
            s == p.sync
            a == [p EXCEPT !.user = provider.of[s.id]]
            r == [a EXCEPT !.sync = None]
            asks == p.watched[2] /\ setup.userPath
            q == IF asks THEN AskUserInfo(r, s.id) ELSE r
<1>1. /\ p.at = "page" /\ s # None /\ s.pc = "claims" /\ Save(t, q, r.mem)
      /\ UNCHANGED <<setup, provider, ops, out, crossed, took>>
  BY DEF ReadClaims, OnPage
<1>2. p \in Pages /\ s \in Syncs /\ GoodPage(World, p) /\ Follows(World, p) /\ setup \in Setups /\ Len(provider.of) \in Nat
  BY <1>1, PageIs
<1>3. s.id \in 1..Len(provider.of) /\ s.id \in Issued /\ provider.of[s.id] \in Logins
  <2>1. s.id \in {0} \cup Issued
    BY <1>2 DEF Syncs
  <2>2. s.id # 0 /\ s.id <= Len(provider.of)
    BY <1>1, <1>2, WorldTypes DEF GoodPage, SyncIssued
  <2>3. s.id \in 1..Len(provider.of)
    BY <1>2, <2>1, <2>2 DEF Issued
  <2>4. provider.of \in Seq(Logins)
    BY DEF Typed, ProviderTyped
  <2>. QED BY <2>1, <2>2, <2>3, <2>4
<1>4. a \in Pages /\ RestAs(p, a) /\ a.flow = p.flow /\ a.sync = p.sync /\ a.user = provider.of[s.id]
  BY <1>2, <1>3, UserField
<1>. HIDE DEF a
<1>5. r \in Pages /\ RestAs(a, r) /\ r.flow = a.flow /\ r.user = a.user /\ r.sync = None
  BY <1>4, SyncField
<1>. HIDE DEF r
<1>6. RestAs(p, r) /\ GoodPage(World, r) /\ Carries(p, r) /\ r.mem = p.mem
  BY <1>1, <1>2, <1>4, <1>5, RestTwice, RestGood, SameFlowCarries DEF RestAs
<1>7. Settles(r, q)
  BY <1>2, <1>3, <1>5, AskUserInfoSettles, SettlesNot
<1>8. World.of = provider.of
  BY WorldTypes
<1>9. Follows(World, r)
  BY <1>1, <1>2, <1>4, <1>5, <1>6, <1>8 DEF Follows, RestAs
<1>10. Follows(World, q)
  <2>1. CASE asks
    <3>. DEFINE x == AskUserInfo(r, s.id)
    <3>1. /\ x.at = r.at /\ x.on = r.on /\ x.mem.access = r.mem.access /\ x.watched = r.watched /\ x.user = r.user
          /\ x.sync \in Syncs /\ x.sync # None /\ x.sync.pc # "claims" /\ x.sync.id = s.id /\ x.sync.access \in {0, r.mem.access}
      BY <1>2, <1>3, <1>5, AskIs, NoneAssumption
    <3>. HIDE DEF x
    <3>2. r.at = p.at /\ r.on = p.on /\ r.watched = p.watched /\ r.mem = p.mem /\ r.user = provider.of[s.id]
      BY <1>4, <1>5, <1>6 DEF RestAs
    <3>3. Follows(World, x)
      BY <1>1, <1>2, <1>8, <2>1, <3>1, <3>2 DEF Follows
    <3>. QED BY <2>1, <3>3 DEF x
  <2>2. CASE ~asks
    BY <1>9, <2>2
  <2>. QED BY <2>1, <2>2
<1>. HIDE DEF q
<1>. QED BY <1>1, <1>5, <1>6, <1>7, <1>10, SteadyStill

\* What a call was answered: the profile, or the token is dropped.
LEMMA AnsweredOrdinary ==
  ASSUME Typed, Sound, Synced, NEW t \in Tabs, NEW p \in Pages, NEW a, NEW u \in {0} \cup Logins, Answered(t, p, a, u),
         UNCHANGED <<setup, provider, ops, out, crossed, took>>, tab[t].at = "page", RestAs(tab[t], p),
         GoodPage(World, p), Follows(World, p), Follows(World, [p EXCEPT !.user = u]) \/ ~Honours(a), Carries(tab[t], p)
  PROVE  Ordinarily(t)
<1>1. CASE Honours(a)
  <2>. DEFINE r == [p EXCEPT !.user = u]
  <2>1. Save(t, r, p.mem) /\ Follows(World, r)
    BY <1>1 DEF Answered
  <2>2. r \in Pages /\ RestAs(p, r) /\ r.flow = p.flow /\ r.sync = p.sync
    BY UserField
  <2>. HIDE DEF r
  <2>3. RestAs(tab[t], r) /\ GoodPage(World, r) /\ Carries(tab[t], r) /\ p.mem = tab[t].mem
    <3>1. RestAs(tab[t], r) /\ GoodPage(World, r)
      BY <2>2, RestTwice, RestGood
    <3>. QED BY <2>2, <3>1 DEF Carries, RestAs, Awaited
  <2>. QED BY <2>1, <2>2, <2>3, SettlesNot, SteadyStill
<1>2. CASE ~Honours(a)
  <2>1. Put(t, p, Nothing) /\ late' = late
    BY <1>2 DEF Answered
  <2>2. p.at = "page" /\ (pending[t] # {} => p.on) /\ p.spent \subseteq tab[t].spent
    BY DEF RestAs, Synced, Listening
  <2>. QED BY <2>1, <2>2, PutsBlank
<1>. QED BY <1>1, <1>2

\* The answer to UserInfo comes (user.ts:47-52), and brings no token.
LEMMA UserInfoOrdinary ==
  ASSUME Typed, Sound, Synced, NEW t \in Tabs, UserInfo(t)
  PROVE  Ordinarily(t)
<1>. DEFINE p == tab[t]
            s == p.sync
            r == [p EXCEPT !.sync = None]
            u == LoginOf(Answer(s.access, 0))
<1>1. /\ p.at = "page" /\ s # None /\ s.pc = "sent" /\ (Answered(t, r, s.access, u) \/ Save(t, r, r.mem))
      /\ UNCHANGED <<setup, provider, ops, out, crossed, took>>
  BY DEF UserInfo, OnPage
<1>2. p \in Pages /\ s \in Syncs /\ GoodPage(World, p) /\ Follows(World, p) /\ setup \in Setups /\ Len(provider.of) \in Nat
      /\ World.of = provider.of
  BY <1>1, PageIs, WorldTypes
<1>3. r \in Pages /\ RestAs(p, r) /\ r.flow = p.flow /\ r.user = p.user /\ r.sync = None
  BY <1>2, SyncField
<1>4. s.access \in {0} \cup Issued /\ s.access <= Len(provider.of)
  BY <1>2, <1>1 DEF Syncs, GoodPage, SyncIssued
<1>5. u = (IF s.access = 0 THEN 0 ELSE provider.of[s.access]) /\ u \in {0} \cup Logins
  <2>1. Answer(s.access, 0).access = s.access
    BY DEF Answer, Nothing
  <2>2. provider.of \in Seq(Logins)
    BY DEF Typed, ProviderTyped
  <2>3. s.access # 0 => s.access \in 1..Len(provider.of)
    BY <1>2, <1>4 DEF Issued
  <2>. QED BY <2>1, <2>2, <2>3 DEF LoginOf
<1>. HIDE DEF r, u
<1>6. GoodPage(World, r) /\ Carries(p, r) /\ r.mem = p.mem
  BY <1>1, <1>2, <1>3, RestGood, SameFlowCarries DEF RestAs
<1>7. Follows(World, r)
  BY <1>1, <1>2, <1>3 DEF Follows, RestAs
<1>8. Follows(World, [r EXCEPT !.user = u]) \/ ~Honours(s.access)
  <2>. DEFINE x == [r EXCEPT !.user = u]
  <2>1. RestAs(r, x) /\ x.sync = None /\ x.user = u
    BY <1>3, <1>5, UserField
  <2>. HIDE DEF x
  <2>2. RestAs(p, x)
    BY <1>3, <2>1, RestTwice
  <2>3. Honours(s.access) => s.access # 0
    BY DEF Honours
  <2>4. Honours(s.access) => Follows(World, x)
    BY <1>1, <1>2, <1>5, <2>1, <2>2, <2>3 DEF Follows, RestAs
  <2>. QED BY <2>4 DEF x
<1>9. CASE Answered(t, r, s.access, u)
  BY <1>1, <1>3, <1>5, <1>6, <1>7, <1>8, <1>9, AnsweredOrdinary
<1>10. CASE Save(t, r, r.mem)
  BY <1>1, <1>3, <1>6, <1>7, <1>10, SettlesNot, SteadyStill
<1>. QED BY <1>1, <1>9, <1>10

\* The application calls a resource (fetch.ts), and a check may begin.
LEMMA CallOrdinary ==
  ASSUME Typed, Sound, Synced, NEW t \in Tabs, Call(t)
  PROVE  Ordinarily(t)
<1>. DEFINE p == tab[t]
            q == CheckToken(p)
            f == IF q.check = None THEN [op |-> "call", pc |-> "sent", access |-> AccessToken(q.mem)]
                 ELSE [op |-> "call", pc |-> "waiting", access |-> 0]
            r == [p EXCEPT !.flow = f]
<1>1. /\ p.at = "page" /\ p.flow = None /\ Save(t, [q EXCEPT !.flow = f], p.mem)
      /\ UNCHANGED <<setup, provider, out, crossed, took>> /\ (ops > 0 /\ ops' = ops - 1)
  BY DEF Call, OnPage, Free, Does
<1>2. p \in Pages /\ GoodPage(World, p) /\ Follows(World, p) /\ setup \in Setups /\ Len(provider.of) \in Nat
      /\ p.mem.access <= Len(provider.of)
  BY PageIs
<1>3. q \in Pages /\ Settles(p, q) /\ ProfileAs(p, q)
  BY <1>2, CheckTokenSettles, CheckTokenProfile DEF Settles
<1>. HIDE DEF q
<1>4. f \in Flows /\ f.op = "call" /\ f.access <= Len(provider.of)
  <2>1. q.mem \in Token /\ q.mem.access = p.mem.access
    BY <1>3 DEF Pages, ProfileAs
  <2>2. AccessToken(q.mem) \in {0} \cup Issued /\ AccessToken(q.mem) <= Len(provider.of)
    BY <1>2, <2>1, DerivedAre
  <2>3. CASE q.check = None
    BY <1>2, <2>2, <2>3 DEF Flows
  <2>4. CASE q.check # None
    BY <1>2, <2>4 DEF Flows
  <2>. QED BY <2>3, <2>4
<1>. HIDE DEF f
<1>5. f # None /\ FlowLogin(f) = 0 /\ HeldBy(f) = {}
  BY <1>4, FlowsAre DEF FlowLogin, HeldBy
<1>6. r \in Pages /\ RestAs(p, r) /\ r.sync = p.sync /\ r.user = p.user /\ r.flow = f
  BY <1>2, <1>4, FlowField
<1>7. [q EXCEPT !.flow = f] \in Pages /\ RestAs(q, [q EXCEPT !.flow = f]) /\ [q EXCEPT !.flow = f].sync = q.sync
      /\ [q EXCEPT !.flow = f].user = q.user /\ [q EXCEPT !.flow = f].flow = f
  BY <1>3, <1>4, FlowField
<1>. DEFINE x == [q EXCEPT !.flow = f]
<1>8. Settles(r, x)
  <2>1. x.done = q.done /\ r.done = p.done
    BY <1>2, <1>3 DEF Pages
  <2>. HIDE DEF r, x
  <2>2. Keeps(r, x)
    BY <1>3, <1>6, <1>7, <2>1 DEF x, Keeps, RestAs, Settles
  <2>3. x.mem = q.mem /\ x.check = q.check /\ x.sync = q.sync /\ r.mem = p.mem /\ r.check = p.check /\ r.sync = p.sync
    BY <1>6, <1>7 DEF RestAs, x
  <2>. QED BY <1>3, <1>7, <2>2, <2>3 DEF Settles, x
<1>9. Follows(World, x)
  BY <1>2, <1>3, <1>7, FollowsAs, RestFollows
<1>10. GoodPage(World, r)
  <2>1. GoodFlow(World, f, p.key)
    BY <1>4, WorldTypes DEF GoodFlow
  <2>. QED BY <1>2, <1>6, <2>1, RestGood
<1>11. Carries(p, r)
  <2>1. Awaited(r) = 0
    BY <1>1, <1>4, <1>6 DEF Awaited, RestAs
  <2>. QED BY <1>5, <1>6, <2>1, RestCarries
<1>. HIDE DEF x, r
<1>12. Save(t, x, p.mem)
  BY <1>1 DEF x
<1>. QED BY <1>1, <1>6, <1>8, <1>9, <1>10, <1>11, <1>12, SteadyStill

\* The resource answers.
LEMMA CallAnsweredOrdinary ==
  ASSUME Typed, Sound, Synced, NEW t \in Tabs, CallAnswered(t)
  PROVE  Ordinarily(t)
<1>. DEFINE p == tab[t]
            r == [p EXCEPT !.flow = None]
<1>1. /\ p.at = "page" /\ Answered(t, r, p.flow.access, p.user) /\ UNCHANGED <<setup, provider, ops, out, crossed, took>>
  BY DEF CallAnswered, OnPage
<1>2. p \in Pages /\ GoodPage(World, p) /\ Follows(World, p) /\ p.user \in {0} \cup Logins
  BY PageIs DEF Pages
<1>3. r \in Pages /\ RestAs(p, r) /\ r.sync = p.sync /\ r.user = p.user /\ r.flow = None
  BY <1>2, FlowField
<1>. HIDE DEF r
<1>4. GoodPage(World, r) /\ Carries(p, r) /\ Follows(World, r)
  BY <1>1, <1>2, <1>3, RestGood, NoFlowCarries, RestFollows
<1>5. Follows(World, [r EXCEPT !.user = p.user])
  <2>1. [r EXCEPT !.user = p.user] = r
    BY <1>3 DEF Pages
  <2>. QED BY <1>4, <2>1
<1>. QED BY <1>1, <1>2, <1>3, <1>4, <1>5, AnsweredOrdinary

-----------------------------------------------------------------------------
(* Callbacks that begin, the start and end of a page, and what it hears. *)

LEMMA OauthCallbackOrdinary ==
  ASSUME Typed, Sound, Synced, NEW t \in Tabs, OauthCallback(t)
  PROVE  Ordinarily(t)
<1>. DEFINE p == tab[t]
            u == p.url
            d == [p EXCEPT !.done = @ \cup {u}]
            f == [op |-> "callback", held |-> d.mem, login |-> u, answer |-> None]
            r == [d EXCEPT !.flow = f]
<1>1. /\ p.at = "page" /\ p.flow = None /\ u # 0 /\ UNCHANGED <<setup, provider, ops, out, crossed, took>>
      /\ \/ CheckState(d.mem, u) /\ Save(t, r, d.mem)
         \/ Put(t, d, Failed) /\ late' = late
  BY DEF OauthCallback, Free, OnPage
<1>2. p \in Pages /\ GoodPage(World, p) /\ Follows(World, p) /\ u \in Logins
  BY <1>1, PageIs
<1>3. d \in Pages /\ RestAs(p, d) /\ d.flow = p.flow /\ d.sync = p.sync /\ d.user = p.user
  BY <1>2, DoneField
<1>4. d.mem \in Token /\ d.mem = p.mem
  BY <1>3 DEF Pages, RestAs
<1>. HIDE DEF d
<1>5. f \in Flows /\ f.op = "callback" /\ f.held = d.mem /\ f.login = u /\ f.answer = None
  BY <1>2, <1>4 DEF Flows
<1>. HIDE DEF f
<1>6. GoodPage(World, d) /\ Follows(World, d)
  BY <1>2, <1>3, RestGood, RestFollows
<1>7. CASE CheckState(d.mem, u) /\ Save(t, r, d.mem)
  <2>1. r \in Pages /\ RestAs(d, r) /\ r.sync = d.sync /\ r.user = d.user /\ r.flow = f
    BY <1>3, <1>5, FlowField
  <2>. HIDE DEF r
  <2>2. GoodFlow(World, f, p.key)
    <3>1. AtHome(World, u, p.wanted) /\ (p.key # p.wanted => World.crossed) /\ Good(World, p.mem, p.key)
      BY <1>2 DEF GoodPage
    <3>2. AtHome(World, u, p.key)
      BY <3>1 DEF AtHome
    <3>. QED BY <1>4, <1>5, <1>7, <3>1, <3>2, NoneAssumption DEF GoodFlow
  <2>3. RestAs(p, r) /\ GoodPage(World, r)
    BY <1>2, <1>3, <2>1, <2>2, RestTwice, RestGood
  <2>4. FlowLogin(f) = 0 /\ HeldBy(f) = {Numbers(p.mem)} /\ f # None
    BY <1>4, <1>5, NoneAssumption, FlowsAre DEF FlowLogin, HeldBy
  <2>5. Awaited(r) = 0
    BY <1>1, <1>5, <2>1, <2>3 DEF Awaited, RestAs
  <2>6. Carries(p, r)
    BY <2>1, <2>3, <2>4, <2>5, RestCarries
  <2>7. Follows(World, r)
    BY <1>6, <2>1, RestFollows
  <2>. QED BY <1>1, <1>4, <1>7, <2>1, <2>3, <2>6, <2>7, SettlesNot, SteadyStill
<1>8. CASE Put(t, d, Failed) /\ late' = late
  <2>1. d.at = "page" /\ (pending[t] # {} => d.on) /\ d.spent \subseteq p.spent
    BY <1>1, <1>3 DEF RestAs, Synced, Listening
  <2>2. Carries(p, d)
    BY <1>1, <1>3, SameFlowCarries
  <2>. QED BY <1>1, <1>3, <1>6, <1>8, <2>1, <2>2, PutsBlank
<1>. QED BY <1>1, <1>7, <1>8

\* A sign-out begins (flows.ts:76-77): what it holds is what the page has.
LEMMA RevokeOrdinary ==
  ASSUME Typed, Sound, Synced, NEW t \in Tabs, Revoke(t)
  PROVE  Ordinarily(t)
<1>. DEFINE p == tab[t]
            f == [op |-> "revoke", held |-> p.mem]
            r == [p EXCEPT !.flow = f]
<1>1. /\ p.at = "page" /\ p.flow = None /\ UNCHANGED <<setup, provider, out, crossed, took>> /\ (ops > 0 /\ ops' = ops - 1)
      /\ tab' = [tab EXCEPT ![t] = r] /\ UNCHANGED <<stored, pending, late>>
  BY DEF Revoke, Free, OnPage, Does, ghosts, Typed
<1>2. p \in Pages /\ GoodPage(World, p) /\ Follows(World, p) /\ p.mem \in Token
  BY PageIs
<1>3. f \in Flows /\ f.op = "revoke" /\ f.held = p.mem
  BY <1>2 DEF Flows
<1>. HIDE DEF f
<1>4. r \in Pages /\ RestAs(p, r) /\ r.sync = p.sync /\ r.user = p.user /\ r.flow = f
  BY <1>2, <1>3, FlowField
<1>. HIDE DEF r
<1>5. GoodFlow(World, f, p.key)
  BY <1>2, <1>3 DEF GoodFlow, GoodPage
<1>6. GoodPage(World, r) /\ Follows(World, r)
  BY <1>2, <1>4, <1>5, RestGood, RestFollows
<1>7. FlowLogin(f) = 0 /\ HeldBy(f) = {Numbers(p.mem)}
  BY <1>3, FlowsAre DEF FlowLogin, HeldBy
<1>8. Carries(p, r)
  <2>1. Awaited(r) = 0
    BY <1>1, <1>3, <1>4 DEF Awaited, RestAs
  <2>. QED BY <1>4, <1>7, <2>1, RestCarries
<1>9. Save(t, r, p.mem)
  BY <1>1, <1>4 DEF Save, RestAs
<1>. QED BY <1>1, <1>4, <1>6, <1>8, <1>9, SettlesNot, SteadyStill

\* A page q that was made at key k, with the callback's url u, is r, which has the token v, settled.
Made(r, q, k, v, u) ==
  /\ Settles(r, q) /\ Follows(World, q)
  /\ r.at = "page" /\ r.asked = 0 /\ r.url = u /\ r.key = k /\ r.wanted = k /\ r.mem = v
  /\ r.on /\ r.check = None /\ r.flow = None /\ r.sync = None /\ r.missed = FALSE /\ r.spent = {}

\* A page that starts has the key, the token and the callback it is given.
LEMMA PageStarts ==
  ASSUME setup \in Setups, Len(provider.of) \in Nat, NEW k \in Keys, NEW v \in Token, NEW u \in {0} \cup Logins
  PROVE  \E r \in Pages : Made(r, Page(k, v, u), k, v, u)
<1>. DEFINE a == [at |-> "page", asked |-> 0, url |-> u, done |-> {}, key |-> k, wanted |-> k, mem |-> v,
                  on |-> FALSE, check |-> None, flow |-> None, user |-> 0, sync |-> None,
                  watched |-> <<>>, missed |-> FALSE, spent |-> {}]
            r == [a EXCEPT !.on = TRUE]
<1>1. Page(k, v, u) = UserStart(TokenStart(a))
  BY DEF Page
<1>2. a \in Pages
  BY DEF Pages, Watched
<1>3. r.at = "page" /\ r.asked = 0 /\ r.url = u /\ r.key = k /\ r.wanted = k /\ r.mem = v
      /\ r.on /\ r.check = None /\ r.flow = None /\ r.sync = None /\ r.missed = FALSE /\ r.spent = {}
  OBVIOUS
<1>. HIDE DEF a
<1>4. r \in Pages /\ Settles(r, Page(k, v, u)) /\ Follows(World, Page(k, v, u))
  BY <1>1, <1>2, StartSettles, StartFollows
<1>. HIDE DEF r
<1>5. Made(r, Page(k, v, u), k, v, u)
  BY <1>3, <1>4 DEF Made
<1>. QED BY <1>4, <1>5

\* A page that is reloaded starts with what is stored.
LEMMA ReloadOrdinary ==
  ASSUME Typed, Sound, Synced, NEW t \in Tabs, Reload(t)
  PROVE  Ordinarily(t)
<1>. DEFINE p == tab[t]
            k == p.wanted
            q == Page(k, stored[k], p.url)
<1>1. /\ p.at = "page" /\ Save(t, q, stored[q.key]) /\ UNCHANGED <<setup, provider, out, crossed, took>>
      /\ (ops > 0 /\ ops' = ops - 1)
  BY DEF Reload, OnPage, Does
<1>2. p \in Pages /\ GoodPage(World, p) /\ k \in Keys /\ p.url \in {0} \cup Logins
  BY PageIs
<1>3. PICK r \in Pages : Made(r, q, k, stored[k], p.url)
  <2>1. stored[k] \in Token /\ setup \in Setups /\ Len(provider.of) \in Nat
    BY <1>2, WorldTypes DEF Typed
  <2>. QED BY <1>2, <2>1, PageStarts
<1>. HIDE DEF q
<1>4. /\ Meanwhile /\ World' = World /\ out' = out /\ provider'.of = provider.of /\ provider'.code = provider.code
      /\ took' = took
  BY <1>1, Still
<1>5. GoodPage(World, r)
  <2>1. Good(World, stored[k], k) /\ AtHome(World, 0, k) /\ AtHome(World, p.url, k)
    BY <1>2, WorldTypes DEF Sound, AtHome, GoodPage
  <2>. QED BY <1>3, <2>1 DEF GoodPage, Made
<1>6. Carries(p, r)
  BY <1>3 DEF Made, Carries, CheckNumber, FlowLogin, Awaited, HeldBy
<1>7. q.key = r.key
  BY <1>3, SettledCarries DEF Made
<1>8. \E j \in Keys, v \in Token : Moves(t, j, v) /\ Quiet(t, v) /\ Plain(t, v, {}) /\ Awaited(tab'[t]) \in {0, Awaited(p)}
  BY <1>1, <1>3, <1>4, <1>5, <1>6, <1>7, Loaded DEF Made
<1>. QED BY <1>4, <1>8 DEF Ordinarily, Unasked

-----------------------------------------------------------------------------
(* A page that is given another key, that hears, and that stops and starts. *)

\* With something under way as the key was switched, tokens may be of other tenants.
LEMMA GoodCrossed ==
  ASSUME NEW W, W.crossed, NEW j, NEW k
  PROVE  /\ \A l : AtHome(W, l, j) => AtHome(W, l, k)
         /\ \A w : Good(W, w, j) => Good(W, w, k)
         /\ \A c : GoodCheck(W, c, j) => GoodCheck(W, c, k)
         /\ \A f : GoodFlow(W, f, j) => GoodFlow(W, f, k)
<1>1. \A l : AtHome(W, l, j) => AtHome(W, l, k)
  BY DEF AtHome
<1>2. \A w : Good(W, w, j) => Good(W, w, k)
  BY <1>1 DEF Good
<1>3. \A c : GoodCheck(W, c, j) => GoodCheck(W, c, k)
  BY <1>2 DEF GoodCheck
<1>4. \A f : GoodFlow(W, f, j) => GoodFlow(W, f, k)
  BY <1>1, <1>2 DEF GoodFlow
<1>. QED BY <1>1, <1>2, <1>3, <1>4

\* The world stays but for what is known of keys.
LEMMA StillCrossing ==
  ASSUME Typed, UNCHANGED <<setup, provider, out, took>>, ops' = ops \/ (ops > 0 /\ ops' = ops - 1),
         crossed' \in BOOLEAN, crossed => crossed'
  PROVE  /\ Meanwhile /\ World'.of = World.of /\ World'.home = World.home /\ World'.crossed = crossed'
         /\ World'.rotates = World.rotates /\ WorldTyped(World')
<1>1. World' = WorldOf(provider, crossed', setup)
  BY DEF World, WorldOf
<1>2. WorldTyped(World')
  BY <1>1, WorldIs DEF Typed
<1>3. Grows(World, World')
  BY <1>1, WorldTypes DEF Grows, World, WorldOf
<1>4. ops' \in 0..setup.ops
  BY ClientAssumption DEF Typed
<1>. QED BY <1>1, <1>2, <1>3, <1>4 DEF Meanwhile, Typed, World, WorldOf

\* All but the keys, and whether the page listens, and has missed a write.
BesideKeys(p, q) ==
  /\ q.at = p.at /\ q.asked = p.asked /\ q.url = p.url /\ q.mem = p.mem /\ q.check = p.check /\ q.flow = p.flow
  /\ q.spent = p.spent /\ q.sync = p.sync /\ q.user = p.user /\ q.watched = p.watched

\* A page after the key it is configured for,
LEMMA WantedField ==
  ASSUME NEW p \in Pages, NEW k \in Keys
  PROVE  LET q == [p EXCEPT !.wanted = k] IN
         q \in Pages /\ BesideKeys(p, q) /\ q.wanted = k /\ q.key = p.key /\ q.on = p.on /\ q.missed = p.missed
BY DEF Pages, BesideKeys

\* the key it listens under,
LEMMA KeyField ==
  ASSUME NEW p \in Pages, NEW k \in Keys
  PROVE  LET q == [p EXCEPT !.key = k, !.missed = FALSE] IN
         q \in Pages /\ BesideKeys(p, q) /\ q.wanted = p.wanted /\ q.key = k /\ q.on = p.on /\ q.missed = FALSE
BY DEF Pages, BesideKeys

\* or what it has missed has changed,
LEMMA MissedField ==
  ASSUME NEW p \in Pages
  PROVE  LET q == [p EXCEPT !.missed = FALSE] IN
         q \in Pages /\ BesideKeys(p, q) /\ q.wanted = p.wanted /\ q.key = p.key /\ q.on = p.on /\ q.missed = FALSE
BY DEF Pages, BesideKeys

\* and after it has begun to listen.
LEMMA OnField ==
  ASSUME NEW p \in Pages
  PROVE  LET q == [p EXCEPT !.on = TRUE] IN
         q \in Pages /\ BesideKeys(p, q) /\ q.wanted = p.wanted /\ q.key = p.key /\ q.on /\ q.missed = p.missed
BY DEF Pages, BesideKeys

\* Keys bring no token.
LEMMA BesideKeysCarries ==
  ASSUME NEW p, NEW q, BesideKeys(p, q), p.at = "page"
  PROVE  Carries(p, q)
BY DEF BesideKeys, Carries, Awaited

\* A page which has another token too carries what it did, at another key if that is noted.
LEMMA LoadedCarries ==
  ASSUME NEW p, NEW y \in Pages, BesideKeys(p, y), p.at = "page", NEW v \in Token
  PROVE  LET r == [y EXCEPT !.mem = v] IN
         /\ r \in Pages /\ Carries(p, r) /\ r.mem = v /\ Keeps(y, r) /\ r.check = p.check /\ r.sync = p.sync
<1>. DEFINE r == [y EXCEPT !.mem = v]
<1>1. r \in Pages /\ r.mem = v /\ r.check = y.check /\ r.sync = y.sync /\ Keeps(y, r)
  BY TokenFields, PageFields
<1>. HIDE DEF r
<1>2. Carries(p, r)
  BY <1>1 DEF Keeps, BesideKeys, Carries, Awaited
<1>. QED BY <1>1, <1>2 DEF r, BesideKeys

\* A page that is switched to another key is good if nothing was under way, or that is recorded.
LEMMA RekeyedGood ==
  ASSUME NEW W, NEW p, NEW r, GoodPage(W, p), r.at = p.at, r.asked = p.asked, r.url = p.url, r.check = p.check,
         r.flow = p.flow, r.spent = p.spent, r.sync = p.sync, p.at = "page", r.key = r.wanted, Good(W, r.mem, r.key),
         W.crossed \/ (p.check = None /\ p.flow = None /\ p.url = 0), Len(W.home) \in Nat
  PROVE  GoodPage(W, r)
<1>1. AtHome(W, r.asked, r.wanted) /\ AtHome(W, r.url, r.wanted)
  BY GoodCrossed DEF GoodPage, AtHome
<1>2. (r.check # None => GoodCheck(W, r.check, r.key)) /\ (r.flow # None => GoodFlow(W, r.flow, r.key))
  BY GoodCrossed DEF GoodPage
<1>. QED BY <1>1, <1>2 DEF GoodPage

\* The key is switched (config.ts:50-51): the page takes what is stored under the new one.
LEMMA SetStorageKeyOrdinary ==
  ASSUME Typed, Sound, Synced, NEW t \in Tabs, NEW k \in Keys, SetStorageKey(t, k)
  PROVE  Ordinarily(t)
<1>. DEFINE p == tab[t]
            x == [p EXCEPT !.wanted = k]
            y == [x EXCEPT !.key = k, !.missed = FALSE]
            r == [y EXCEPT !.mem = stored[k]]
            q == SetState(y, stored[k])
<1>1. /\ p.at = "page" /\ (ops > 0 /\ ops' = ops - 1) /\ UNCHANGED <<setup, provider, out, took>>
      /\ IF x.on THEN Save(t, q, stored[k]) ELSE Save(t, x, x.mem)
      /\ crossed' = (crossed \/ ~p.on \/ p.check # None \/ p.flow # None \/ p.url # 0)
  BY DEF SetStorageKey, OnPage, Does, Rekeyed
<1>2. p \in Pages /\ GoodPage(World, p) /\ Follows(World, p) /\ setup \in Setups /\ Len(provider.of) \in Nat
      /\ stored[k] \in Token /\ World.home = provider.home /\ Len(provider.home) \in Nat /\ WorldTyped(World)
  BY PageIs, WorldTypes DEF Typed
<1>3. x \in Pages /\ BesideKeys(p, x) /\ x.wanted = k /\ x.key = p.key /\ x.on = p.on /\ x.missed = p.missed
  BY <1>2, WantedField
<1>. HIDE DEF x
<1>4. y \in Pages /\ BesideKeys(x, y) /\ y.wanted = k /\ y.key = k /\ y.on = p.on /\ y.missed = FALSE
  BY <1>3, KeyField
<1>5. BesideKeys(p, y)
  BY <1>3, <1>4 DEF BesideKeys
<1>. HIDE DEF y
<1>6. crossed \in BOOLEAN
  BY DEF Typed
<1>7. /\ Meanwhile /\ World'.of = World.of /\ World'.home = World.home /\ World'.crossed = crossed'
      /\ World'.rotates = World.rotates /\ WorldTyped(World')
  BY <1>1, <1>6, StillCrossing
<1>8. GoodPage(World', p) /\ Good(World', stored[k], k)
  BY <1>2, <1>7, GoodPageKept, GoodKept DEF Meanwhile, Sound
<1>9. out' = out /\ provider'.of = provider.of /\ provider'.code = provider.code /\ took' = took
  BY <1>1
<1>10. CASE p.on
  <2>1. r \in Pages /\ Carries(p, r) /\ r.mem = stored[k] /\ Keeps(y, r) /\ r.check = p.check /\ r.sync = p.sync
    BY <1>1, <1>2, <1>4, <1>5, LoadedCarries
  <2>2. Settles(r, q)
    BY <1>2, <1>4, SetStateSettles
  <2>3. Follows(World, q)
    <3>1. Follows(World, y)
      BY <1>2, <1>4, <1>5, FollowsAs DEF ProfileAs, BesideKeys
    <3>. QED BY <1>2, <1>4, <3>1, SetStateFollows
  <2>. HIDE DEF r, q
  <2>4. /\ r.at = p.at /\ r.asked = p.asked /\ r.url = p.url /\ r.flow = p.flow /\ r.spent = p.spent /\ r.key = k
        /\ r.wanted = k /\ r.on
    BY <1>4, <1>5, <1>10, <2>1 DEF Keeps, BesideKeys
  <2>5. GoodPage(World', r)
    <3>1. World'.crossed \/ (p.check = None /\ p.flow = None /\ p.url = 0)
      BY <1>1, <1>7
    <3>2. Len(World'.home) \in Nat /\ Good(World', r.mem, r.key)
      BY <1>2, <1>7, <1>8, <2>1, <2>4
    <3>. QED BY <1>1, <1>8, <2>1, <2>4, <3>1, <3>2, RekeyedGood
  <2>6. Save(t, q, stored[r.key])
    BY <1>1, <1>3, <1>10, <2>4
  <2>7. \E j \in Keys, v \in Token : Moves(t, j, v) /\ Quiet(t, v) /\ Plain(t, v, {}) /\ Awaited(tab'[t]) \in {0, Awaited(p)}
    BY <1>1, <1>7, <1>9, <2>1, <2>2, <2>3, <2>4, <2>5, <2>6, Loaded
  <2>. QED BY <1>9, <2>7 DEF Ordinarily, Unasked
<1>11. CASE ~p.on
  <2>1. GoodPage(World', x)
    <3>1. World'.crossed
      BY <1>1, <1>7, <1>11
    <3>2. AtHome(World', x.asked, k) /\ AtHome(World', x.url, k)
      BY <1>3, <1>8, <3>1, GoodCrossed DEF GoodPage, BesideKeys
    <3>. QED BY <1>3, <1>8, <1>11, <3>1, <3>2 DEF GoodPage, BesideKeys
  <2>2. Follows(World, x)
    BY <1>2, <1>3, FollowsAs DEF ProfileAs, BesideKeys
  <2>3. Save(t, x, p.mem) /\ Carries(p, x) /\ Settles(x, x)
    BY <1>1, <1>3, <1>11, BesideKeysCarries, SettlesNot DEF BesideKeys
  <2>4. x.at = "page" /\ x.mem = p.mem /\ x.spent \subseteq p.spent
    BY <1>1, <1>3 DEF BesideKeys
  <2>5. \E j \in Keys, v \in Token : Moves(t, j, v) /\ Quiet(t, v) /\ Plain(t, v, {}) /\ Awaited(tab'[t]) \in {0, Awaited(p)}
    BY <1>1, <1>3, <1>7, <1>9, <1>11, <2>1, <2>2, <2>3, <2>4, Steady
  <2>. QED BY <1>9, <2>5 DEF Ordinarily, Unasked
<1>. QED BY <1>10, <1>11

\* The page listens again: it takes what is stored.
LEMMA RestartOrdinary ==
  ASSUME Typed, Sound, Synced, NEW t \in Tabs, Restart(t)
  PROVE  Ordinarily(t)
<1>. DEFINE p == tab[t]
            k == p.wanted
<1>1. /\ p.at = "page" /\ ~p.on /\ UNCHANGED <<setup, provider, ops, out, crossed, took>>
      /\ k = p.key => Save(t, UserStart(TokenStart(p)), p.mem)
      /\ k # p.key => Save(t, UserStart(TokenStart(Rekeyed(p, k))), stored[k])
  BY DEF Restart, OnPage
<1>2. p \in Pages /\ GoodPage(World, p) /\ setup \in Setups /\ Len(provider.of) \in Nat /\ k \in Keys
      /\ stored[k] \in Token /\ World.crossed = crossed /\ Len(World.home) \in Nat /\ Good(World, stored[k], k)
  BY PageIs, WorldTypes DEF Typed, Sound
<1>3. /\ Meanwhile /\ World' = World /\ out' = out /\ provider'.of = provider.of /\ provider'.code = provider.code
      /\ took' = took
  BY <1>1, Still
<1>4. CASE k = p.key
  <2>. DEFINE r == [p EXCEPT !.on = TRUE]
              q == UserStart(TokenStart(p))
  <2>1. r \in Pages /\ BesideKeys(p, r) /\ r.wanted = p.wanted /\ r.key = p.key /\ r.on /\ r.missed = p.missed
    BY <1>2, OnField
  <2>2. Settles(r, q) /\ Follows(World, q)
    BY <1>2, StartSettles, StartFollows
  <2>. HIDE DEF r, q
  <2>3. r.at = "page" /\ r.mem = p.mem /\ r.spent \subseteq p.spent /\ Carries(p, r)
    BY <1>1, <2>1, BesideKeysCarries DEF BesideKeys
  <2>4. GoodPage(World, r)
    BY <1>2, <1>4, <2>1 DEF GoodPage, BesideKeys
  <2>5. Save(t, q, p.mem)
    BY <1>1, <1>4 DEF q
  <2>6. \E j \in Keys, v \in Token : Moves(t, j, v) /\ Quiet(t, v) /\ Plain(t, v, {}) /\ Awaited(tab'[t]) \in {0, Awaited(p)}
    BY <1>1, <1>3, <2>1, <2>2, <2>3, <2>4, <2>5, Steady
  <2>. QED BY <1>3, <2>6 DEF Ordinarily, Unasked
<1>5. CASE k # p.key
  <2>. DEFINE y == [p EXCEPT !.key = k, !.missed = FALSE]
              s == [y EXCEPT !.mem = stored[k]]
              r == [s EXCEPT !.on = TRUE]
              q == UserStart(TokenStart(s))
  <2>1. y \in Pages /\ BesideKeys(p, y) /\ y.wanted = k /\ y.key = k /\ y.on = p.on /\ y.missed = FALSE
    BY <1>2, KeyField
  <2>2. Rekeyed(p, k) = SetState(y, stored[k])
    BY DEF Rekeyed
  <2>. HIDE DEF y
  <2>3. s \in Pages /\ Carries(p, s) /\ s.mem = stored[k] /\ Keeps(y, s) /\ s.check = p.check /\ s.sync = p.sync
    BY <1>1, <1>2, <2>1, LoadedCarries
  <2>4. SetState(y, stored[k]) = s
    <3>1. ~y.on /\ ~s.on
      BY <1>1, <2>1, <2>3 DEF Keeps
    <3>. QED BY <3>1 DEF SetState, Watch
  <2>. HIDE DEF s
  <2>5. r \in Pages /\ BesideKeys(s, r) /\ r.wanted = s.wanted /\ r.key = s.key /\ r.on /\ r.missed = s.missed
    BY <2>3, OnField
  <2>6. Settles(r, q) /\ Follows(World, q)
    BY <1>2, <2>3, StartSettles, StartFollows
  <2>. HIDE DEF r
  <2>7. /\ r.at = p.at /\ r.asked = p.asked /\ r.url = p.url /\ r.flow = p.flow /\ r.spent = p.spent /\ r.key = k
        /\ r.wanted = k /\ r.on /\ r.mem = stored[k] /\ r.check = p.check /\ r.sync = p.sync
    BY <2>1, <2>3, <2>5 DEF Keeps, BesideKeys
  <2>8. GoodPage(World, r)
    <3>1. World.crossed
      BY <1>2, <1>5 DEF GoodPage
    <3>. QED BY <1>1, <1>2, <2>7, <3>1, RekeyedGood
  <2>9. Save(t, q, stored[r.key])
    BY <1>1, <1>5, <2>2, <2>4, <2>7
  <2>10. Carries(p, r)
    BY <2>3, <2>5 DEF Carries, BesideKeys, Awaited
  <2>. HIDE DEF q
  <2>11. \E j \in Keys, v \in Token : Moves(t, j, v) /\ Quiet(t, v) /\ Plain(t, v, {}) /\ Awaited(tab'[t]) \in {0, Awaited(p)}
    BY <1>1, <1>3, <2>5, <2>6, <2>7, <2>8, <2>9, <2>10, Loaded
  <2>. QED BY <1>3, <2>11 DEF Ordinarily, Unasked
<1>. QED BY <1>4, <1>5

\* An event reaches the page, which takes what is stored under its key.
LEMMA DeliverOrdinary ==
  ASSUME Typed, Sound, Synced, NEW t \in Tabs, NEW k \in Keys, Deliver(t, k)
  PROVE  Ordinarily(t)
<1>. DEFINE p == tab[t]
<1>1. k \in pending[t] /\ UNCHANGED <<setup, provider, ops, out, late, crossed, took>>
  BY DEF Deliver, ghosts
<1>2. p \in Pages /\ GoodPage(World, p) /\ setup \in Setups /\ Len(provider.of) \in Nat /\ p.at = "page" /\ p.on
      /\ stored[k] \in Token /\ Follows(World, p)
  BY <1>1, PageIs DEF Typed, Synced, Listening
<1>3. /\ Meanwhile /\ World' = World /\ out' = out /\ provider'.of = provider.of /\ provider'.code = provider.code
      /\ took' = took
  BY <1>1, Still
<1>4. stored \in [Keys -> Token] /\ tab \in [Tabs -> Pages] /\ pending \in [Tabs -> SUBSET Keys] /\ late \subseteq Issued
  BY DEF Typed
<1>5. CASE p.key = k
  <2>. DEFINE y == [p EXCEPT !.missed = FALSE]
              r == [y EXCEPT !.mem = stored[k]]
              q == SetState(y, stored[k])
  <2>0. /\ tab' = Missed(t, k, q.mem, q) /\ stored' = [stored EXCEPT ![k] = q.mem]
        /\ pending' = [Sent(t, k, q.mem) EXCEPT ![t] = @ \ {k}]
    BY <1>5 DEF Deliver
  <2>1. y \in Pages /\ BesideKeys(p, y) /\ y.wanted = p.wanted /\ y.key = k /\ y.on = p.on /\ y.missed = FALSE
    BY <1>2, <1>5, MissedField
  <2>. HIDE DEF y
  <2>2. r \in Pages /\ Carries(p, r) /\ r.mem = stored[k] /\ Keeps(y, r) /\ r.check = p.check /\ r.sync = p.sync
    BY <1>2, <2>1, LoadedCarries
  <2>3. Settles(r, q)
    BY <1>2, <2>1, SetStateSettles
  <2>4. Follows(World, q)
    <3>1. Follows(World, y)
      BY <1>2, <2>1, FollowsAs DEF ProfileAs, BesideKeys
    <3>. QED BY <1>2, <2>1, <3>1, SetStateFollows
  <2>. HIDE DEF r, q
  <2>5. /\ r.at = p.at /\ r.asked = p.asked /\ r.url = p.url /\ r.flow = p.flow /\ r.spent = p.spent /\ r.key = k
        /\ r.wanted = p.wanted /\ r.on
    BY <1>2, <2>1, <2>2 DEF Keeps, BesideKeys
  <2>6. GoodPage(World, r)
    <3>1. Good(World, stored[k], k)
      BY DEF Sound
    <3>. QED BY <1>2, <1>5, <2>2, <2>5, <3>1 DEF GoodPage
  <2>7. q \in Pages /\ q.mem \in Token /\ q.key = k
    BY <2>2, <2>3, <2>5, SettledCarries
  <2>8. tab' \in [Tabs -> Pages] /\ tab'[t] = q
    <3>1. \A u \in Tabs : tab[u] \in Pages /\ [tab[u] EXCEPT !.missed = TRUE] \in Pages
      BY <1>4, PageFields
    <3>. QED BY <2>0, <2>7, <3>1 DEF Missed
  <2>9. pending' \in [Tabs -> SUBSET Keys] /\ pending'[t] \subseteq pending[t]
        /\ \A u \in Tabs \ {t} : pending'[u] = IF q.mem # stored[k] /\ Listening(u) THEN pending[u] \cup {k} ELSE pending[u]
    BY <1>4, <2>0 DEF Sent
  <2>10. Spread(t, k, q.mem)
    BY <2>0, <2>9 DEF Spread, Missed
  <2>11. \E j \in Keys, v \in Token : Moves(t, j, v) /\ Quiet(t, v) /\ Plain(t, v, {}) /\ Awaited(tab'[t]) \in {0, Awaited(p)}
    BY <1>1, <1>2, <1>3, <1>4, <2>2, <2>3, <2>4, <2>5, <2>6, <2>7, <2>8, <2>9, <2>10, LoadedWrites
  <2>. QED BY <1>3, <2>11 DEF Ordinarily, Unasked
<1>6. CASE p.key # k
  <2>. DEFINE D == pending[t] \ {k}
  <2>1. stored' = stored /\ late' = late /\ pending' = [pending EXCEPT ![t] = D] /\ tab' = [tab EXCEPT ![t] = p]
    BY <1>1, <1>4, <1>6 DEF Deliver
  <2>2. tab'[t] = p /\ Moves(t, p.key, stored[p.key])
    <3>1. D \subseteq pending[t] /\ (p.key \in pending[t] \/ p.missed => p.key \in D \/ p.missed)
      BY <1>6
    <3>2. GoodPage(World', p) /\ Follows(World', p)
      BY <1>2, <1>3
    <3>. HIDE DEF D
    <3>. QED BY <1>2, <1>3, <2>1, <3>1, <3>2, Silent
  <2>3. Quiet(t, stored[p.key]) /\ Plain(t, stored[p.key], {}) /\ Awaited(tab'[t]) \in {0, Awaited(p)}
    BY <1>1, <1>3, <2>2, CarriesItself, SilentQuiet
  <2>4. p.key \in Keys /\ stored[p.key] \in Token
    BY <1>2, <1>4 DEF Pages
  <2>. QED BY <1>3, <2>2, <2>3, <2>4 DEF Ordinarily, Unasked
<1>. QED BY <1>5, <1>6

\* The page stops listening.
LEMMA DisposeOrdinary ==
  ASSUME Typed, Sound, Synced, NEW t \in Tabs, Dispose(t)
  PROVE  Ordinarily(t)
<1>. DEFINE p == tab[t]
            m == p.missed \/ p.key \in pending[t]
            r == [p EXCEPT !.on = FALSE, !.sync = None, !.missed = m]
<1>1. /\ p.at = "page" /\ p.on /\ (ops > 0 /\ ops' = ops - 1) /\ UNCHANGED <<setup, stored, provider, out, late, crossed, took>>
      /\ pending' = [pending EXCEPT ![t] = {}]
      /\ tab' = [tab EXCEPT ![t].on = FALSE, ![t].sync = None, ![t].missed = @ \/ tab[t].key \in pending[t]]
  BY DEF Dispose, OnPage, Does, ghosts
<1>2. p \in Pages /\ GoodPage(World, p)
  BY PageIs
<1>3. /\ Meanwhile /\ World' = World /\ out' = out /\ provider'.of = provider.of /\ provider'.code = provider.code
      /\ took' = took
  BY <1>1, Still
<1>4. m \in BOOLEAN
  BY <1>2 DEF Pages
<1>. HIDE DEF m
<1>5. /\ r.at = p.at /\ r.asked = p.asked /\ r.url = p.url /\ r.key = p.key /\ r.wanted = p.wanted /\ r.mem = p.mem
      /\ r.check = p.check /\ r.flow = p.flow /\ r.spent = p.spent /\ r.sync = None /\ ~r.on /\ r.missed = m
  BY <1>2 DEF Pages
<1>6. r \in Pages
  BY <1>2, <1>4 DEF Pages
<1>7. tab' = [tab EXCEPT ![t] = r]
  <2>1. tab \in [Tabs -> Pages]
    BY DEF Typed
  <2>. QED BY <1>1, <1>2, <2>1 DEF m, Pages
<1>. HIDE DEF r
<1>8. GoodPage(World, r) /\ Follows(World, r)
  BY <1>2, <1>5 DEF GoodPage, Follows
<1>9. tab'[t] = r /\ Moves(t, p.key, stored[p.key])
  <2>. DEFINE D == {}
  <2>1. D \subseteq pending[t] /\ D = {} /\ (p.key \in pending[t] \/ p.missed => p.key \in D \/ r.missed)
    BY <1>5 DEF m
  <2>2. pending' = [pending EXCEPT ![t] = D]
    BY <1>1
  <2>3. GoodPage(World', r) /\ Follows(World', r)
    BY <1>3, <1>8
  <2>. HIDE DEF D
  <2>. QED BY <1>1, <1>3, <1>5, <1>6, <1>7, <2>1, <2>2, <2>3, Silent
<1>10. Carries(p, r) /\ r.spent \subseteq p.spent
  BY <1>1, <1>5 DEF Carries, Awaited
<1>11. Quiet(t, stored[p.key]) /\ Plain(t, stored[p.key], {}) /\ Awaited(tab'[t]) \in {0, Awaited(p)}
  BY <1>1, <1>3, <1>5, <1>9, <1>10, SilentQuiet
<1>12. p.key \in Keys /\ stored[p.key] \in Token
  BY <1>2 DEF Pages, Typed
<1>. QED BY <1>3, <1>9, <1>11, <1>12 DEF Ordinarily, Unasked

-----------------------------------------------------------------------------
(* Answers that bring no token. *)

\* All but the check, the flow, and what waits for a check.
BesideAnswers(p, q) ==
  /\ q.at = p.at /\ q.asked = p.asked /\ q.url = p.url /\ q.key = p.key /\ q.wanted = p.wanted /\ q.mem = p.mem
  /\ q.on = p.on /\ q.missed = p.missed /\ q.spent = p.spent /\ q.watched = p.watched /\ q.user = p.user

\* A page after its check has changed.
LEMMA CheckField ==
  ASSUME NEW p \in Pages, NEW x \in Checks \cup {None}
  PROVE  LET q == [p EXCEPT !.check = x] IN
         q \in Pages /\ BesideAnswers(p, q) /\ q.check = x /\ q.flow = p.flow /\ q.sync = p.sync
BY DEF Pages, BesideAnswers

\* A page of another flow differs in its answers only.
LEMMA BesideFlow ==
  ASSUME NEW p, NEW q, RestAs(p, q), q.user = p.user
  PROVE  BesideAnswers(p, q) /\ q.check = p.check
BY DEF RestAs, BesideAnswers

\* A check that has been answered is of the token it was of.
LEMMA CheckAnswer ==
  ASSUME NEW c \in Checks, NEW x \in Token \cup {None, Lost}
  PROVE  LET d == [c EXCEPT !.answer = x] IN d \in Checks /\ d.of = c.of /\ d.answer = x
BY DEF Checks

\* A page with good answers is good,
LEMMA AnswersGood ==
  ASSUME NEW W, NEW p, NEW q, BesideAnswers(p, q), GoodPage(W, p),
         q.check # None => GoodCheck(W, q.check, p.key),
         q.flow # None => q.flow = p.flow \/ GoodFlow(W, q.flow, p.key),
         q.sync # None => q.sync = p.sync \/ SyncIssued(Len(W.of), q.sync)
  PROVE  GoodPage(W, q)
BY DEF BesideAnswers, GoodPage

\* and its profile follows.
LEMMA AnswersFollow ==
  ASSUME NEW W, NEW p, NEW q, BesideAnswers(p, q), q.sync = p.sync, Follows(W, p)
  PROVE  Follows(W, q)
BY FollowsAs DEF BesideAnswers, ProfileAs

\* The world as it is told by what was issued.
LEMMA StillIssued ==
  ASSUME Typed, UNCHANGED <<setup, ops, out, crossed, took>>, ProviderTyped(provider'), provider'.of = provider.of,
         provider'.home = provider.home
  PROVE  Meanwhile /\ World' = World
<1>1. World' = World
  BY DEF World, WorldOf
<1>2. Grows(World, World)
  BY WorldTypes DEF Grows
<1>. QED BY <1>1, <1>2 DEF Meanwhile, Typed

\* An answer that brings no token, or a step that only asks.
LEMMA SilentOrdinary ==
  ASSUME Typed, Sound, Synced, NEW t \in Tabs, NEW r \in Pages, tab' = [tab EXCEPT ![t] = r],
         UNCHANGED <<setup, stored, pending, ops, out, late, crossed, took>>, ProviderTyped(provider'),
         provider'.of = provider.of, provider'.home = provider.home, provider'.code = provider.code,
         tab[t].at = "page", BesideAnswers(tab[t], r), GoodPage(World, r), Follows(World, r), Carries(tab[t], r)
  PROVE  Ordinarily(t)
<1>. DEFINE p == tab[t]
            D == pending[t]
<1>1. Meanwhile /\ World' = World
  BY StillIssued
<1>2. /\ r.at = "page" /\ r.key = p.key /\ r.mem = p.mem /\ r.missed = p.missed /\ r.on = p.on /\ r.spent = p.spent
  BY DEF BesideAnswers
<1>3. /\ D \subseteq pending[t] /\ (p.key \in pending[t] \/ p.missed => p.key \in D \/ r.missed)
      /\ (D # {} => r.at = "page" /\ r.on) /\ pending' = [pending EXCEPT ![t] = D] /\ stored' = stored /\ late' = late
  BY <1>2 DEF Synced, Listening, Typed
<1>4. GoodPage(World', r) /\ Follows(World', r)
  BY <1>1
<1>. HIDE DEF D
<1>5. tab'[t] = r /\ Moves(t, p.key, stored[p.key])
  BY <1>1, <1>2, <1>3, <1>4, Silent
<1>6. Quiet(t, stored[p.key]) /\ Plain(t, stored[p.key], {}) /\ Awaited(tab'[t]) \in {0, Awaited(p)}
  BY <1>2, <1>3, <1>5, SilentQuiet
<1>7. p.key \in Keys /\ stored[p.key] \in Token
  BY PageIs DEF Typed
<1>. QED BY <1>5, <1>6, <1>7 DEF Ordinarily, Unasked

\* The check is answered with no token.
LEMMA CheckFailsOrdinary ==
  ASSUME Typed, Sound, Synced, NEW t \in Tabs, NEW x \in {Failed, Lost}, tab[t].at = "page", tab[t].check # None,
         tab' = [tab EXCEPT ![t].check.answer = x], ProviderTyped(provider'),
         provider'.of = provider.of, provider'.home = provider.home, provider'.code = provider.code,
         UNCHANGED <<setup, stored, pending, ops, out, late, crossed, took>>
  PROVE  Ordinarily(t)
<1>. DEFINE p == tab[t]
            c == p.check
            d == [c EXCEPT !.answer = x]
            r == [p EXCEPT !.check = d]
<1>1. p \in Pages /\ c \in Checks /\ GoodPage(World, p) /\ Follows(World, p) /\ tab \in [Tabs -> Pages]
  BY PageIs DEF Typed
<1>2. d \in Checks /\ d.of = c.of /\ d.answer = x
  <2>1. x \in Token \cup {None, Lost}
    BY TokensAre
  <2>. QED BY <1>1, <2>1, CheckAnswer
<1>3. tab' = [tab EXCEPT ![t] = r]
  BY <1>1 DEF Pages
<1>. HIDE DEF d
<1>4. r \in Pages /\ BesideAnswers(p, r) /\ r.check = d /\ r.flow = p.flow /\ r.sync = p.sync
  BY <1>1, <1>2, CheckField
<1>. HIDE DEF r
<1>5. GoodPage(World, r) /\ Follows(World, r)
  <2>1. GoodCheck(World, c, p.key)
    BY <1>1 DEF GoodPage
  <2>2. GoodCheck(World, d, p.key)
    BY <1>2, <2>1, NoneAssumption DEF GoodCheck
  <2>. QED BY <1>1, <1>4, <2>2, AnswersGood, AnswersFollow
<1>6. Carries(p, r)
  <2>1. CheckNumber(d) = 0
    BY <1>2, TokensAre, NoneAssumption DEF CheckNumber
  <2>. QED BY <1>2, <1>4, <2>1 DEF Carries, BesideAnswers, Awaited
<1>. QED BY <1>3, <1>4, <1>5, <1>6, SilentOrdinary

\* The flow, a sign-in, is answered with no token.
LEMMA FlowAnswer ==
  ASSUME NEW f \in Flows
  PROVE  /\ f.op = "password" => \A x \in Token \cup {None} : LET g == [f EXCEPT !.answer = x] IN
              g \in Flows /\ g.op = f.op /\ g.login = f.login /\ g.answer = x
         /\ f.op = "callback" => \A x \in Token \cup {None, Lost} : LET g == [f EXCEPT !.answer = x] IN
              g \in Flows /\ g.op = f.op /\ g.login = f.login /\ g.held = f.held /\ g.answer = x
BY DEF Flows

\* A flow is answered with no token.
LEMMA FlowFailsOrdinary ==
  ASSUME Typed, Sound, Synced, NEW t \in Tabs, NEW x \in {Failed, Nothing, Lost}, tab[t].at = "page", tab[t].flow # None,
         (tab[t].flow.op = "callback" /\ x # Nothing) \/ (tab[t].flow.op = "password" /\ x # Lost),
         tab' = [tab EXCEPT ![t].flow.answer = x], ProviderTyped(provider'),
         provider'.of = provider.of, provider'.home = provider.home, provider'.code = provider.code,
         UNCHANGED <<setup, stored, pending, ops, out, late, crossed, took>>
  PROVE  Ordinarily(t)
<1>. DEFINE p == tab[t]
            f == p.flow
            g == [f EXCEPT !.answer = x]
            r == [p EXCEPT !.flow = g]
<1>1. p \in Pages /\ f \in Flows /\ GoodPage(World, p) /\ Follows(World, p) /\ tab \in [Tabs -> Pages]
  BY PageIs DEF Typed
<1>2. g \in Flows /\ g.op = f.op /\ g.login = f.login /\ g.answer = x /\ (g.op = "callback" => g.held = f.held)
  BY <1>1, FlowAnswer, TokensAre
<1>3. tab' = [tab EXCEPT ![t] = r]
  BY <1>1 DEF Pages
<1>. HIDE DEF g
<1>4. r \in Pages /\ RestAs(p, r) /\ r.sync = p.sync /\ r.user = p.user /\ r.flow = g
  BY <1>1, <1>2, FlowField
<1>. HIDE DEF r
<1>5. GoodFlow(World, g, p.key)
  <2>1. GoodFlow(World, f, p.key)
    BY <1>1 DEF GoodPage
  <2>2. x \in Token => Good(World, x, p.key) /\ x.access = 0
    BY TokensAre, NoneAssumption, WorldTypes DEF Good
  <2>3. x \in Token /\ ~x.error => g.op = "password"
    BY <1>2, TokensAre, NoneAssumption
  <2>. QED BY <1>2, <2>1, <2>2, <2>3 DEF GoodFlow
<1>6. GoodPage(World, r) /\ Follows(World, r)
  BY <1>1, <1>4, <1>5, RestGood, RestFollows
<1>7. Carries(p, r)
  <2>1. FlowLogin(g) = 0
    BY <1>2, TokensAre, NoneAssumption DEF FlowLogin
  <2>2. HeldBy(g) = HeldBy(f)
    BY <1>1, <1>2, NoneAssumption DEF HeldBy
  <2>3. Awaited(r) = 0
    BY <1>2, <1>4, TokensAre, NoneAssumption DEF Awaited, RestAs
  <2>. QED BY <1>4, <2>1, <2>2, <2>3, RestCarries
<1>. QED BY <1>3, <1>4, <1>6, <1>7, SilentOrdinary, BesideFlow

\* Whoever waited for a check goes on, with the token there is.
LEMMA ReleasedIs ==
  ASSUME setup \in Setups, NEW p \in Pages, p.mem.access <= Len(provider.of), Len(provider.of) \in Nat
  PROVE  LET q == Released(p) IN
         /\ q \in Pages /\ BesideAnswers(p, q) /\ q.check = p.check
         /\ q.flow # None <=> p.flow # None
         /\ \/ q.flow = p.flow
            \/ /\ p.flow # None /\ q.flow # None /\ p.flow.op = "call" /\ q.flow.op = "call"
               /\ q.flow.access <= Len(provider.of)
         /\ \/ q.sync = p.sync
            \/ /\ p.sync # None /\ q.sync # None /\ p.sync.pc = "waiting" /\ q.sync.pc = "sent" /\ q.sync.id = p.sync.id
               /\ q.sync.access \in {0, p.mem.access}
<1>. DEFINE a == AccessToken(p.mem)
            f == IF p.flow # None /\ p.flow.op = "call" /\ p.flow.pc = "waiting"
                 THEN [p.flow EXCEPT !.pc = "sent", !.access = a] ELSE p.flow
            s == IF p.sync # None /\ p.sync.pc = "waiting" THEN [p.sync EXCEPT !.pc = "sent", !.access = a] ELSE p.sync
            r == [p EXCEPT !.flow = f]
<1>1. Released(p) = [r EXCEPT !.sync = s]
  BY DEF Released, Pages
<1>2. p.mem \in Token /\ p.flow \in Flows \cup {None} /\ p.sync \in Syncs \cup {None}
  BY DEF Pages
<1>3. a \in {0} \cup Issued /\ a \in {0, p.mem.access} /\ a <= Len(provider.of)
  BY <1>2, DerivedAre
<1>. HIDE DEF a
<1>4. f \in Flows \cup {None}
      /\ (f = p.flow \/ (p.flow # None /\ f # None /\ p.flow.op = "call" /\ f.op = "call" /\ f.access = a))
  <2>. DEFINE g == [p.flow EXCEPT !.pc = "sent", !.access = a]
  <2>1. CASE p.flow # None /\ p.flow.op = "call" /\ p.flow.pc = "waiting"
    <3>1. p.flow \in [op : {"call"}, pc : {"waiting", "sent"}, access : {0} \cup Issued]
      BY <1>2, <2>1 DEF Flows
    <3>2. g \in [op : {"call"}, pc : {"waiting", "sent"}, access : {0} \cup Issued] /\ g.access = a /\ g.op = "call"
      BY <1>3, <3>1
    <3>3. g \in Flows /\ f = g
      BY <2>1, <3>2 DEF Flows
    <3>. QED BY <2>1, <3>2, <3>3, NoneAssumption
  <2>2. CASE ~(p.flow # None /\ p.flow.op = "call" /\ p.flow.pc = "waiting")
    BY <1>2, <2>2
  <2>. QED BY <2>1, <2>2
<1>5. s \in Syncs \cup {None}
      /\ (s = p.sync \/ (p.sync # None /\ s # None /\ p.sync.pc = "waiting" /\ s.pc = "sent" /\ s.id = p.sync.id /\ s.access = a))
  <2>. DEFINE g == [p.sync EXCEPT !.pc = "sent", !.access = a]
  <2>1. CASE p.sync # None /\ p.sync.pc = "waiting"
    <3>1. p.sync \in Syncs
      BY <1>2, <2>1
    <3>2. g \in Syncs /\ g.access = a /\ g.pc = "sent" /\ g.id = p.sync.id
      BY <1>3, <3>1 DEF Syncs
    <3>3. s = g
      BY <2>1
    <3>. QED BY <2>1, <3>2, <3>3, NoneAssumption
  <2>2. CASE ~(p.sync # None /\ p.sync.pc = "waiting")
    BY <1>2, <2>2
  <2>. QED BY <2>1, <2>2
<1>. HIDE DEF f, s
<1>6. r \in Pages /\ RestAs(p, r) /\ r.sync = p.sync /\ r.user = p.user /\ r.flow = f
  BY <1>4, FlowField
<1>. HIDE DEF r
<1>7. LET q == [r EXCEPT !.sync = s] IN q \in Pages /\ RestAs(r, q) /\ q.flow = r.flow /\ q.user = r.user /\ q.sync = s
  BY <1>5, <1>6, SyncField
<1>. DEFINE q == [r EXCEPT !.sync = s]
<1>. HIDE DEF q
<1>8. q \in Pages /\ BesideAnswers(p, q) /\ q.check = p.check /\ q.flow = f /\ q.sync = s
  BY <1>6, <1>7, RestTwice, BesideFlow DEF q
<1>9. Released(p) = q
  BY <1>1 DEF q
<1>. QED BY <1>3, <1>4, <1>5, <1>8, <1>9

\* A page whose check has ended: whoever waited goes on.
LEMMA ReleasedGood ==
  ASSUME Typed, NEW p \in Pages, NEW W, GoodPage(W, p), Follows(W, p), p.mem.access <= Len(provider.of),
         Len(provider.of) \in Nat, Len(W.of) \in Nat, Len(provider.of) <= Len(W.of)
  PROVE  LET q == Released(p) IN
         /\ q \in Pages /\ BesideAnswers(p, q) /\ q.check = p.check /\ GoodPage(W, q) /\ Follows(W, q)
         /\ FlowLogin(q.flow) = FlowLogin(p.flow) /\ HeldBy(q.flow) = HeldBy(p.flow)
         /\ p.at = "page" => Awaited(q) = Awaited(p)
<1>. DEFINE q == Released(p)
<1>1. /\ q \in Pages /\ BesideAnswers(p, q) /\ q.check = p.check
      /\ q.flow # None <=> p.flow # None
      /\ \/ q.flow = p.flow
         \/ /\ p.flow # None /\ q.flow # None /\ p.flow.op = "call" /\ q.flow.op = "call"
            /\ q.flow.access <= Len(provider.of)
      /\ \/ q.sync = p.sync
         \/ /\ p.sync # None /\ q.sync # None /\ p.sync.pc = "waiting" /\ q.sync.pc = "sent" /\ q.sync.id = p.sync.id
            /\ q.sync.access \in {0, p.mem.access}
  BY ReleasedIs DEF Typed
<1>. HIDE DEF q
<1>2. p.mem \in Token /\ q.flow \in Flows \cup {None} /\ p.sync \in Syncs \cup {None}
  BY <1>1 DEF Pages
<1>3. q.flow # None => q.flow = p.flow \/ GoodFlow(W, q.flow, p.key)
  <2>1. ASSUME q.flow # None, q.flow.op = "call", q.flow.access <= Len(provider.of)
        PROVE  GoodFlow(W, q.flow, p.key)
    <3>1. q.flow.access \in Nat
      BY <1>2, <2>1, FlowsAre DEF Issued
    <3>. QED BY <2>1, <3>1 DEF GoodFlow
  <2>. QED BY <1>1, <2>1
<1>4. q.sync # None => q.sync = p.sync \/ SyncIssued(Len(W.of), q.sync)
  <2>1. ASSUME p.sync # None, q.sync.pc = "sent", q.sync.id = p.sync.id, q.sync.access \in {0, p.mem.access}
        PROVE  SyncIssued(Len(W.of), q.sync)
    <3>1. SyncIssued(Len(W.of), p.sync)
      BY <2>1 DEF GoodPage
    <3>2. p.mem.access \in Nat
      BY <1>2, TokensAre DEF Issued
    <3>. QED BY <2>1, <3>1, <3>2 DEF SyncIssued
  <2>. QED BY <1>1, <2>1
<1>5. GoodPage(W, q)
  <2>1. q.check # None => GoodCheck(W, q.check, p.key)
    BY <1>1 DEF GoodPage
  <2>. QED BY <1>1, <1>3, <1>4, <2>1, AnswersGood
<1>6. Follows(W, q)
  <2>1. CASE q.sync = p.sync
    BY <1>1, <2>1, AnswersFollow
  <2>2. CASE p.sync # None /\ q.sync # None /\ p.sync.pc = "waiting" /\ q.sync.pc = "sent" /\ q.sync.id = p.sync.id
             /\ q.sync.access \in {0, p.mem.access}
    BY <1>1, <2>2 DEF Follows, BesideAnswers
  <2>. QED BY <1>1, <2>1, <2>2
<1>7. FlowLogin(q.flow) = FlowLogin(p.flow) /\ HeldBy(q.flow) = HeldBy(p.flow)
  BY <1>1 DEF FlowLogin, HeldBy
<1>8. p.at = "page" => Awaited(q) = Awaited(p)
  BY <1>1 DEF Awaited, BesideAnswers
<1>. QED BY <1>1, <1>5, <1>6, <1>7, <1>8 DEF q

\* A page that hears its check was lost has the token it had.
LEMMA ReceiveLostOrdinary ==
  ASSUME Typed, Sound, Synced, NEW t \in Tabs, ReceiveCheck(t), tab[t].check.answer = Lost
  PROVE  Ordinarily(t)
<1>. DEFINE p == tab[t]
            x == [p EXCEPT !.check = None]
            r == Released(x)
<1>1. /\ p.at = "page" /\ tab' = [tab EXCEPT ![t] = r]
      /\ UNCHANGED <<setup, stored, pending, provider, ops, out, late, crossed, took>>
  BY DEF ReceiveCheck, OnPage
<1>2. p \in Pages /\ GoodPage(World, p) /\ Follows(World, p) /\ p.mem.access <= Len(provider.of) /\ World.of = provider.of
      /\ Len(provider.of) \in Nat
  BY PageIs, WorldTypes
<1>3. x \in Pages /\ BesideAnswers(p, x) /\ x.check = None /\ x.flow = p.flow /\ x.sync = p.sync
  BY <1>2, CheckField
<1>. HIDE DEF x
<1>4. GoodPage(World, x) /\ Follows(World, x) /\ x.mem = p.mem /\ x.at = "page"
  BY <1>1, <1>2, <1>3, AnswersGood, AnswersFollow DEF BesideAnswers, GoodPage
<1>5. /\ r \in Pages /\ BesideAnswers(x, r) /\ r.check = None /\ GoodPage(World, r) /\ Follows(World, r)
      /\ FlowLogin(r.flow) = FlowLogin(x.flow) /\ HeldBy(r.flow) = HeldBy(x.flow)
      /\ Awaited(r) = Awaited(x)
  BY <1>2, <1>3, <1>4, ReleasedGood
<1>. HIDE DEF r
<1>6. BesideAnswers(p, r) /\ Carries(p, r)
  <2>1. BesideAnswers(p, r)
    BY <1>3, <1>5 DEF BesideAnswers
  <2>2. Awaited(x) = Awaited(p)
    BY <1>3 DEF Awaited, BesideAnswers
  <2>3. CheckNumber(r.check) = 0
    BY <1>5 DEF CheckNumber
  <2>. QED BY <1>3, <1>5, <2>1, <2>2, <2>3 DEF Carries
<1>7. ProviderTyped(provider') /\ provider' = provider
  BY <1>1 DEF Typed
<1>. QED BY <1>1, <1>5, <1>6, <1>7, SilentOrdinary

-----------------------------------------------------------------------------
(* Tokens as they are issued. *)

\* What is on its way was issued; what is around is of an issued login.
LEMMA OnItsWay ==
  ASSUME Typed, Sound, NEW t \in Tabs
  PROVE  /\ FlowLogin(tab[t].flow) # 0 => FlowLogin(tab[t].flow) \in IssuedLogins
         /\ CheckNumber(tab[t].check) \in Nat /\ CheckNumber(tab[t].check) <= Len(provider.of)
         /\ \A r \in tab[t].spent : r \in 1..Len(provider.of) /\ provider.of[r] \in IssuedLogins
         /\ \A n \in Around : n[1] # 0 => provider.of[n[1]] \in IssuedLogins
         /\ \A n \in Around : n[2] <= Len(provider.of)
<1>. DEFINE p == tab[t]
<1>1. p \in Pages /\ p.check \in Checks \cup {None} /\ p.flow \in Flows \cup {None} /\ GoodPage(World, p)
      /\ World.of = provider.of /\ Len(provider.of) \in Nat
  BY PageIs, WorldTypes
<1>2. FlowLogin(p.flow) # 0 => FlowLogin(p.flow) \in IssuedLogins
  <2>1. SUFFICES ASSUME p.flow # None, p.flow.op \in {"password", "callback"}, p.flow.answer \in Token, p.flow.answer.access # 0
                 PROVE  p.flow.login \in IssuedLogins
    BY DEF FlowLogin
  <2>2. Good(World, p.flow.answer, p.key) /\ World.of[p.flow.answer.access] = p.flow.login
    BY <1>1, <2>1 DEF GoodPage, GoodFlow
  <2>3. p.flow.answer.access \in 1..Len(provider.of)
    BY <1>1, <2>1, <2>2, TokensAre DEF Good, Issued
  <2>. QED BY <1>1, <2>2, <2>3 DEF IssuedLogins
<1>3. CheckNumber(p.check) \in Nat /\ CheckNumber(p.check) <= Len(provider.of)
  <2>1. CASE p.check # None /\ p.check.answer \in Token
    <3>1. p.check.answer = Failed \/ Good(World, p.check.answer, p.key)
      BY <1>1, <2>1 DEF GoodPage, GoodCheck
    <3>. QED BY <1>1, <2>1, <3>1, TokensAre DEF CheckNumber, Good, Issued
  <2>2. CASE ~(p.check # None /\ p.check.answer \in Token)
    BY <1>1, <2>2 DEF CheckNumber
  <2>. QED BY <2>1, <2>2
<1>4. \A r \in p.spent : r \in 1..Len(provider.of) /\ provider.of[r] \in IssuedLogins
  BY <1>1 DEF GoodPage, IssuedLogins
<1>5. \A n \in Around : (n[1] # 0 => provider.of[n[1]] \in IssuedLogins) /\ n[2] <= Len(provider.of)
  <2>1. ASSUME NEW n \in Around
        PROVE  (n[1] # 0 => provider.of[n[1]] \in IssuedLogins) /\ n[2] <= Len(provider.of)
    <3>1. /\ n[1] # 0 => n[1] \in 1..Len(provider.of)
          /\ n[2] # 0 => n[1] # 0 /\ n[2] \in 1..Len(provider.of) /\ provider.of[n[2]] = provider.of[n[1]]
      BY AroundValid
    <3>. QED BY <1>1, <3>1 DEF IssuedLogins
  <2>. QED BY <2>1
<1>. QED BY <1>2, <1>3, <1>4, <1>5

\* The page t is answered: a sign-in with tokens of a login that had none, a check with a new refresh token.
LEMMA IssueFresh ==
  ASSUME Typed, Sound, New, Sealed, out \subseteq IssuedLogins, NEW t \in Tabs, NEW k, NEW v, Moves(t, k, v), out' = out,
         NumbersOf(tab'[t]) \cup {Numbers(v)} \subseteq Around, tab'[t].spent = tab[t].spent,
         FlowLogin(tab'[t].flow) \in {0, FlowLogin(tab[t].flow)} \/ FlowLogin(tab'[t].flow) \notin IssuedLogins,
         CheckNumber(tab'[t].check) \in {0, CheckNumber(tab[t].check)}
           \/ (CheckNumber(tab'[t].check) \in Nat /\ CheckNumber(tab'[t].check) > Len(provider.of))
  PROVE  New' /\ Sealed'
<1>1. k \in Keys /\ v \in Token /\ Spread(t, k, v) /\ setup' = setup /\ Len(provider.of) \in Nat
  BY WorldTypes DEF Moves
<1>2. \A a \in 1..Len(provider.of) : provider'.of[a] = provider.of[a]
  BY DEF Moves, Grows, World, WorldOf
<1>3. \A n \in Around' : n \in Around
  BY AroundAfter
<1>4. ASSUME NEW u \in Tabs, u # t
      PROVE  tab'[u].flow = tab[u].flow /\ tab'[u].check = tab[u].check
  BY <1>1, <1>4, SpreadOthers
<1>5. \A u \in Tabs : tab'[u].spent = tab[u].spent
  BY <1>1, SpreadOthers
<1>6. \A n \in Around : n[1] # 0 => n[1] \in 1..Len(provider.of) /\ provider'.of[n[1]] = provider.of[n[1]]
  BY <1>2, AroundValid
<1>7. \A u \in Tabs : \A r \in tab[u].spent : r \in 1..Len(provider.of) /\ provider'.of[r] = provider.of[r]
  BY <1>2, OnItsWay
<1>8. ASSUME NEW u \in Tabs, FlowLogin(tab'[u].flow) # 0
      PROVE  LET l == FlowLogin(tab'[u].flow) IN
             /\ l \notin out' /\ \A n \in Around' : n[1] # 0 => provider'.of[n[1]] # l
             /\ \A w \in Tabs : /\ \A r \in tab'[w].spent : provider'.of[r] # l
                                /\ w # u => FlowLogin(tab'[w].flow) # l
  <2>. DEFINE l == FlowLogin(tab'[u].flow)
  <2>1. CASE l = FlowLogin(tab[u].flow)
    <3>1. l \notin out' /\ \A n \in Around' : n[1] # 0 => provider'.of[n[1]] # l
      BY <1>3, <1>6, <1>8, <2>1 DEF New
    <3>2. \A w \in Tabs : \A r \in tab'[w].spent : provider'.of[r] # l
      BY <1>5, <1>7, <1>8, <2>1 DEF New
    <3>3. ASSUME NEW w \in Tabs, w # u
          PROVE  FlowLogin(tab'[w].flow) # l
      <4>1. FlowLogin(tab[w].flow) # l /\ l \in IssuedLogins
        BY <1>8, <2>1, <3>3, OnItsWay DEF New
      <4>. QED BY <1>4, <1>8, <4>1
    <3>. QED BY <3>1, <3>2, <3>3
  <2>2. CASE l # FlowLogin(tab[u].flow)
    <3>1. u = t /\ l \notin IssuedLogins
      BY <1>4, <1>8, <2>2
    <3>2. l \notin out' /\ \A n \in Around' : n[1] # 0 => provider'.of[n[1]] # l
      BY <1>3, <1>6, <3>1, OnItsWay
    <3>3. \A w \in Tabs : \A r \in tab'[w].spent : provider'.of[r] # l
      BY <1>5, <1>7, <3>1, OnItsWay
    <3>4. \A w \in Tabs : w # u => FlowLogin(tab'[w].flow) # l
      BY <1>4, <1>8, <3>1, OnItsWay
    <3>. QED BY <3>2, <3>3, <3>4
  <2>. QED BY <2>1, <2>2
<1>9. ASSUME setup.rotates, NEW u \in Tabs, CheckNumber(tab'[u].check) # 0
      PROVE  LET c == CheckNumber(tab'[u].check) IN
             /\ \A n \in Around' : n[2] # c
             /\ \A w \in Tabs : c \notin tab'[w].spent /\ (w # u => CheckNumber(tab'[w].check) # c)
  <2>. DEFINE c == CheckNumber(tab'[u].check)
  <2>1. CASE c = CheckNumber(tab[u].check)
    <3>1. \A n \in Around' : n[2] # c
      BY <1>3, <1>9, <2>1 DEF Sealed
    <3>2. \A w \in Tabs : c \notin tab'[w].spent
      BY <1>5, <1>9, <2>1 DEF Sealed
    <3>3. ASSUME NEW w \in Tabs, w # u
          PROVE  CheckNumber(tab'[w].check) # c
      <4>1. CheckNumber(tab[w].check) # c /\ c \in Nat /\ c <= Len(provider.of)
        BY <1>9, <2>1, <3>3, OnItsWay DEF Sealed
      <4>. QED BY <1>1, <1>4, <1>9, <4>1
    <3>. QED BY <3>1, <3>2, <3>3
  <2>2. CASE c # CheckNumber(tab[u].check)
    <3>1. u = t /\ c \in Nat /\ c > Len(provider.of)
      BY <1>4, <1>9, <2>2
    <3>2. \A n \in Around' : n[2] # c
      <4>1. \A n \in Around : n[2] \in Nat
        BY AroundValid, <1>1
      <4>. QED BY <1>1, <1>3, <3>1, <4>1, OnItsWay
    <3>3. \A w \in Tabs : c \notin tab'[w].spent
      BY <1>1, <1>5, <3>1, OnItsWay
    <3>4. \A w \in Tabs : w # u => CheckNumber(tab'[w].check) # c
      BY <1>1, <1>4, <3>1, OnItsWay
    <3>. QED BY <3>2, <3>3, <3>4
  <2>. QED BY <2>1, <2>2
<1>10. New'
  BY <1>8 DEF New, FlowLogin
<1>11. Sealed'
  BY <1>1, <1>9 DEF Sealed, CheckNumber
<1>. QED BY <1>10, <1>11

\* The provider comes to have issued one access token more, for login l.
Issues(l) ==
  /\ ProviderTyped(provider') /\ provider'.home = provider.home /\ Len(provider'.of) = Len(provider.of) + 1
  /\ provider'.of[Len(provider.of) + 1] = l /\ \A b \in 1..Len(provider.of) : provider'.of[b] = provider.of[b]

\* The world after an issue.
LEMMA IssuesWorld ==
  ASSUME Typed, NEW l, Issues(l), UNCHANGED <<setup, ops, out, crossed, took>>
  PROVE  /\ Meanwhile /\ WorldTyped(World) /\ WorldTyped(World') /\ Grows(World, World') /\ World'.of = provider'.of
         /\ World'.home = provider.home /\ World'.rotates = setup.rotates /\ World'.pkce = setup.pkce
         /\ World'.crossed = crossed /\ Len(provider.of) + 1 \in Issued
<1>1. World' = WorldOf(provider', crossed, setup)
  BY DEF World, WorldOf
<1>2. WorldTyped(World') /\ WorldTyped(World)
  BY <1>1, WorldIs, WorldTypes DEF Typed, Issues
<1>3. Grows(World, World')
  BY <1>1, WorldTypes DEF Grows, World, WorldOf, Issues
<1>4. Len(provider.of) + 1 \in Issued
  BY WorldTypes, ClientAssumption DEF Issues, ProviderTyped, Issued
<1>. QED BY <1>1, <1>2, <1>3, <1>4 DEF Meanwhile, Typed, Issues, WorldOf

\* The login a page waits for has begun.
LEMMA AwaitedIs ==
  ASSUME Typed, Sound, NEW t \in Tabs, Awaited(tab[t]) # 0
  PROVE  Awaited(tab[t]) \in 1..Len(provider.code) /\ Awaited(tab[t]) \in Logins
<1>. DEFINE p == tab[t]
<1>1. p.asked \in {0} \cup Logins /\ p.flow \in Flows \cup {None} /\ GoodPage(World, p)
  BY PageIs
<1>2. Len(World.home) = Len(provider.code) /\ Len(World.home) \in Nat
  BY WorldTypes DEF Typed, ProviderTyped
<1>3. CASE p.at = "away"
  <2>1. Awaited(p) = p.asked /\ p.asked \in Logins /\ p.asked <= Len(World.home)
    BY <1>1, <1>3 DEF Awaited, GoodPage, AtHome
  <2>. QED BY <1>2, <2>1 DEF Logins
<1>4. CASE p.at # "away"
  <2>1. Awaited(p) = p.flow.login /\ p.flow # None /\ p.flow.op = "password"
    BY <1>4 DEF Awaited
  <2>2. p.flow.login \in Logins /\ p.flow.login <= Len(World.home)
    BY <1>1, <2>1, FlowsAre DEF GoodPage, GoodFlow, AtHome
  <2>. QED BY <1>2, <2>1, <2>2 DEF Logins
<1>. QED BY <1>3, <1>4

\* A token that is issued into an answer keeps the invariant: it is nowhere else, and of the login
\* it answers.
LEMMA IssuingKeeps ==
  ASSUME IInv, NEW t \in Tabs, NEW r \in Pages, tab' = [tab EXCEPT ![t] = r],
         UNCHANGED <<setup, stored, pending, ops, out, late, crossed, took>>, NEW l \in Logins, Issues(l),
         tab[t].at = "page", BesideAnswers(tab[t], r), r.sync = tab[t].sync, GoodPage(World', r),
         r.check # None => tab[t].check # None /\ r.check.of = tab[t].check.of, HeldBy(r.flow) = HeldBy(tab[t].flow),
         FlowLogin(r.flow) \in {0, FlowLogin(tab[t].flow)} \/ FlowLogin(r.flow) \notin IssuedLogins,
         CheckNumber(r.check) \in {0, CheckNumber(tab[t].check)}
           \/ (CheckNumber(r.check) \in Nat /\ CheckNumber(r.check) > Len(provider.of)),
         \A m \in 1..Len(provider.code) : provider'.code[m] = "ready" => provider.code[m] = "ready",
         \A m \in 1..Len(provider.code) : provider.code[m] = "none" => provider'.code[m] = "none",
         Len(provider'.code) = Len(provider.code),
         Awaited(r) \in {0, Awaited(tab[t])},
         l \in IssuedLogins \/ (Awaited(r) # l /\ provider'.code[l] # "ready" /\ \A u \in Tabs \ {t} : Awaited(tab[u]) # l)
  PROVE  IInv'
<1>. DEFINE p == tab[t]
            k == p.key
            v == stored[k]
            D == pending[t]
<1>1. Typed /\ Sound /\ Synced /\ Stands /\ New /\ Sealed /\ Own /\ ItsOwn
  BY DEF IInv
<1>2. Meanwhile /\ WorldTyped(World) /\ WorldTyped(World') /\ Grows(World, World')
  BY <1>1, IssuesWorld
<1>3. p \in Pages /\ k \in Keys /\ v \in Token /\ Follows(World, p) /\ p.mem.access <= Len(World.of)
  BY <1>1, PageIs, WorldTypes DEF Typed
<1>4. /\ r.at = "page" /\ r.key = p.key /\ r.mem = p.mem /\ r.missed = p.missed /\ r.on = p.on /\ r.spent = p.spent
  BY DEF BesideAnswers
<1>5. Follows(World', r)
  BY <1>2, <1>3, FollowsKept, AnswersFollow
<1>6. /\ D \subseteq pending[t] /\ (p.key \in pending[t] \/ p.missed => p.key \in D \/ r.missed)
      /\ (D # {} => r.at = "page" /\ r.on) /\ pending' = [pending EXCEPT ![t] = D] /\ stored' = stored /\ late' = late
  BY <1>1, <1>4 DEF Synced, Listening, Typed
<1>. HIDE DEF D
<1>7. tab'[t] = r /\ Moves(t, k, v)
  BY <1>1, <1>2, <1>4, <1>5, <1>6, Silent
<1>8. NumbersOf(r) \cup {Numbers(v)} \subseteq Around
  <2>1. NumbersOf(r) \subseteq NumbersOf(p)
    BY <1>4 DEF NumbersOf, CheckedBy
  <2>. QED BY <1>3, <2>1, AroundIs
<1>9. Quiet(t, v)
  <2>1. Same(r.mem, p.mem) /\ Same(v, stored[k])
    BY <1>4 DEF Same
  <2>. QED BY <1>3, <1>4, <1>6, <1>7, <2>1 DEF Quiet
<1>10. Typed' /\ Sound' /\ Synced'
  BY <1>1, <1>7, MovesTyped, MovesSound, MovesSynced
<1>11. Stands'
  BY <1>1, <1>7, <1>9, QuietStands
<1>12. New' /\ Sealed'
  BY <1>1, <1>4, <1>7, <1>8, IssueFresh DEF Own
<1>13. IssuedLogins' = IssuedLogins \cup {l}
  <2>. DEFINE n == Len(provider.of)
  <2>1. n \in Nat /\ 1..(n + 1) = 1..n \cup {n + 1}
    BY <1>1, WorldTypes
  <2>2. Len(provider'.of) = n + 1 /\ provider'.of[n + 1] = l /\ \A b \in 1..n : provider'.of[b] = provider.of[b]
    BY DEF Issues
  <2>. HIDE DEF n
  <2>3. {provider'.of[b] : b \in 1..Len(provider'.of)} = {provider.of[b] : b \in 1..n} \cup {l}
    BY <2>1, <2>2
  <2>. QED BY <2>3 DEF IssuedLogins, n
<1>14. Own'
  <2>1. \A u \in Tabs : Awaited(tab[u])' = Awaited(tab'[u])
    BY DEF Awaited
  <2>2. \A u \in Tabs : Awaited(tab'[u]) \in {0, Awaited(tab[u])} /\ (u # t => Awaited(tab'[u]) = Awaited(tab[u]))
    BY <1>1, <1>7 DEF Typed
  <2>3. out' \subseteq IssuedLogins'
    BY <1>1, <1>13 DEF Own
  <2>4. ASSUME NEW m \in 1..Len(provider'.code), provider'.code[m] = "ready"
        PROVE  m \notin IssuedLogins'
    BY <1>1, <1>13, <2>4 DEF Own
  <2>5. ASSUME NEW u \in Tabs, Awaited(tab'[u]) # 0
        PROVE  /\ Awaited(tab'[u]) \notin IssuedLogins' /\ provider'.code[Awaited(tab'[u])] = "none"
               /\ \A w \in Tabs \ {u} : Awaited(tab'[w]) # Awaited(tab'[u])
    <3>1. Awaited(tab'[u]) = Awaited(tab[u])
      BY <2>2, <2>5
    <3>2. /\ Awaited(tab[u]) \notin IssuedLogins /\ provider.code[Awaited(tab[u])] = "none"
          /\ \A w \in Tabs \ {u} : Awaited(tab[w]) # Awaited(tab[u])
      BY <1>1, <2>5, <3>1 DEF Own
    <3>3. Awaited(tab'[u]) # l
      BY <1>7, <3>1, <3>2
    <3>4. Awaited(tab[u]) \in 1..Len(provider.code)
      BY <1>1, <2>5, <3>1, AwaitedIs
    <3>. QED BY <1>13, <2>2, <2>5, <3>1, <3>2, <3>3, <3>4
  <2>. QED BY <2>1, <2>3, <2>4, <2>5 DEF Own
<1>15. ItsOwn'
  BY <1>1 DEF ItsOwn
<1>. QED BY <1>10, <1>11, <1>12, <1>14, <1>15 DEF IInv

\* The provider answers a check: what it issues is new, of the login of the token that
\* was presented, and on its way to one page.
LEMMA RefreshKeeps ==
  ASSUME IInv, NEW t \in Tabs, Refresh(t)
  PROVE  IInv'
<1>. DEFINE p == tab[t]
            c == p.check
            n == c.of.refresh
            l == provider.of[n]
            a == Len(provider.of) + 1
            b == IF setup.rotates THEN a ELSE 0
<1>1. Typed /\ Sound /\ Synced
  BY DEF IInv
<1>2. /\ p.at = "page" /\ c # None /\ UNCHANGED <<setup, stored, pending, ops, out, late, crossed, took>>
      /\ \/ /\ provider.good[l] = n /\ a <= MaxIssued
            /\ provider' \in {Issue(l), [provider EXCEPT !.of = Append(@, l)]}
            /\ \E x \in {Answer(a, b), Lost} : tab' = [tab EXCEPT ![t].check.answer = x]
         \/ provider' = [provider EXCEPT !.good[l] = 0] /\ tab' = [tab EXCEPT ![t].check.answer = Failed]
         \/ tab' = [tab EXCEPT ![t].check.answer = Lost] /\ provider' = provider
  BY DEF Refresh, OnPage, ghosts
<1>3. /\ p \in Pages /\ c \in Checks /\ GoodPage(World, p) /\ Len(provider.of) \in Nat /\ World.of = provider.of
      /\ tab \in [Tabs -> Pages] /\ setup.rotates \in BOOLEAN
  <2>1. setup.rotates \in BOOLEAN
    BY <1>1, PageIs, ClientAssumption
  <2>. QED BY <1>1, <1>2, <2>1, PageIs, WorldTypes DEF Typed
<1>4. ProviderTyped(provider)
  BY <1>1 DEF Typed
<1>5. GoodCheck(World, c, p.key) /\ c.of \in Token /\ c.of.access # 0 /\ c.of.access <= Len(provider.of)
      /\ n \in 1..Len(provider.of) /\ l = provider.of[c.of.access]
  <2>1. GoodCheck(World, c, p.key) /\ c.of \in Token
    BY <1>2, <1>3, ChecksAre DEF GoodPage
  <2>2. c.of.access \in Nat /\ n \in Nat
    BY <2>1, TokensAre DEF Issued
  <2>3. Good(World, c.of, p.key) /\ n # 0
    BY <2>1 DEF GoodCheck
  <2>4. c.of.access # 0 /\ c.of.access <= Len(provider.of) /\ n <= Len(provider.of) /\ l = provider.of[c.of.access]
    BY <1>3, <2>3 DEF Good
  <2>. QED BY <1>3, <2>1, <2>2, <2>3, <2>4
<1>6. l \in Logins /\ l <= Len(provider.good) /\ l \in IssuedLogins
  <2>. HIDE DEF n
  <2>1. \A m \in 1..Len(provider.of) : provider.of[m] \in Logins /\ provider.of[m] <= Len(provider.good)
    BY <1>4 DEF ProviderTyped
  <2>. QED BY <1>5, <2>1 DEF IssuedLogins
<1>7. CASE /\ a <= MaxIssued /\ provider' \in {Issue(l), [provider EXCEPT !.of = Append(@, l)]}
           /\ \E x \in {Answer(a, b), Lost} : tab' = [tab EXCEPT ![t].check.answer = x]
  <2>. HIDE DEF l, n
  <2>1. PICK x \in {Answer(a, b), Lost} : tab' = [tab EXCEPT ![t].check.answer = x]
    BY <1>7
  <2>2. a \in Issued /\ Issues(l) /\ provider'.code = provider.code
    <3>1. Len(provider.of) < MaxIssued
      BY <1>3, <1>7, ClientAssumption
    <3>2. /\ a \in Issued
          /\ \A w \in {Issue(l), [provider EXCEPT !.of = Append(@, l)]} :
               /\ ProviderTyped(w) /\ w.home = provider.home /\ w.code = provider.code
               /\ Len(w.of) = a /\ w.of[a] = l /\ \A m \in 1..Len(provider.of) : w.of[m] = provider.of[m]
      BY <1>4, <1>6, <3>1, ProviderIssues
    <3>3. /\ ProviderTyped(provider') /\ provider'.home = provider.home /\ provider'.code = provider.code
          /\ Len(provider'.of) = a /\ provider'.of[a] = l /\ \A m \in 1..Len(provider.of) : provider'.of[m] = provider.of[m]
      BY <1>7, <3>2
    <3>. QED BY <3>2, <3>3 DEF Issues
  <2>3. WorldTyped(World) /\ WorldTyped(World') /\ Grows(World, World') /\ World'.of = provider'.of
        /\ World'.home = provider.home /\ World'.rotates = setup.rotates
    BY <1>1, <1>2, <2>2, IssuesWorld
  <2>4. Answer(a, b) \in Token /\ Answer(a, b).access = a /\ Answer(a, b).refresh = b /\ a \in Nat /\ a # 0
    BY <1>3, <2>2, TokensAre
  <2>. DEFINE d == [c EXCEPT !.answer = x]
              r == [p EXCEPT !.check = d]
  <2>5. d \in Checks /\ d.of = c.of /\ d.answer = x
    BY <1>3, <2>4, CheckAnswer
  <2>6. tab' = [tab EXCEPT ![t] = r]
    BY <1>3, <2>1 DEF Pages
  <2>. HIDE DEF d
  <2>7. r \in Pages /\ BesideAnswers(p, r) /\ r.check = d /\ r.flow = p.flow /\ r.sync = p.sync
    BY <1>3, <2>5, CheckField
  <2>. HIDE DEF r
  <2>8. GoodPage(World', r)
    <3>1. GoodPage(World', p)
      BY <1>3, <2>3, GoodPageKept
    <3>2. GoodCheck(World', c, p.key)
      BY <1>2, <3>1 DEF GoodPage
    <3>3. World'.of[a] = l /\ World'.of[c.of.access] = l /\ World'.of[b] = (IF b = 0 THEN World'.of[0] ELSE l)
      <4>1. World'.of[a] = l /\ \A m \in 1..Len(provider.of) : World'.of[m] = provider.of[m]
        BY <2>2, <2>3 DEF Issues
      <4>2. World'.of[c.of.access] = l
        BY <1>3, <1>5, <4>1, TokensAre DEF Issued
      <4>3. World'.of[b] = (IF b = 0 THEN World'.of[0] ELSE l)
        BY <1>3, <1>5, <2>4, <4>1 DEF Issued
      <4>. QED BY <4>1, <4>2, <4>3
    <3>4. Len(World'.of) = a
      BY <2>2, <2>3 DEF Issues
    <3>5. AtHome(World', l, p.key)
      BY <1>5, <3>2, <3>3 DEF GoodCheck, Good
    <3>6. Good(World', Answer(a, b), p.key)
      BY <2>4, <3>3, <3>4, <3>5 DEF Good
    <3>7. GoodCheck(World', d, p.key)
      BY <2>3, <2>4, <2>5, <3>2, <3>3, <3>6, NoneAssumption DEF GoodCheck
    <3>. QED BY <2>7, <3>1, <3>7, AnswersGood
  <2>9. CheckNumber(r.check) = 0 \/ (CheckNumber(r.check) \in Nat /\ CheckNumber(r.check) > Len(provider.of))
    BY <1>3, <2>4, <2>5, <2>7, NoneAssumption DEF CheckNumber
  <2>10. Awaited(r) \in {0, Awaited(p)}
    BY <2>7 DEF Awaited, BesideAnswers
  <2>. QED BY <1>2, <1>3, <1>6, <2>2, <2>5, <2>6, <2>7, <2>8, <2>9, <2>10, IssuingKeeps
<1>8. CASE provider' = [provider EXCEPT !.good[l] = 0] /\ tab' = [tab EXCEPT ![t].check.answer = Failed]
  <2>. HIDE DEF l, n
  <2>1. ProviderTyped(provider') /\ provider'.of = provider.of /\ provider'.home = provider.home /\ provider'.code = provider.code
    <3>1. 0 \in {0} \cup Issued
      OBVIOUS
    <3>2. LET w == [provider EXCEPT !.good[l] = 0] IN
          ProviderTyped(w) /\ w.of = provider.of /\ w.home = provider.home /\ w.code = provider.code
      BY <1>4, <3>1, LoginEnds
    <3>. QED BY <1>8, <3>2
  <2>. QED BY <1>1, <1>2, <1>8, <2>1, CheckFailsOrdinary, OrdinaryKeeps
<1>9. CASE tab' = [tab EXCEPT ![t].check.answer = Lost] /\ provider' = provider
  BY <1>1, <1>2, <1>4, <1>9, CheckFailsOrdinary, OrdinaryKeeps
<1>. HIDE DEF l, n, a, b
<1>. QED BY <1>2, <1>7, <1>8, <1>9

\* A sign-in in flight: its login is one of the provider's, at the page's tenant.
LEMMA SignInIs ==
  ASSUME Typed, Sound, NEW t \in Tabs, tab[t].flow # None, tab[t].flow.op \in {"password", "callback"}
  PROVE  LET f == tab[t].flow IN
         /\ f.login <= Len(provider.good) /\ f \in Flows /\ f.login \in Logins /\ f.login \in 1..Len(provider.good) /\ f.login # 0
         /\ GoodFlow(World, f, tab[t].key) /\ Len(provider.good) = Len(provider.code) /\ provider.code \in Seq({"none", "ready", "used"})
         /\ provider.good \in Seq({0} \cup Issued)
<1>. DEFINE f == tab[t].flow
<1>1. f \in Flows /\ GoodFlow(World, f, tab[t].key)
  BY PageIs DEF GoodPage
<1>2. f.login \in Logins
  BY <1>1, FlowsAre
<1>3. f.login <= Len(World.home)
  BY <1>1, <1>2 DEF GoodFlow, AtHome
<1>4. Len(World.home) = Len(provider.good) /\ Len(provider.good) \in Nat
  BY WorldTypes
<1>. QED BY <1>1, <1>2, <1>3, <1>4 DEF Typed, ProviderTyped, Logins

\* A sign-in gets tokens of its login, which had none.
LEMMA SignInAnswered ==
  ASSUME IInv, NEW t \in Tabs, tab[t].at = "page", tab[t].flow # None, tab[t].flow.op \in {"password", "callback"},
         NEW x \in Token \cup {Lost}, x = Lost => tab[t].flow.op = "callback", tab[t].flow.answer = None,
         x \in Token => x = Answer(Len(provider.of) + 1, Len(provider.of) + 1),
         tab' = [tab EXCEPT ![t].flow.answer = x],
         UNCHANGED <<setup, stored, pending, ops, out, late, crossed, took>>, Issues(tab[t].flow.login),
         tab[t].flow.login \notin IssuedLogins,
         setup.pkce /\ tab[t].flow.op = "callback" => tab[t].flow.held.state = tab[t].flow.login,
         \A m \in 1..Len(provider.code) : provider'.code[m] = "ready" => provider.code[m] = "ready",
         \A m \in 1..Len(provider.code) : provider.code[m] = "none" => provider'.code[m] = "none",
         Len(provider'.code) = Len(provider.code), provider'.code[tab[t].flow.login] # "ready",
         \A u \in Tabs \ {t} : Awaited(tab[u]) # tab[t].flow.login
  PROVE  IInv'
<1>. DEFINE p == tab[t]
            f == p.flow
            l == f.login
            a == Len(provider.of) + 1
            g == [f EXCEPT !.answer = x]
            r == [p EXCEPT !.flow = g]
<1>1. Typed /\ Sound
  BY DEF IInv
<1>2. /\ p \in Pages /\ f \in Flows /\ GoodPage(World, p) /\ Len(provider.of) \in Nat /\ tab \in [Tabs -> Pages]
      /\ l \in Logins /\ l # 0
  BY <1>1, PageIs, SignInIs DEF Typed
<1>3. WorldTyped(World) /\ WorldTyped(World') /\ Grows(World, World') /\ World'.of = provider'.of /\ a \in Issued
      /\ World'.pkce = setup.pkce
  BY <1>1, IssuesWorld
<1>4. x \in Token => x.access = a /\ x.refresh = a
  BY <1>3, TokensAre
<1>5. a \in Nat /\ a # 0
  BY <1>2
<1>6. g \in Flows /\ g.op = f.op /\ g.login = l /\ g.answer = x /\ (g.op = "callback" => g.held = f.held)
  BY <1>2, FlowAnswer
<1>7. tab' = [tab EXCEPT ![t] = r]
  BY <1>2 DEF Pages
<1>. HIDE DEF g
<1>8. r \in Pages /\ RestAs(p, r) /\ r.sync = p.sync /\ r.user = p.user /\ r.flow = g
  BY <1>2, <1>6, FlowField
<1>. HIDE DEF r
<1>9. BesideAnswers(p, r) /\ r.check = p.check
  BY <1>8, BesideFlow
<1>10. GoodPage(World', r)
  <2>1. GoodPage(World', p)
    BY <1>2, <1>3, GoodPageKept
  <2>2. GoodFlow(World', f, p.key)
    BY <2>1 DEF GoodPage
  <2>3. World'.of[a] = l /\ Len(World'.of) = a
    BY <1>3 DEF Issues
  <2>4. AtHome(World', l, p.key)
    BY <2>2 DEF GoodFlow
  <2>5. x \in Token => Good(World', x, p.key) /\ World'.of[x.access] = l
    BY <1>4, <1>5, <2>3, <2>4 DEF Good
  <2>6. GoodFlow(World', g, p.key)
    BY <1>3, <1>6, <2>2, <2>5 DEF GoodFlow
  <2>. QED BY <1>8, <2>1, <2>6, RestGood
<1>11. HeldBy(g) = HeldBy(f)
  BY <1>2, <1>6, NoneAssumption DEF HeldBy
<1>12. FlowLogin(r.flow) = 0 \/ FlowLogin(r.flow) \notin IssuedLogins
  BY <1>6, <1>8 DEF FlowLogin
<1>13. Awaited(r) = 0
  <2>1. x # None
    BY NoneAssumption
  <2>. QED BY <1>6, <1>8, <2>1 DEF Awaited, RestAs
<1>14. r.check # None => p.check # None /\ r.check.of = p.check.of
  BY <1>9
<1>15. CheckNumber(r.check) \in {0, CheckNumber(p.check)}
  BY <1>9
<1>. HIDE DEF l
<1>16. l \in IssuedLogins \/ (Awaited(r) # l /\ provider'.code[l] # "ready" /\ \A u \in Tabs \ {t} : Awaited(tab[u]) # l)
  BY <1>2, <1>13 DEF l
<1>17. Issues(l)
  BY DEF l
<1>. QED BY <1>2, <1>7, <1>8, <1>9, <1>10, <1>11, <1>12, <1>13, <1>14, <1>15, <1>16, <1>17, IssuingKeeps

\* The provider answers a password.
LEMMA PasswordHandledKeeps ==
  ASSUME IInv, NEW t \in Tabs, PasswordHandled(t)
  PROVE  IInv'
<1>. DEFINE p == tab[t]
            f == p.flow
            l == f.login
            a == Len(provider.of) + 1
<1>1. Typed /\ Sound /\ Synced /\ Own
  BY DEF IInv
<1>2. /\ p.at = "page" /\ f # None /\ f.op = "password" /\ f.answer = None
      /\ UNCHANGED <<setup, stored, pending, ops, out, late, crossed, took>>
      /\ \/ /\ Len(provider.of) < MaxIssued /\ provider' = Issue(l)
            /\ tab' = [tab EXCEPT ![t].flow.answer = Answer(Len(provider'.of), Len(provider'.of))]
         \/ /\ \E x \in {Failed, Nothing} : tab' = [tab EXCEPT ![t].flow.answer = x]
            /\ provider' = provider
  BY DEF PasswordHandled, OnPage, ghosts, More
<1>3. ProviderTyped(provider) /\ l \in Logins /\ l <= Len(provider.good) /\ l \in 1..Len(provider.good) /\ l # 0
  BY <1>1, <1>2, SignInIs DEF Typed
<1>4. Awaited(p) = l
  BY <1>2 DEF Awaited
<1>5. l \notin IssuedLogins /\ provider.code[l] = "none" /\ \A u \in Tabs \ {t} : Awaited(tab[u]) # l
  BY <1>1, <1>3, <1>4 DEF Own
<1>6. CASE /\ Len(provider.of) < MaxIssued /\ provider' = Issue(l)
           /\ tab' = [tab EXCEPT ![t].flow.answer = Answer(Len(provider'.of), Len(provider'.of))]
  <2>1. Issues(l) /\ provider'.code = provider.code /\ a \in Issued /\ Len(provider'.of) = a
    BY <1>3, <1>6, ProviderIssues DEF Issues
  <2>. DEFINE x == Answer(a, a)
  <2>2. x \in Token /\ x # Lost
    BY <2>1, TokensAre, NoneAssumption
  <2>3. tab' = [tab EXCEPT ![t].flow.answer = x]
    BY <1>6, <2>1
  <2>4. provider'.code[l] # "ready"
    BY <1>5, <2>1
  <2>5. x \in Token => x = Answer(Len(provider.of) + 1, Len(provider.of) + 1)
    OBVIOUS
  <2>. HIDE DEF x
  <2>. QED BY <1>2, <1>5, <2>1, <2>2, <2>3, <2>4, <2>5, SignInAnswered
<1>7. CASE (\E x \in {Failed, Nothing} : tab' = [tab EXCEPT ![t].flow.answer = x]) /\ provider' = provider
  <2>1. PICK x \in {Failed, Nothing} : tab' = [tab EXCEPT ![t].flow.answer = x]
    BY <1>7
  <2>2. x # Lost /\ x \in {Failed, Nothing, Lost}
    BY TokensAre, NoneAssumption
  <2>. QED BY <1>1, <1>2, <1>3, <1>7, <2>1, <2>2, FlowFailsOrdinary, OrdinaryKeeps
<1>. QED BY <1>2, <1>6, <1>7

\* The provider answers a code, the first time it sees it.
LEMMA CodeHandledKeeps ==
  ASSUME IInv, NEW t \in Tabs, CodeHandled(t)
  PROVE  IInv'
<1>. DEFINE p == tab[t]
            f == p.flow
            l == f.login
            a == Len(provider.of) + 1
            fits == setup.pkce => f.held.state = l
            b == IF provider.code[l] = "used" THEN 0 ELSE provider.good[l]
<1>1. Typed /\ Sound /\ Synced /\ Own
  BY DEF IInv
<1>2. /\ p.at = "page" /\ f # None /\ f.op = "callback" /\ f.answer = None
      /\ UNCHANGED <<setup, stored, pending, ops, out, late, crossed, took>>
      /\ \/ /\ provider.code[l] = "ready" /\ fits /\ Len(provider.of) < MaxIssued
            /\ provider' = [Issue(l) EXCEPT !.code[l] = "used"]
            /\ \E x \in {Answer(a, a), Lost} : tab' = [tab EXCEPT ![t].flow.answer = x]
         \/ /\ provider' = [provider EXCEPT !.good[l] = b]
            /\ tab' = [tab EXCEPT ![t].flow.answer = Failed]
         \/ tab' = [tab EXCEPT ![t].flow.answer = Lost] /\ provider' = provider
  BY DEF CodeHandled, OnPage, ghosts, More
<1>3. /\ ProviderTyped(provider) /\ l \in Logins /\ l <= Len(provider.good) /\ l \in 1..Len(provider.good) /\ l # 0 /\ l \in 1..Len(provider.code)
      /\ provider.good \in Seq({0} \cup Issued) /\ provider.code \in Seq({"none", "ready", "used"})
  BY <1>1, <1>2, SignInIs DEF Typed
<1>7. ProviderTyped(provider)
  BY <1>3
<1>8. l \in Logins /\ l <= Len(provider.good)
  BY <1>3
<1>4. CASE /\ provider.code[l] = "ready" /\ fits /\ Len(provider.of) < MaxIssued
           /\ provider' = [Issue(l) EXCEPT !.code[l] = "used"]
           /\ \E x \in {Answer(a, a), Lost} : tab' = [tab EXCEPT ![t].flow.answer = x]
  <2>1. PICK x \in {Answer(a, a), Lost} : tab' = [tab EXCEPT ![t].flow.answer = x]
    BY <1>4
  <2>. HIDE DEF l
  <2>2. /\ a \in Issued /\ ProviderTyped(Issue(l)) /\ Issue(l).home = provider.home /\ Issue(l).code = provider.code
        /\ Len(Issue(l).of) = a /\ Issue(l).of[a] = l /\ \A m \in 1..Len(provider.of) : Issue(l).of[m] = provider.of[m]
    BY <1>7, <1>8, <1>4, ProviderIssues
  <2>3. /\ ProviderTyped(provider') /\ provider'.of = Issue(l).of /\ provider'.home = Issue(l).home
        /\ provider'.code = [provider.code EXCEPT ![l] = "used"]
    <3>. DEFINE v == Issue(l)
    <3>1. ProviderTyped(v) /\ v.code = provider.code
      BY <2>2
    <3>2. provider' = [v EXCEPT !.code[l] = "used"]
      BY <1>4 DEF l
    <3>. HIDE DEF v
    <3>3. ProviderTyped(provider') /\ provider'.of = v.of /\ provider'.home = v.home /\ provider'.code = [v.code EXCEPT ![l] = "used"]
      BY <3>1, <3>2, CodeNoted
    <3>. QED BY <3>1, <3>3 DEF v
  <2>4. Issues(l)
    BY <2>2, <2>3 DEF Issues
  <2>5. /\ Len(provider'.code) = Len(provider.code) /\ provider'.code[l] # "ready"
        /\ \A m \in 1..Len(provider.code) : provider'.code[m] = "ready" => provider.code[m] = "ready"
        /\ \A m \in 1..Len(provider.code) : provider.code[m] = "none" => provider'.code[m] = "none"
    <3>. DEFINE c == [provider.code EXCEPT ![l] = "used"]
    <3>1. Len(c) = Len(provider.code) /\ \A m \in 1..Len(provider.code) : c[m] = IF m = l THEN "used" ELSE provider.code[m]
      BY <1>3, ExceptSeq
    <3>. HIDE DEF c
    <3>2. provider'.code = c
      BY <2>3 DEF c
    <3>. QED BY <1>3, <1>4, <3>1, <3>2
  <2>6. l \notin IssuedLogins /\ \A u \in Tabs \ {t} : Awaited(tab[u]) # l
    BY <1>1, <1>3, <1>4 DEF Own
  <2>7. x \in Token \cup {Lost} /\ (x \in Token => x = Answer(Len(provider.of) + 1, Len(provider.of) + 1))
    BY <2>2, TokensAre, NoneAssumption
  <2>8. setup.pkce /\ f.op = "callback" => f.held.state = f.login
    BY <1>4 DEF l
  <2>. QED BY <1>2, <2>1, <2>4, <2>5, <2>6, <2>7, <2>8, SignInAnswered DEF l
<1>5. CASE provider' = [provider EXCEPT !.good[l] = b] /\ tab' = [tab EXCEPT ![t].flow.answer = Failed]
  <2>1. b \in {0} \cup Issued
    BY <1>3
  <2>. HIDE DEF l, b
  <2>2. ASSUME NEW m
        PROVE  LET w == [provider EXCEPT !.good[m] = b] IN
               ProviderTyped(w) /\ w.of = provider.of /\ w.home = provider.home /\ w.code = provider.code
    BY <1>7, <2>1, LoginEnds
  <2>3. ProviderTyped(provider') /\ provider'.of = provider.of /\ provider'.home = provider.home /\ provider'.code = provider.code
    BY <1>5, <2>2
  <2>4. Failed # Nothing
    BY DEF Failed, Nothing
  <2>. QED BY <1>1, <1>2, <1>5, <2>3, <2>4, FlowFailsOrdinary, OrdinaryKeeps
<1>6. CASE tab' = [tab EXCEPT ![t].flow.answer = Lost] /\ provider' = provider
  <2>1. Lost # Nothing
    BY TokensAre, NoneAssumption
  <2>. QED BY <1>1, <1>2, <1>3, <1>6, <2>1, FlowFailsOrdinary, OrdinaryKeeps
<1>. HIDE DEF l, b, fits
<1>. QED BY <1>2, <1>4, <1>5, <1>6

-----------------------------------------------------------------------------
(* Tokens that come to be held. *)

\* A step that stores a token it took from its own answer keeps the invariant.
LEMMA PlainKeeps ==
  ASSUME IInv, NEW t \in Tabs, NEW k, NEW v, Moves(t, k, v), NEW S, Plain(t, v, S), Clear(t, S), Unasked(t),
         took' = took \/ ItsOwn', Stands'
  PROVE  IInv'
<1>1. Typed /\ Sound /\ Synced /\ New /\ Sealed /\ Own /\ ItsOwn
  BY DEF IInv
<1>2. Typed' /\ Sound' /\ Synced'
  BY <1>1, MovesTyped, MovesSound, MovesSynced
<1>3. New' /\ Sealed'
  BY <1>1, PlainFresh
<1>4. Own'
  BY <1>1, UnaskedOwn
<1>5. ItsOwn'
  BY <1>1 DEF ItsOwn, Moves
<1>. QED BY <1>2, <1>3, <1>4, <1>5 DEF IInv

\* A page after a refresh token was spent.
LEMMA SpentField ==
  ASSUME NEW p \in Pages, NEW x \in SUBSET Issued
  PROVE  LET q == [p EXCEPT !.spent = x] IN
         /\ q \in Pages /\ q.spent = x /\ q.at = p.at /\ q.asked = p.asked /\ q.url = p.url /\ q.key = p.key
         /\ q.wanted = p.wanted /\ q.mem = p.mem /\ q.on = p.on /\ q.missed = p.missed /\ q.watched = p.watched
         /\ q.user = p.user /\ q.check = p.check /\ q.flow = p.flow /\ q.sync = p.sync
BY DEF Pages

\* What a check's answer has made of the token.
LEMMA RefreshedIs ==
  ASSUME Typed, Sound, NEW t \in Tabs, tab[t].check # None, tab[t].check.answer \in Token
  PROVE  LET c == tab[t].check
             v == Refreshed(t, c.answer)
         IN
         /\ v \in Token /\ Good(World, v, tab[t].key)
         /\ \/ Numbers(v) = <<0, 0>>
            \/ /\ v.access \in 1..Len(provider.of) /\ provider.of[v.access] = provider.of[c.of.access]
               /\ setup.rotates => v.refresh = CheckNumber(c) /\ v.refresh # 0
<1>. DEFINE c == tab[t].check
            a == c.answer
            v == Refreshed(t, a)
            k == tab[t].key
<1>1. c \in Checks /\ c.of \in Token /\ a \in Token /\ GoodCheck(World, c, k) /\ World.of = provider.of
      /\ Len(provider.of) \in Nat /\ World.rotates = setup.rotates
  BY PageIs, ChecksAre, WorldTypes DEF GoodPage
<1>2. CASE a = Failed
  <2>1. v = Failed
    BY <1>2 DEF Refreshed
  <2>. QED BY <1>1, <2>1, TokensAre DEF Numbers, Good
<1>3. CASE a # Failed
  <2>. DEFINE n == IF a.refresh = 0 THEN c.of.refresh ELSE a.refresh
              x == [a EXCEPT !.expires = TRUE, !.refresh = n]
  <2>1. v = x
    BY <1>1, <1>3 DEF Refreshed, Token
  <2>2. n \in {0} \cup Issued
    BY <1>1, TokensAre
  <2>3. x \in Token /\ x.access = a.access /\ x.refresh = n
    BY <1>1, <2>2 DEF Token
  <2>. HIDE DEF x
  <2>4. /\ Good(World, a, k) /\ a.access # 0 /\ provider.of[a.access] = provider.of[c.of.access]
        /\ (setup.rotates => a.refresh # 0) /\ Good(World, c.of, k) /\ c.of.refresh # 0
    BY <1>1, <1>3 DEF GoodCheck
  <2>5. a.access \in 1..Len(provider.of)
    BY <1>1, <2>4, TokensAre DEF Good, Issued
  <2>6. n <= Len(provider.of) /\ provider.of[n] = provider.of[a.access] /\ n # 0
    BY <1>1, <2>4 DEF Good
  <2>7. Good(World, x, k)
    BY <1>1, <2>3, <2>4, <2>6 DEF Good
  <2>8. setup.rotates => n = CheckNumber(c) /\ n # 0
    BY <1>1, <2>4 DEF CheckNumber
  <2>. QED BY <2>1, <2>3, <2>4, <2>5, <2>7, <2>8
<1>. HIDE DEF v
<1>. QED BY <1>2, <1>3 DEF v

\* The page receives the answer of its check (token.ts:81-106): the token it presented is spent, and
\* the new one, which was nowhere else, is stored.
LEMMA ReceiveCheckKeeps ==
  ASSUME IInv, NEW t \in Tabs, ReceiveCheck(t)
  PROVE  IInv'
<1>. DEFINE p == tab[t]
            c == p.check
            v == Refreshed(t, c.answer)
            S0 == IF setup.rotates THEN p.spent \cup {c.of.refresh} ELSE p.spent
            y == [p EXCEPT !.spent = S0]
            s == [y EXCEPT !.mem = v]
            q == SetState(y, v)
            x == [q EXCEPT !.check = None]
            r == Released(x)
            k == p.key
<1>1. Typed /\ Sound /\ Synced /\ Stands /\ New /\ Sealed
  BY DEF IInv
<1>2. CASE c.answer = Lost
  BY <1>1, <1>2, ReceiveLostOrdinary, OrdinaryKeeps
<1>3. CASE c.answer # Lost
  <2>1. p.at = "page" /\ c # None /\ c.answer # None /\ UNCHANGED <<setup, provider, ops, out, crossed, took>>
    BY DEF ReceiveCheck, OnPage
  <2>2. /\ p \in Pages /\ c \in Checks /\ c.of \in Token /\ c.answer \in Token /\ GoodPage(World, p) /\ Follows(World, p)
        /\ setup \in Setups /\ Len(provider.of) \in Nat /\ World.of = provider.of /\ World.rotates = setup.rotates
        /\ k \in Keys /\ p.spent \subseteq Issued /\ WorldTyped(World) /\ GoodCheck(World, c, k)
    <3>1. c \in Checks
      BY <1>1, <2>1, PageIs
    <3>. QED BY <1>1, <1>3, <2>1, <3>1, PageIs, ChecksAre, WorldTypes DEF GoodPage
  <2>3. /\ tab' = Missed(t, r.key, r.mem, r) /\ Write(t, r.key, r.mem)
        /\ late' = IF LoginOf(r.mem) \in out THEN late \cup {r.mem.access} ELSE late
    <3>1. y = IF setup.rotates /\ c.answer # Lost THEN [p EXCEPT !.spent = @ \cup {c.of.refresh}] ELSE p
      BY <1>3, <2>2 DEF Pages
    <3>. QED BY <1>3, <3>1 DEF ReceiveCheck
  <2>4. /\ v \in Token /\ Good(World, v, k)
        /\ \/ Numbers(v) = <<0, 0>>
           \/ /\ v.access \in 1..Len(provider.of) /\ provider.of[v.access] = provider.of[c.of.access]
              /\ setup.rotates => v.refresh = CheckNumber(c) /\ v.refresh # 0
    BY <1>1, <2>1, <2>2, RefreshedIs
  <2>. HIDE DEF v
  <2>5. c.of.refresh \in 1..Len(provider.of) /\ c.of.refresh \in Issued
    <3>1. c.of.refresh # 0 /\ c.of.refresh \in {0} \cup Issued
      BY <2>2, TokensAre DEF GoodCheck
    <3>2. Good(World, c.of, k)
      BY <2>2 DEF GoodCheck
    <3>. QED BY <2>2, <3>1, <3>2 DEF Good, Issued
  <2>6. S0 \subseteq Issued /\ S0 \subseteq 1..Len(provider.of) /\ S0 \subseteq p.spent \cup {c.of.refresh}
        /\ (~setup.rotates => S0 = {})
    BY <2>2, <2>5 DEF GoodPage
  <2>. HIDE DEF S0
  <2>7. /\ y \in Pages /\ y.spent = S0 /\ y.at = p.at /\ y.asked = p.asked /\ y.url = p.url /\ y.key = p.key
        /\ y.wanted = p.wanted /\ y.mem = p.mem /\ y.on = p.on /\ y.missed = p.missed /\ y.watched = p.watched
        /\ y.user = p.user /\ y.check = p.check /\ y.flow = p.flow /\ y.sync = p.sync
    BY <2>2, <2>6, SpentField
  <2>. HIDE DEF y
  <2>8. GoodPage(World, y) /\ Follows(World, y)
    <3>1. GoodPage(World, y)
      BY <2>2, <2>6, <2>7 DEF GoodPage
    <3>. QED BY <2>2, <2>7, <3>1, FollowsAs DEF ProfileAs
  <2>9. s \in Pages /\ Settles(s, q) /\ s.mem = v /\ s.check = y.check /\ s.sync = y.sync /\ Keeps(y, s)
    <3>1. s \in Pages /\ Settles(s, q)
      BY <2>2, <2>4, <2>7, SetStateSettles
    <3>2. s.mem = v /\ s.check = y.check /\ s.sync = y.sync /\ Keeps(y, s)
      BY <2>7, TokenFields
    <3>. QED BY <3>1, <3>2
  <2>10. GoodPage(World, s) /\ Follows(World, q)
    <3>1. GoodPage(World, s)
      BY <2>4, <2>7, <2>8, GoodMem
    <3>2. Follows(World, q)
      BY <2>2, <2>4, <2>7, <2>8, SetStateFollows
    <3>. QED BY <3>1, <3>2
  <2>. HIDE DEF s, q
  <2>11. q \in Pages /\ q.mem = v /\ q.check = c /\ Keeps(y, q) /\ GoodPage(World, q)
    <3>1. q.mem = v /\ q.check = c
      BY <2>1, <2>7, <2>9 DEF Settles
    <3>2. q \in Pages /\ Keeps(y, q)
      BY <2>9 DEF Settles, Keeps
    <3>3. GoodPage(World, q)
      BY <2>2, <2>4, <2>9, <2>10, GoodSettles DEF Good
    <3>. QED BY <3>1, <3>2, <3>3
  <2>12. x \in Pages /\ BesideAnswers(q, x) /\ x.check = None /\ x.flow = q.flow /\ x.sync = q.sync
    BY <2>11, CheckField
  <2>. HIDE DEF x
  <2>13. GoodPage(World, x) /\ Follows(World, x) /\ x.mem = v /\ x.at = "page"
    BY <2>1, <2>7, <2>10, <2>11, <2>12, AnswersGood, AnswersFollow DEF BesideAnswers, GoodPage, Keeps
  <2>14. /\ r \in Pages /\ BesideAnswers(x, r) /\ r.check = None /\ GoodPage(World, r) /\ Follows(World, r)
         /\ FlowLogin(r.flow) = FlowLogin(x.flow) /\ HeldBy(r.flow) = HeldBy(x.flow)
         /\ Awaited(r) = Awaited(x)
    <3>1. x.mem.access <= Len(provider.of)
      BY <2>2, <2>4, <2>13 DEF Good
    <3>. QED BY <1>1, <2>2, <2>12, <2>13, <3>1, ReleasedGood
  <2>. HIDE DEF r
  <2>15. /\ r.at = "page" /\ r.key = k /\ r.mem = v /\ r.on = p.on /\ r.spent = S0
         /\ FlowLogin(r.flow) = FlowLogin(p.flow) /\ HeldBy(r.flow) = HeldBy(p.flow) /\ Awaited(r) = Awaited(p)
    <3>1. x.flow = p.flow /\ x.at = "page" /\ p.at = "page"
      BY <2>1, <2>7, <2>11, <2>12, <2>13 DEF Keeps
    <3>2. Awaited(x) = Awaited(p)
      BY <3>1 DEF Awaited
    <3>. QED BY <2>7, <2>11, <2>12, <2>13, <2>14, <3>1, <3>2 DEF Keeps, BesideAnswers
  <2>16. Spread(t, k, v) /\ tab'[t] = r /\ tab' \in [Tabs -> Pages] /\ pending'[t] = pending[t] /\ pending' \in [Tabs -> SUBSET Keys]
    BY <1>1, <2>2, <2>3, <2>4, <2>14, <2>15, WriteSpreads
  <2>17. Meanwhile /\ World' = World
    BY <1>1, <2>1, Still
  <2>18. late' \subseteq Issued /\ late \subseteq late' /\ (v.access # 0 /\ provider.of[v.access] \in out => v.access \in late')
    <3>1. v.access \in {0} \cup Issued /\ out \subseteq Logins /\ 0 \notin Logins /\ late \subseteq Issued
      BY <1>1, <2>4, TokensAre DEF Typed, Logins
    <3>. QED BY <2>3, <2>15, <3>1 DEF LoginOf
  <2>19. Moves(t, k, v)
    <3>1. Heard(t, k, v)
      BY <1>1, <2>15, <2>16 DEF Heard, Synced, Listening
    <3>2. GoodPage(World', r) /\ Follows(World', r) /\ Good(World', v, k)
      BY <2>4, <2>14, <2>17
    <3>. QED BY <2>2, <2>4, <2>16, <2>17, <2>18, <3>1, <3>2 DEF Moves, Meanwhile
  <2>20. Numbers(c.of) \in Around /\ c.of.access # 0
    <3>1. Numbers(c.of) \in NumbersOf(p)
      BY <2>1 DEF NumbersOf, CheckedBy
    <3>. QED BY <2>2, <3>1, AroundIs DEF GoodCheck, Good
  <2>21. \A u \in Tabs \ {t} : tab'[u].spent = tab[u].spent /\ tab'[u].flow = tab[u].flow /\ tab'[u].check = tab[u].check
    BY <1>1, <2>2, <2>16, SpreadOthers
  <2>22. \A u \in Tabs : v.refresh \notin tab'[u].spent
    <3>1. \A u \in Tabs : 0 \notin tab'[u].spent /\ tab'[u].spent \subseteq tab[u].spent \cup {c.of.refresh}
      BY <2>6, <2>15, <2>16, <2>21 DEF Pages, Issued
    <3>2. CASE Numbers(v) = <<0, 0>>
      BY <3>1, <3>2 DEF Numbers
    <3>3. CASE ~setup.rotates
      <4>1. \A u \in Tabs : tab[u].spent = {}
        BY <1>1, <2>2, <3>3 DEF Sound, GoodPage
      <4>. QED BY <2>6, <2>15, <2>16, <2>21, <3>3, <4>1
    <3>4. CASE setup.rotates /\ Numbers(v) # <<0, 0>>
      <4>1. v.refresh = CheckNumber(c) /\ v.refresh # 0
        BY <2>4, <3>4
      <4>2. (\A n \in Around : n[2] # v.refresh) /\ \A u \in Tabs : v.refresh \notin tab[u].spent
        BY <1>1, <3>4, <4>1 DEF Sealed
      <4>3. c.of.refresh # v.refresh
        BY <2>20, <4>2 DEF Numbers
      <4>. QED BY <3>1, <4>2, <4>3
    <3>. QED BY <3>2, <3>3, <3>4
  <2>23. Stands'
    <3>1. EndedThen(v) => v.access \in late'
      BY <2>1, <2>18, <2>22 DEF EndedThen, EndedIn
    <3>2. ASSUME NEW j \in Keys \ {k}, EndedThen(stored[j])
          PROVE  Ended(stored[j]) \/ crossed'
      <4>1. CASE stored[j].refresh # c.of.refresh
        <5>1. \A u \in Tabs : tab'[u].spent \subseteq tab[u].spent \cup {c.of.refresh}
          BY <2>6, <2>15, <2>16, <2>21
        <5>. QED BY <2>1, <3>2, <4>1, <5>1 DEF EndedThen, Ended, EndedIn
      <4>2. CASE stored[j].refresh = c.of.refresh
        <5>1. Good(World, stored[j], j) /\ Good(World, c.of, k) /\ stored[j] \in Token
          BY <1>1, <2>2 DEF Sound, GoodCheck, Typed
        <5>. DEFINE l == World.of[c.of.refresh]
        <5>2. AtHome(World, l, j) /\ AtHome(World, l, k) /\ l # 0
          <6>1. l \in Logins
            BY <1>1, <2>2, <2>5 DEF Typed, ProviderTyped
          <6>2. stored[j].refresh # 0 /\ c.of.refresh # 0
            BY <2>5, <4>2
          <6>3. AtHome(World, World.of[stored[j].refresh], j)
            BY <5>1, <6>2 DEF Good
          <6>4. AtHome(World, World.of[c.of.refresh], k)
            BY <5>1, <6>2 DEF Good
          <6>5. l # 0
            BY <6>1 DEF Logins
          <6>. QED BY <4>2, <6>3, <6>4, <6>5
        <5>3. World.crossed
          BY <5>2, <3>2 DEF AtHome
        <5>. QED BY <1>1, <2>1, <5>3, WorldTypes
      <4>. QED BY <4>1, <4>2
    <3>. QED BY <1>1, <2>14, <2>15, <2>16, <2>18, <2>19, <2>22, <3>1, <3>2, StandsOthers
  <2>. DEFINE S == {Numbers(v)}
  <2>24. Plain(t, v, S)
    <3>1. CheckNumber(r.check) = 0 /\ CheckedBy(r.check) = {}
      BY <2>14 DEF CheckNumber, CheckedBy
    <3>2. HeldBy(p.flow) \subseteq Around
      BY AroundIs DEF NumbersOf
    <3>3. NumbersOf(r) \cup {Numbers(v)} \subseteq Around \cup {<<0, 0>>} \cup S
      BY <2>15, <3>1, <3>2 DEF NumbersOf
    <3>4. S0 \subseteq p.spent \cup {n[2] : n \in Around}
      BY <2>6, <2>20 DEF Numbers
    <3>. QED BY <2>1, <2>15, <2>16, <3>1, <3>3, <3>4 DEF Plain
  <2>25. Clear(t, S)
    <3>1. ASSUME NEW u \in Tabs
          PROVE  /\ v.access # 0 => v.access \in 1..Len(provider.of)
                                    /\ (FlowLogin(tab'[u].flow) # 0 => provider.of[v.access] # FlowLogin(tab'[u].flow))
                 /\ setup.rotates /\ CheckNumber(tab'[u].check) # 0 => v.refresh # CheckNumber(tab'[u].check)
      <4>1. CASE Numbers(v) = <<0, 0>>
        BY <4>1 DEF Numbers
      <4>2. CASE Numbers(v) # <<0, 0>>
        <5>1. v.access \in 1..Len(provider.of) /\ provider.of[v.access] = provider.of[c.of.access]
          BY <2>4, <4>2
        <5>2. FlowLogin(tab'[u].flow) = FlowLogin(tab[u].flow)
          BY <2>15, <2>16, <2>21
        <5>3. FlowLogin(tab'[u].flow) # 0 => provider.of[c.of.access] # FlowLogin(tab'[u].flow)
          BY <1>1, <2>20, <5>2 DEF New, Numbers
        <5>4. ASSUME setup.rotates, CheckNumber(tab'[u].check) # 0
              PROVE  v.refresh # CheckNumber(tab'[u].check)
          <6>1. v.refresh = CheckNumber(c) /\ v.refresh # 0
            BY <2>4, <4>2, <5>4
          <6>2. u # t
            BY <2>14, <2>16, <5>4 DEF CheckNumber
          <6>. QED BY <1>1, <2>21, <5>4, <6>1, <6>2 DEF Sealed
        <5>. QED BY <5>1, <5>3, <5>4
      <4>. QED BY <4>1, <4>2
    <3>. QED BY <3>1 DEF Clear, Numbers
  <2>26. Unasked(t)
    BY <2>1, <2>15, <2>16 DEF Unasked
  <2>. HIDE DEF S
  <2>. QED BY <2>1, <2>19, <2>23, <2>24, <2>25, <2>26, PlainKeeps
<1>. QED BY <1>2, <1>3

-----------------------------------------------------------------------------
(* Sign-ins that begin. *)

LEMMA AttemptWorld ==
  ASSUME Typed, Sound, NEW h \in Keys, NextLogin \in Logins, provider' = Attempt(h), UNCHANGED <<setup, out, crossed, took>>,
         ops > 0, ops' = ops - 1
  PROVE  /\ Meanwhile /\ WorldTyped(World) /\ WorldTyped(World') /\ Grows(World, World') /\ World'.crossed = crossed
         /\ NextLogin = Len(provider.code) + 1 /\ Len(provider.code) \in Nat
         /\ provider'.of = provider.of /\ Len(World'.home) = NextLogin /\ World'.home[NextLogin] = h
         /\ Len(provider'.code) = NextLogin /\ provider'.code[NextLogin] = "none"
         /\ \A l \in 1..Len(provider.code) : provider'.code[l] = provider.code[l]
<1>1. ProviderTyped(provider) /\ setup \in Setups /\ ops \in 0..setup.ops
  BY DEF Typed
<1>2. LET w == Attempt(h) IN
      /\ ProviderTyped(w) /\ w.of = provider.of /\ NextLogin = Len(provider.good) + 1
      /\ Len(w.home) = NextLogin /\ w.home[NextLogin] = h /\ w.code[NextLogin] = "none"
      /\ \A l \in 1..Len(provider.home) : w.home[l] = provider.home[l] /\ w.code[l] = provider.code[l]
  BY <1>1, ProviderAttempts
<1>3. Len(provider.code) = Len(provider.good) /\ Len(provider.home) = Len(provider.good) /\ Len(provider.code) \in Nat
  BY <1>1 DEF ProviderTyped
<1>4. Len(provider'.code) = NextLogin
  BY <1>2 DEF ProviderTyped
<1>5. World' = WorldOf(provider', crossed, setup)
  BY DEF World, WorldOf
<1>6. WorldTyped(World) /\ WorldTyped(World')
  BY <1>2, <1>5, WorldIs, WorldTypes DEF Typed
<1>7. Grows(World, World')
  BY <1>2, <1>3, <1>5, WorldTypes DEF Grows, World, WorldOf
<1>8. ops' \in 0..setup.ops
  BY <1>1, ClientAssumption
<1>9. Meanwhile
  BY <1>2, <1>7, <1>8 DEF Meanwhile, Typed
<1>. QED BY <1>2, <1>3, <1>4, <1>5, <1>6, <1>7, <1>9 DEF WorldOf

\* A login that begins has no token and no code.
LEMMA AttemptKeeps ==
  ASSUME IInv, NEW t \in Tabs, NEW k, NEW v, Moves(t, k, v), Quiet(t, v), Plain(t, v, {}), NextLogin = Len(provider.code) + 1,
         Len(provider'.code) = NextLogin, provider'.code[NextLogin] = "none",
         \A l \in 1..Len(provider.code) : provider'.code[l] = provider.code[l],
         Awaited(tab'[t]) = NextLogin, took' = took
  PROVE  IInv'
<1>1. Typed /\ Sound /\ Synced /\ Stands /\ New /\ Sealed /\ Own /\ ItsOwn
  BY DEF IInv
<1>2. Typed' /\ Sound' /\ Synced'
  BY <1>1, MovesTyped, MovesSound, MovesSynced
<1>3. Stands'
  BY <1>1, QuietStands
<1>4. New' /\ Sealed'
  <2>1. Clear(t, {})
    BY DEF Clear
  <2>. QED BY <1>1, <2>1, PlainFresh
<1>5. Own'
  <2>1. IssuedLogins' = IssuedLogins /\ out' = out
    BY DEF IssuedLogins, Plain, Quiet
  <2>2. \A u \in Tabs : Awaited(tab[u])' = Awaited(tab'[u])
    BY DEF Awaited
  <2>3. k \in Keys /\ Spread(t, k, v)
    BY DEF Moves
  <2>4. \A u \in Tabs \ {t} : Awaited(tab'[u]) = Awaited(tab[u])
    BY <1>1, <2>3, SpreadOthers DEF Awaited
  <2>5. Len(provider.code) \in Nat /\ 1..NextLogin = 1..Len(provider.code) \cup {NextLogin} /\ NextLogin # 0
        /\ NextLogin \notin 1..Len(provider.code)
    BY <1>1 DEF Typed, ProviderTyped
  <2>6. NextLogin \notin IssuedLogins
    <3>1. \A a \in 1..Len(provider.of) : provider.of[a] <= Len(provider.code) /\ provider.of[a] \in Nat
      <4>1. provider.of \in Seq(Logins) /\ Len(provider.code) = Len(provider.good)
        BY <1>1 DEF Typed, ProviderTyped
      <4>2. \A a \in 1..Len(provider.of) : provider.of[a] \in Logins /\ provider.of[a] <= Len(provider.good)
        BY <1>1, <4>1 DEF Typed, ProviderTyped
      <4>. QED BY <4>1, <4>2 DEF Logins
    <3>. QED BY <2>5, <3>1 DEF IssuedLogins
  <2>7. out' \subseteq IssuedLogins'
    BY <1>1, <2>1 DEF Own
  <2>8. \A l \in 1..Len(provider'.code) : provider'.code[l] = "ready" => l \notin IssuedLogins'
    BY <1>1, <2>1, <2>5 DEF Own
  <2>9. ASSUME NEW u \in Tabs, Awaited(tab'[u]) # 0
        PROVE  /\ Awaited(tab'[u]) \notin IssuedLogins' /\ provider'.code[Awaited(tab'[u])] = "none"
               /\ \A w \in Tabs \ {u} : Awaited(tab'[w]) # Awaited(tab'[u])
    <3>1. CASE u = t
      <4>1. \A w \in Tabs \ {u} : Awaited(tab'[w]) # NextLogin
        BY <1>1, <2>4, <2>5, <3>1, AwaitedIs
      <4>. QED BY <2>1, <2>6, <3>1, <4>1
    <3>2. CASE u # t
      <4>1. Awaited(tab'[u]) = Awaited(tab[u]) /\ Awaited(tab[u]) \in 1..Len(provider.code)
        BY <1>1, <2>4, <2>9, <3>2, AwaitedIs
      <4>2. /\ Awaited(tab[u]) \notin IssuedLogins /\ provider.code[Awaited(tab[u])] = "none"
            /\ \A w \in Tabs \ {u} : Awaited(tab[w]) # Awaited(tab[u])
        BY <1>1, <2>9, <4>1 DEF Own
      <4>3. \A w \in Tabs \ {u} : Awaited(tab'[w]) # Awaited(tab[u])
        BY <2>4, <2>5, <4>1, <4>2
      <4>. QED BY <2>1, <4>1, <4>2, <4>3
    <3>. QED BY <3>1, <3>2
  <2>. QED BY <2>2, <2>7, <2>8, <2>9 DEF Own
<1>6. ItsOwn'
  BY <1>1 DEF ItsOwn, Moves
<1>. QED BY <1>2, <1>3, <1>4, <1>5, <1>6 DEF IInv

\* The user types a password.
LEMMA PasswordKeeps ==
  ASSUME IInv, NEW t \in Tabs, Password(t)
  PROVE  IInv'
<1>. DEFINE p == tab[t]
            g == [op |-> "password", login |-> NextLogin, answer |-> None]
            r == [p EXCEPT !.flow = g]
            k == p.key
            v == stored[k]
            D == pending[t]
<1>1. Typed /\ Sound /\ Synced
  BY DEF IInv
<1>2. /\ p.at = "page" /\ p.flow = None /\ NextLogin \in Logins /\ provider' = Attempt(p.wanted) /\ ops > 0 /\ ops' = ops - 1
      /\ tab' = [tab EXCEPT ![t].flow = g] /\ UNCHANGED <<setup, stored, pending, out, late, crossed, took>>
  BY DEF Password, Free, OnPage, Does, ghosts
<1>3. p \in Pages /\ GoodPage(World, p) /\ Follows(World, p) /\ k \in Keys /\ p.wanted \in Keys /\ v \in Token
      /\ tab \in [Tabs -> Pages] /\ p.mem.access <= Len(World.of)
  BY <1>1, PageIs, WorldTypes DEF Typed
<1>4. /\ Meanwhile /\ WorldTyped(World) /\ WorldTyped(World') /\ Grows(World, World') /\ World'.crossed = crossed
      /\ NextLogin = Len(provider.code) + 1 /\ Len(provider.code) \in Nat
      /\ provider'.of = provider.of /\ Len(World'.home) = NextLogin /\ World'.home[NextLogin] = p.wanted
      /\ Len(provider'.code) = NextLogin /\ provider'.code[NextLogin] = "none"
      /\ \A l \in 1..Len(provider.code) : provider'.code[l] = provider.code[l]
  BY <1>1, <1>2, <1>3, AttemptWorld
<1>5. g \in Flows /\ g.op = "password" /\ g.login = NextLogin /\ g.answer = None
  BY <1>2 DEF Flows
<1>6. tab' = [tab EXCEPT ![t] = r]
  BY <1>2, <1>3 DEF Pages
<1>. HIDE DEF g
<1>7. r \in Pages /\ RestAs(p, r) /\ r.sync = p.sync /\ r.user = p.user /\ r.flow = g
  BY <1>3, <1>5, FlowField
<1>. HIDE DEF r
<1>8. GoodPage(World', r) /\ Follows(World', r)
  <2>1. GoodPage(World', p) /\ Follows(World', p)
    BY <1>3, <1>4, GoodPageKept, FollowsKept
  <2>2. AtHome(World', NextLogin, k)
    BY <1>4, <2>1 DEF AtHome, GoodPage
  <2>3. GoodFlow(World', g, k)
    BY <1>5, <2>2, NoneAssumption DEF GoodFlow
  <2>. QED BY <1>7, <2>1, <2>3, RestGood, RestFollows
<1>9. /\ r.at = "page" /\ r.key = k /\ r.mem = p.mem /\ r.missed = p.missed /\ r.on = p.on /\ r.spent = p.spent /\ r.check = p.check
  BY <1>2, <1>7 DEF RestAs
<1>10. /\ D \subseteq pending[t] /\ (p.key \in pending[t] \/ p.missed => p.key \in D \/ r.missed)
       /\ (D # {} => r.at = "page" /\ r.on) /\ pending' = [pending EXCEPT ![t] = D] /\ stored' = stored /\ late' = late
  BY <1>1, <1>2, <1>9 DEF Synced, Listening, Typed
<1>. HIDE DEF D
<1>11. tab'[t] = r /\ Moves(t, k, v)
  BY <1>1, <1>2, <1>4, <1>6, <1>7, <1>8, <1>9, <1>10, Silent
<1>12. Awaited(r) = NextLogin /\ FlowLogin(g) = 0 /\ HeldBy(g) = {}
  BY <1>5, <1>7, <1>9, FlowsAre, NoneAssumption DEF Awaited, FlowLogin, HeldBy
<1>13. Quiet(t, v)
  <2>1. Same(r.mem, p.mem) /\ Same(v, stored[k])
    BY <1>9 DEF Same
  <2>. QED BY <1>2, <1>3, <1>9, <1>11, <2>1 DEF Quiet
<1>14. Plain(t, v, {})
  <2>1. NumbersOf(r) \subseteq NumbersOf(p)
    BY <1>7, <1>9, <1>12 DEF NumbersOf, CheckedBy
  <2>. QED BY <1>2, <1>3, <1>4, <1>7, <1>9, <1>11, <1>12, <2>1, AroundIs DEF Plain
<1>. QED BY <1>2, <1>4, <1>11, <1>12, <1>13, <1>14, AttemptKeeps

\* A page that has gone away, with v written over its token.
LEMMA AwayIs ==
  ASSUME NEW p \in Pages, NEW u \in {0} \cup Logins
  PROVE  LET q == Away(p, u) IN
         /\ q \in Pages /\ q.at = "away" /\ q.asked = u /\ q.url = 0 /\ q.key = p.key /\ q.wanted = p.wanted
         /\ q.mem = Nothing /\ q.spent = {} /\ q.check = None /\ q.flow = None /\ q.sync = None
BY TokensAre DEF Away, Pages

\* A page that leaves for the provider stores what it will come back to.
LEMMA GoesMoves ==
  ASSUME Typed, Sound, Meanwhile, late' = late, NEW t \in Tabs, NEW v \in {Nothing} \cup {Handoff(l) : l \in Logins},
         NEW u \in {0} \cup Logins, Goes(t, v, u), AtHome(World', u, tab[t].wanted), provider'.of = provider.of,
         out' \subseteq out \cup {provider.of[n[1]] : n \in {m \in Around : m[1] # 0}}
  PROVE  /\ Moves(t, tab[t].key, v) /\ Plain(t, v, {}) /\ tab[t].key \in Keys /\ v \in Token /\ Blank(v)
         /\ Blank(tab'[t].mem) /\ tab'[t].spent = {} /\ tab'[t].check = None /\ Awaited(tab'[t]) = u
<1>. DEFINE p == tab[t]
            k == p.key
            r == Away(p, u)
<1>1. p \in Pages /\ k \in Keys /\ GoodPage(World, p) /\ tab \in [Tabs -> Pages] /\ pending \in [Tabs -> SUBSET Keys]
      /\ stored \in [Keys -> Token] /\ late \subseteq Issued
  BY PageIs DEF Typed
<1>2. v \in Token /\ v.access = 0 /\ v.refresh = 0
  BY TokensAre
<1>3. /\ r \in Pages /\ r.at = "away" /\ r.asked = u /\ r.url = 0 /\ r.key = k /\ r.wanted = p.wanted
      /\ r.mem = Nothing /\ r.spent = {} /\ r.check = None /\ r.flow = None /\ r.sync = None
  BY <1>1, AwayIs
<1>4. /\ tab' = Missed(t, k, v, r) /\ stored' = [stored EXCEPT ![k] = v] /\ pending' = [Sent(t, k, v) EXCEPT ![t] = {}]
  BY DEF Goes
<1>. HIDE DEF r
<1>5. tab' \in [Tabs -> Pages] /\ tab'[t] = r
  <2>1. \A w \in Tabs : tab[w] \in Pages /\ [tab[w] EXCEPT !.missed = TRUE] \in Pages
    BY <1>1, PageFields
  <2>. QED BY <1>3, <1>4, <2>1 DEF Missed
<1>6. pending' \in [Tabs -> SUBSET Keys] /\ pending'[t] = {}
      /\ \A w \in Tabs \ {t} : pending'[w] = IF v # stored[k] /\ Listening(w) THEN pending[w] \cup {k} ELSE pending[w]
  BY <1>1, <1>4 DEF Sent
<1>7. Spread(t, k, v)
  BY <1>4, <1>6 DEF Spread, Missed
<1>8. WorldTyped(World) /\ WorldTyped(World') /\ Grows(World, World') /\ Len(World'.of) \in Nat /\ Len(World'.home) \in Nat
  BY WorldIs DEF Typed, Meanwhile, World, WorldTyped
<1>9. GoodPage(World', r)
  <2>1. GoodPage(World', p)
    BY <1>1, <1>8, GoodPageKept
  <2>. QED BY <1>3, <1>8, <2>1, TokensAre DEF GoodPage, Good, AtHome
<1>10. Moves(t, k, v)
  <2>1. Follows(World', r) /\ Heard(t, k, v) /\ Good(World', v, k)
    BY <1>2, <1>3, <1>5, <1>6, <1>8 DEF Follows, Heard, Good
  <2>. QED BY <1>1, <1>2, <1>5, <1>6, <1>7, <1>9, <2>1 DEF Moves, Meanwhile
<1>11. Numbers(v) = <<0, 0>> /\ NumbersOf(r) = {<<0, 0>>} /\ FlowLogin(r.flow) = 0 /\ CheckNumber(r.check) = 0
       /\ Blank(v) /\ Blank(r.mem)
  BY <1>2, <1>3, TokensAre DEF Numbers, NumbersOf, CheckedBy, HeldBy, FlowLogin, CheckNumber, Blank
<1>12. Plain(t, v, {})
  BY <1>3, <1>5, <1>11 DEF Plain
<1>. QED BY <1>1, <1>2, <1>3, <1>5, <1>10, <1>11, <1>12 DEF Awaited

\* The page leaves to sign in.
LEMMA RedirectKeeps ==
  ASSUME IInv, NEW t \in Tabs, Redirect(t)
  PROVE  IInv'
<1>. DEFINE p == tab[t]
            v == Handoff(NextLogin)
<1>1. Typed /\ Sound /\ Synced
  BY DEF IInv
<1>2. /\ NextLogin \in Logins /\ provider' = Attempt(p.wanted) /\ ops > 0 /\ ops' = ops - 1
      /\ Goes(t, v, NextLogin) /\ UNCHANGED <<setup, out, late, crossed, took>>
  BY DEF Redirect, Does, ghosts
<1>3. p \in Pages /\ p.wanted \in Keys
  BY <1>1, PageIs
<1>4. /\ Meanwhile /\ WorldTyped(World) /\ WorldTyped(World') /\ Grows(World, World') /\ World'.crossed = crossed
      /\ NextLogin = Len(provider.code) + 1 /\ Len(provider.code) \in Nat
      /\ provider'.of = provider.of /\ Len(World'.home) = NextLogin /\ World'.home[NextLogin] = p.wanted
      /\ Len(provider'.code) = NextLogin /\ provider'.code[NextLogin] = "none"
      /\ \A l \in 1..Len(provider.code) : provider'.code[l] = provider.code[l]
  BY <1>1, <1>2, <1>3, AttemptWorld
<1>5. AtHome(World', NextLogin, p.wanted)
  BY <1>4 DEF AtHome
<1>6. v \in {Nothing} \cup {Handoff(l) : l \in Logins}
  BY <1>2
<1>. HIDE DEF v
<1>7. /\ Moves(t, p.key, v) /\ Plain(t, v, {}) /\ p.key \in Keys /\ v \in Token /\ Blank(v)
      /\ Blank(tab'[t].mem) /\ tab'[t].spent = {} /\ tab'[t].check = None /\ Awaited(tab'[t]) = NextLogin
  BY <1>1, <1>2, <1>4, <1>5, <1>6, GoesMoves
<1>8. Quiet(t, v)
  BY <1>2, <1>7 DEF Quiet
<1>. QED BY <1>2, <1>4, <1>7, <1>8, AttemptKeeps

-----------------------------------------------------------------------------
(* Signing out. *)

\* The session of w, which was held under k, ends, and nothing is held in its place.
LEMMA SignedOutKeeps ==
  ASSUME IInv, NEW t \in Tabs, NEW k, NEW v, Moves(t, k, v), Plain(t, v, {}), Unasked(t), Blank(v), Blank(tab'[t].mem),
         NEW w \in Token, Good(World, w, k), SignedOut(w), late \subseteq late', crossed' = crossed, took' = took,
         tab'[t].spent \subseteq tab[t].spent,
         \/ tab'[t].check = None \/ Same(tab'[t].check.of, tab'[t].mem)
         \/ tab[t].check # None /\ tab'[t].check.of = tab[t].check.of
  PROVE  IInv'
<1>. DEFINE p == tab[t]
            q == tab'[t]
<1>1. Typed /\ Sound /\ Stands
  BY DEF IInv
<1>2. k \in Keys /\ v \in Token /\ Spread(t, k, v) /\ stored \in [Keys -> Token] /\ provider'.of = provider.of
  BY <1>1 DEF Moves, Typed, Plain
<1>3. \A u \in Tabs : tab'[u].spent \subseteq tab[u].spent /\ 0 \notin tab'[u].spent
  <2>1. \A u \in Tabs : tab'[u].spent \subseteq tab[u].spent
    BY <1>1, <1>2, SpreadOthers
  <2>2. \A u \in Tabs : 0 \notin tab[u].spent
    BY <1>1 DEF Typed, Pages, Issued
  <2>. QED BY <2>1, <2>2
<1>4. out' \subseteq out \cup {l \in {World.of[w.access]} : w.access # 0}
  BY <1>1, WorldTypes DEF SignedOut, LoginOf
<1>5. ASSUME NEW j \in Keys \ {k}, EndedThen(stored[j])
      PROVE  Ended(stored[j]) \/ crossed'
  <2>. DEFINE x == stored[j]
              l == World.of[w.access]
  <2>1. x \in Token /\ Good(World, x, j) /\ WorldTyped(World) /\ World.of = provider.of /\ World.crossed = crossed
    BY <1>1, <1>2, <1>5, WorldTypes DEF Sound
  <2>2. CASE \E u \in Tabs : x.refresh \in tab'[u].spent
    BY <1>3, <2>2 DEF Ended, EndedIn
  <2>3. CASE x.access # 0 /\ provider.of[x.access] \in out
    BY <2>3 DEF Ended, EndedIn
  <2>4. CASE x.access # 0 /\ w.access # 0 /\ provider.of[x.access] = l
    <3>1. AtHome(World, l, j) /\ AtHome(World, l, k)
      BY <2>1, <2>4 DEF Good
    <3>2. w.access \in 1..Len(World.of)
      BY <2>1, <2>4 DEF Good, Token, Issued, WorldTyped
    <3>3. World.of \in Seq(Logins)
      BY <2>1 DEF WorldTyped
    <3>4. World.of[w.access] \in Logins
      BY <3>2, <3>3
    <3>5. l # 0
      BY <3>4 DEF Logins
    <3>6. World.crossed
      BY <3>1, <3>5, <1>5 DEF AtHome
    <3>. QED BY <2>1, <3>6
  <2>. QED BY <1>2, <1>4, <1>5, <2>1, <2>2, <2>3, <2>4 DEF EndedThen, EndedIn
<1>6. ~EndedThen(v)
  BY <1>3 DEF EndedThen, EndedIn, Blank
<1>7. q.mem.refresh \notin q.spent
  BY <1>3 DEF Blank
<1>8. q.check # None /\ q.check.of.refresh \in q.spent => q.check.of.access \in late' \/ crossed'
  <2>1. CASE Same(q.check.of, q.mem)
    BY <1>7, <2>1 DEF Same
  <2>2. CASE p.check # None /\ q.check.of = p.check.of
    BY <1>1, <2>2 DEF Stands
  <2>. QED BY <2>1, <2>2
<1>9. Stands'
  BY <1>1, <1>5, <1>6, <1>7, <1>8, StandsOthers
<1>10. Clear(t, {})
  BY DEF Clear
<1>. QED BY <1>9, <1>10, PlainKeeps

\* The provider ends the login of a token, where there is one.
LEMMA SignedOutWorld ==
  ASSUME Typed, Sound, NEW w \in Token, Numbers(w) \in Around, SignedOut(w), UNCHANGED <<setup, crossed, took>>,
         ops' = ops \/ (ops > 0 /\ ops' = ops - 1),
         provider' = provider \/ (w.access # 0 /\ provider' = [provider EXCEPT !.good[LoginOf(w)] = 0])
  PROVE  /\ Meanwhile /\ World' = World /\ provider'.of = provider.of /\ provider'.code = provider.code
         /\ out' \subseteq out \cup {provider.of[n[1]] : n \in {m \in Around : m[1] # 0}}
<1>1. ProviderTyped(provider) /\ ops \in 0..setup.ops /\ out \subseteq Logins /\ setup \in Setups /\ crossed \in BOOLEAN
      /\ took \subseteq ({0} \cup Logins) \X Logins
  BY DEF Typed
<1>2. ProviderTyped(provider') /\ provider'.of = provider.of /\ provider'.home = provider.home /\ provider'.code = provider.code
  <2>1. ASSUME NEW l
        PROVE  /\ ProviderTyped([provider EXCEPT !.good[l] = 0])
               /\ [provider EXCEPT !.good[l] = 0].of = provider.of /\ [provider EXCEPT !.good[l] = 0].home = provider.home
               /\ [provider EXCEPT !.good[l] = 0].code = provider.code
    BY <1>1, LoginEnds
  <2>. QED BY <1>1, <2>1
<1>3. World' = World
  BY <1>2 DEF World, WorldOf
<1>4. w.access # 0 => LoginOf(w) = provider.of[w.access] /\ provider.of[w.access] \in Logins
  <2>1. w.access # 0 => w.access \in 1..Len(provider.of)
    BY AroundValid DEF Numbers
  <2>2. \A a \in 1..Len(provider.of) : provider.of[a] \in Logins
    BY <1>1 DEF ProviderTyped
  <2>. QED BY <2>1, <2>2 DEF LoginOf
<1>5. out' \subseteq Logins /\ out' \subseteq out \cup {provider.of[n[1]] : n \in {m \in Around : m[1] # 0}}
  <2>1. Numbers(w)[1] = w.access
    BY DEF Numbers
  <2>. QED BY <1>1, <1>4, <2>1 DEF SignedOut
<1>6. ops' \in 0..setup.ops
  BY <1>1, ClientAssumption
<1>7. Grows(World, World')
  BY <1>3 DEF Grows
<1>. QED BY <1>1, <1>2, <1>3, <1>5, <1>6, <1>7 DEF Meanwhile

\* The page leaves to sign out, and what it held ends.
LEMMA LeaveKeeps ==
  ASSUME IInv, NEW t \in Tabs, Leave(t)
  PROVE  IInv'
<1>. DEFINE p == tab[t]
            w == p.mem
<1>1. Typed /\ Sound /\ Synced
  BY DEF IInv
<1>2. /\ Goes(t, Nothing, 0) /\ SignedOut(w) /\ UNCHANGED <<setup, late, crossed, took>> /\ ops > 0 /\ ops' = ops - 1
      /\ provider' = provider \/ (w.access # 0 /\ provider' = [provider EXCEPT !.good[LoginOf(w)] = 0])
  BY DEF Leave, Does
<1>3. w \in Token /\ GoodPage(World, p) /\ Numbers(w) \in Around
  BY <1>1, PageIs, AroundIs DEF NumbersOf
<1>. HIDE DEF w
<1>4. /\ Meanwhile /\ World' = World /\ provider'.of = provider.of /\ provider'.code = provider.code
      /\ out' \subseteq out \cup {provider.of[n[1]] : n \in {m \in Around : m[1] # 0}}
  BY <1>1, <1>2, <1>3, SignedOutWorld
<1>5. AtHome(World', 0, p.wanted)
  BY <1>1, <1>4, WorldTypes DEF AtHome
<1>. DEFINE v == Nothing
<1>6. v \in {Nothing} \cup {Handoff(l) : l \in Logins} /\ Goes(t, v, 0)
  BY <1>2
<1>. HIDE DEF v
<1>7. /\ Moves(t, p.key, v) /\ Plain(t, v, {}) /\ p.key \in Keys /\ v \in Token /\ Blank(v)
      /\ Blank(tab'[t].mem) /\ tab'[t].spent = {} /\ tab'[t].check = None /\ Awaited(tab'[t]) = 0
  BY <1>1, <1>2, <1>4, <1>5, <1>6, GoesMoves
<1>8. Unasked(t)
  BY <1>4, <1>7 DEF Unasked
<1>9. Good(World, w, p.key)
  BY <1>3 DEF GoodPage, w
<1>. QED BY <1>2, <1>3, <1>7, <1>8, <1>9, SignedOutKeeps

\* The provider revokes what the page held, and the page forgets it.
LEMMA RevokedKeeps ==
  ASSUME IInv, NEW t \in Tabs, Revoked(t)
  PROVE  IInv'
<1>. DEFINE p == tab[t]
            w == p.flow.held
            l == LoginOf(w)
            v == Nothing
            r == [p EXCEPT !.flow = None]
<1>1. Typed /\ Sound /\ Synced
  BY DEF IInv
<1>2. /\ p.at = "page" /\ p.flow # None /\ p.flow.op = "revoke" /\ SignedOut(w) /\ UNCHANGED <<setup, ops, late, crossed, took>>
      /\ Put(t, r, v) /\ provider' \in {provider} \cup {[provider EXCEPT !.good[l] = 0] : m \in {l} \ {0}}
  BY DEF Revoked, OnPage
<1>3. p \in Pages /\ GoodPage(World, p) /\ Follows(World, p) /\ p.flow \in Flows
  BY <1>1, <1>2, PageIs
<1>4. w \in Token /\ Good(World, w, p.key) /\ Numbers(w) \in Around
  <2>1. w \in Token
    BY <1>2, <1>3, FlowsAre
  <2>2. GoodFlow(World, p.flow, p.key)
    BY <1>2, <1>3 DEF GoodPage
  <2>3. Numbers(w) \in HeldBy(p.flow)
    BY <1>2 DEF HeldBy
  <2>. QED BY <1>2, <2>1, <2>2, <2>3, AroundIs DEF GoodFlow, NumbersOf
<1>5. provider' = provider \/ (w.access # 0 /\ provider' = [provider EXCEPT !.good[LoginOf(w)] = 0])
  <2>1. l # 0 => w.access # 0
    BY DEF LoginOf
  <2>. QED BY <1>2, <2>1
<1>. HIDE DEF w, l
<1>6. /\ Meanwhile /\ World' = World /\ provider'.of = provider.of /\ provider'.code = provider.code
      /\ out' \subseteq out \cup {provider.of[n[1]] : n \in {m \in Around : m[1] # 0}}
  BY <1>1, <1>2, <1>4, <1>5, SignedOutWorld
<1>7. r \in Pages /\ RestAs(p, r) /\ r.sync = p.sync /\ r.user = p.user /\ r.flow = None
  BY <1>3, FlowField
<1>. HIDE DEF r
<1>8. GoodPage(World', r) /\ Follows(World, r)
  BY <1>3, <1>6, <1>7, RestGood, RestFollows
<1>9. r.at = "page" /\ r.key = p.key /\ r.mem = p.mem /\ r.check = p.check /\ r.spent = p.spent /\ r.on = p.on
  BY <1>2, <1>7 DEF RestAs
<1>10. v \in Token /\ Blank(v) /\ Numbers(v) = <<0, 0>> /\ Good(World', v, r.key)
  <2>1. v \in Token /\ v.access = 0 /\ v.refresh = 0
    BY TokensAre
  <2>. HIDE DEF v
  <2>. QED BY <1>1, <1>6, <2>1, WorldTypes DEF Blank, Numbers, Good
<1>. HIDE DEF v
<1>11. pending[t] # {} => r.on
  BY <1>1, <1>9 DEF Synced, Listening
<1>12. late' \subseteq Issued /\ Len(provider'.of) = Len(provider.of)
  BY <1>1, <1>2, <1>6 DEF Typed
<1>13. LET q == tab'[t] IN
         /\ Moves(t, r.key, q.mem) /\ Settles([r EXCEPT !.mem = v], q) /\ q \in Pages /\ q.mem \in Token
         /\ Same(q.mem, v) /\ q.spent = r.spent /\ q.flow = r.flow /\ q.at = r.at
         /\ Awaited(q) = Awaited(r) /\ CheckNumber(q.check) \in {0, CheckNumber(r.check)}
         /\ q.check = None \/ Same(q.check.of, q.mem) \/ q.check = r.check
         /\ NumbersOf(q) \subseteq {Numbers(v)} \cup CheckedBy(r.check) \cup HeldBy(r.flow)
  BY <1>1, <1>2, <1>6, <1>7, <1>8, <1>9, <1>10, <1>11, <1>12, Putting
<1>. DEFINE q == tab'[t]
<1>14. Blank(q.mem) /\ Numbers(q.mem) = <<0, 0>>
  BY <1>10, <1>13 DEF Same, Blank, Numbers
<1>15. Plain(t, q.mem, {})
  <2>1. FlowLogin(q.flow) = 0 /\ HeldBy(r.flow) = {}
    BY <1>7, <1>13 DEF FlowLogin, HeldBy
  <2>2. CheckedBy(r.check) \subseteq Around
    BY <1>9, AroundIs DEF NumbersOf
  <2>. QED BY <1>6, <1>9, <1>10, <1>13, <1>14, <2>1, <2>2 DEF Plain
<1>16. Unasked(t)
  <2>1. Awaited(r) = 0
    BY <1>7, <1>9 DEF Awaited
  <2>. QED BY <1>6, <1>13, <2>1 DEF Unasked
<1>17. \/ q.check = None \/ Same(q.check.of, q.mem)
       \/ p.check # None /\ q.check.of = p.check.of
  BY <1>9, <1>13
<1>. QED BY <1>2, <1>4, <1>9, <1>13, <1>14, <1>15, <1>16, <1>17, SignedOutKeeps

-----------------------------------------------------------------------------
(* Sign-ins that end. *)

\* The refresh token in a check's answer is of the login of a token that is around.
LEMMA CheckNumberIs ==
  ASSUME Typed, Sound, NEW t \in Tabs, CheckNumber(tab[t].check) # 0
  PROVE  \E n \in Around : n[1] # 0 /\ provider.of[CheckNumber(tab[t].check)] = provider.of[n[1]]
<1>. DEFINE c == tab[t].check
<1>1. c # None /\ c.answer \in Token /\ CheckNumber(c) = c.answer.refresh /\ c.answer.refresh # 0
  BY DEF CheckNumber
<1>2. GoodCheck(World, c, tab[t].key) /\ World.of = provider.of
  BY <1>1, WorldTypes DEF Sound, GoodPage
<1>3. c.answer # Failed
  BY <1>1, TokensAre
<1>4. /\ provider.of[c.answer.refresh] = provider.of[c.answer.access]
      /\ provider.of[c.answer.access] = provider.of[c.of.access] /\ c.of.access # 0
  BY <1>1, <1>2, <1>3 DEF GoodCheck, Good
<1>5. Numbers(c.of) \in Around
  BY <1>1, AroundIs DEF NumbersOf, CheckedBy
<1>. QED BY <1>1, <1>4, <1>5 DEF Numbers

\* What takes the place of the token is blank, or was held before, or came for the sign-in.
LEMMA TokenPutKeeps ==
  ASSUME IInv, NEW t \in Tabs, tab[t].at = "page", NEW v \in Token, Put(t, [tab[t] EXCEPT !.flow = None], v),
         Good(World, v, tab[t].key), UNCHANGED <<setup, provider, ops, out, crossed>>,
         late \subseteq late', late' \subseteq Issued, took' = took \/ ItsOwn', took' \subseteq ({0} \cup Logins) \X Logins,
         \/ Blank(v)
         \/ v.access \in late' /\ Numbers(v) \in Around
         \/ v.access # 0 /\ FlowLogin(tab[t].flow) = provider.of[v.access]
  PROVE  IInv'
<1>. DEFINE p == tab[t]
            r == [p EXCEPT !.flow = None]
            q == tab'[t]
            k == p.key
<1>1. Typed /\ Sound /\ Synced /\ Stands /\ New /\ Sealed
  BY DEF IInv
<1>2. p \in Pages /\ GoodPage(World, p) /\ Follows(World, p)
  BY <1>1, PageIs
<1>3. /\ Meanwhile /\ World' = World /\ provider'.of = provider.of /\ provider'.code = provider.code
      /\ Len(provider'.of) = Len(provider.of) /\ World.of = provider.of
  <2>1. World' = World
    BY DEF World, WorldOf
  <2>2. Grows(World, World')
    BY <2>1 DEF Grows
  <2>3. Meanwhile
    BY <1>1, <2>2 DEF Meanwhile, Typed
  <2>. QED BY <1>1, <2>1, <2>3, WorldTypes
<1>4. r \in Pages /\ RestAs(p, r) /\ r.sync = p.sync /\ r.user = p.user /\ r.flow = None
  BY <1>2, FlowField
<1>5. Put(t, r, v)
  OBVIOUS
<1>. HIDE DEF r
<1>6. GoodPage(World', r) /\ Follows(World, r)
  BY <1>2, <1>3, <1>4, RestGood, RestFollows
<1>7. r.at = "page" /\ r.key = k /\ r.check = p.check /\ r.spent = p.spent /\ r.on = p.on
  BY <1>4 DEF RestAs
<1>8. pending[t] # {} => r.on
  BY <1>1, <1>7 DEF Synced, Listening
<1>9. Good(World', v, r.key)
  BY <1>3, <1>7
<1>10. LET q_1 == tab'[t] IN
         /\ Moves(t, r.key, q_1.mem) /\ Settles([r EXCEPT !.mem = v], q_1) /\ q_1 \in Pages /\ q_1.mem \in Token
         /\ Same(q_1.mem, v) /\ q_1.spent = r.spent /\ q_1.flow = r.flow /\ q_1.at = r.at
         /\ Awaited(q_1) = Awaited(r) /\ CheckNumber(q_1.check) \in {0, CheckNumber(r.check)}
         /\ q_1.check = None \/ Same(q_1.check.of, q_1.mem) \/ q_1.check = r.check
         /\ NumbersOf(q_1) \subseteq {Numbers(v)} \cup CheckedBy(r.check) \cup HeldBy(r.flow)
  BY <1>1, <1>3, <1>4, <1>5, <1>6, <1>7, <1>8, <1>9, Putting
<1>11. /\ Moves(t, k, q.mem) /\ Same(q.mem, v) /\ q.spent = p.spent /\ q.flow = None /\ q.at = "page" /\ q.mem \in Token
       /\ Awaited(q) = 0 /\ CheckNumber(q.check) \in {0, CheckNumber(p.check)}
       /\ q.check = None \/ Same(q.check.of, q.mem) \/ q.check = p.check
       /\ NumbersOf(q) \subseteq {Numbers(v)} \cup CheckedBy(p.check)
  BY <1>4, <1>7, <1>10 DEF Awaited, HeldBy
<1>12. Numbers(q.mem) = Numbers(v) /\ q.mem.access = v.access /\ q.mem.refresh = v.refresh
  BY <1>11 DEF Same, Numbers
<1>13. ASSUME NEW u \in Tabs, u # t
       PROVE  tab'[u].flow = tab[u].flow /\ tab'[u].check = tab[u].check /\ tab'[u].spent = tab[u].spent
  <2>1. k \in Keys /\ Spread(t, k, q.mem)
    BY <1>11 DEF Moves
  <2>. QED BY <1>1, <1>13, <2>1, SpreadOthers
<1>. HIDE DEF q
<1>14. \A u \in Tabs : tab'[u].spent = tab[u].spent /\ 0 \notin tab[u].spent
  <2>1. \A u \in Tabs : 0 \notin tab[u].spent
    BY <1>1 DEF Typed, Pages, Issued
  <2>. QED BY <1>11, <1>13, <2>1 DEF q
<1>15. ASSUME v.access # 0, FlowLogin(p.flow) = provider.of[v.access]
       PROVE  LET l == FlowLogin(p.flow) IN
              /\ l # 0 /\ l \notin out /\ \A n \in Around : n[1] # 0 => provider.of[n[1]] # l
              /\ \A u \in Tabs : /\ \A x \in tab[u].spent : provider.of[x] # l
                                 /\ u # t => FlowLogin(tab[u].flow) # l
              /\ v.refresh # 0 => provider.of[v.refresh] = l
  <2>1. v.access \in 1..Len(provider.of)
    BY <1>1, <1>3, <1>15, WorldTypes DEF Good, Token, Issued
  <2>2. provider.of[v.access] \in Logins
    BY <1>1, <2>1 DEF Typed, ProviderTyped
  <2>3. FlowLogin(p.flow) # 0
    BY <1>15, <2>2 DEF Logins
  <2>. QED BY <1>1, <1>3, <1>15, <2>3 DEF New, Good
<1>16. EndedThen(q.mem) => q.mem.access \in late' \/ crossed'
  <2>1. CASE Blank(v)
    BY <1>12, <1>14, <2>1 DEF EndedThen, EndedIn, Blank
  <2>2. CASE v.access \in late'
    BY <1>12, <2>2
  <2>3. CASE v.access # 0 /\ FlowLogin(p.flow) = provider.of[v.access]
    BY <1>12, <1>14, <1>15, <2>3 DEF EndedThen, EndedIn
  <2>. QED BY <2>1, <2>2, <2>3
<1>17. Stands'
  <2>1. \A j \in Keys \ {k} : EndedThen(stored[j]) => Ended(stored[j]) \/ crossed'
    BY <1>14 DEF EndedThen, Ended, EndedIn
  <2>2. q.mem.refresh \in q.spent => q.mem.access \in late' \/ crossed'
    BY <1>16 DEF EndedThen, EndedIn, q
  <2>3. q.check # None /\ q.check.of.refresh \in q.spent => q.check.of.access \in late' \/ crossed'
    <3>1. CASE Same(q.check.of, q.mem)
      BY <2>2, <3>1 DEF Same
    <3>2. CASE q.check = p.check
      BY <1>1, <1>11, <3>2 DEF Stands
    <3>. QED BY <1>11, <3>1, <3>2
  <2>. QED BY <1>1, <1>11, <1>16, <2>1, <2>2, <2>3, StandsOthers DEF q
<1>. DEFINE S == {Numbers(v)}
<1>18. Plain(t, q.mem, S)
  <2>1. FlowLogin(q.flow) = 0
    BY <1>11 DEF FlowLogin
  <2>2. CheckedBy(p.check) \subseteq Around
    BY AroundIs DEF NumbersOf
  <2>. QED BY <1>3, <1>11, <1>12, <2>1, <2>2 DEF Plain, q
<1>19. Clear(t, S)
  <2>1. ASSUME NEW u \in Tabs
        PROVE  /\ v.access # 0 => v.access \in 1..Len(provider.of)
                                  /\ (FlowLogin(tab'[u].flow) # 0 => provider.of[v.access] # FlowLogin(tab'[u].flow))
               /\ setup.rotates /\ CheckNumber(tab'[u].check) # 0 => v.refresh # CheckNumber(tab'[u].check)
    <3>1. v.access # 0 => v.access \in 1..Len(provider.of)
      BY <1>1, <1>3, WorldTypes DEF Good, Token, Issued
    <3>2. /\ FlowLogin(tab'[u].flow) # 0 => u # t /\ FlowLogin(tab'[u].flow) = FlowLogin(tab[u].flow)
          /\ CheckNumber(tab'[u].check) # 0 => CheckNumber(tab'[u].check) = CheckNumber(tab[u].check)
      BY <1>11, <1>13 DEF FlowLogin, q
    <3>3. CASE Blank(v)
      BY <3>3 DEF Blank
    <3>4. CASE Numbers(v) \in Around
      <4>1. FlowLogin(tab'[u].flow) # 0 /\ v.access # 0 => provider.of[v.access] # FlowLogin(tab'[u].flow)
        BY <1>1, <3>2, <3>4 DEF New, Numbers
      <4>2. setup.rotates /\ CheckNumber(tab'[u].check) # 0 => v.refresh # CheckNumber(tab'[u].check)
        BY <1>1, <3>2, <3>4 DEF Sealed, Numbers
      <4>. QED BY <3>1, <4>1, <4>2
    <3>5. CASE v.access # 0 /\ FlowLogin(p.flow) = provider.of[v.access]
      <4>1. FlowLogin(tab'[u].flow) # 0 => provider.of[v.access] # FlowLogin(tab'[u].flow)
        BY <1>15, <3>2, <3>5
      <4>2. ASSUME CheckNumber(tab'[u].check) # 0
            PROVE  v.refresh # CheckNumber(tab'[u].check)
        <5>1. \E n \in Around : n[1] # 0 /\ provider.of[CheckNumber(tab[u].check)] = provider.of[n[1]]
          BY <1>1, <3>2, <4>2, CheckNumberIs
        <5>. QED BY <1>15, <3>2, <3>5, <4>2, <5>1
      <4>. QED BY <3>1, <4>1, <4>2
    <3>. QED BY <3>3, <3>4, <3>5
  <2>. QED BY <2>1 DEF Clear, Numbers
<1>20. Unasked(t)
  BY <1>3, <1>11 DEF Unasked, q
<1>. HIDE DEF S
<1>. QED BY <1>11, <1>17, <1>18, <1>19, <1>20, PlainKeeps

\* The page receives the answer of the password it sent,
LEMMA PasswordAnsweredKeeps ==
  ASSUME IInv, NEW t \in Tabs, PasswordAnswered(t)
  PROVE  IInv'
<1>. DEFINE p == tab[t]
            f == p.flow
            v == f.answer
<1>1. Typed /\ Sound
  BY DEF IInv
<1>2. /\ p.at = "page" /\ f # None /\ f.op = "password" /\ v # None /\ Put(t, [p EXCEPT !.flow = None], v)
      /\ UNCHANGED <<setup, provider, ops, out, crossed, late, took>>
  BY DEF PasswordAnswered, OnPage
<1>3. f \in Flows /\ GoodFlow(World, f, p.key) /\ World.of = provider.of
  BY <1>1, <1>2, PageIs, WorldTypes DEF GoodPage
<1>4. v \in Token /\ Good(World, v, p.key)
  BY <1>2, <1>3, FlowsAre DEF GoodFlow
<1>5. Blank(v) \/ (v.access # 0 /\ FlowLogin(f) = provider.of[v.access])
  BY <1>2, <1>3, <1>4 DEF GoodFlow, FlowLogin, Good, Blank
<1>6. late' \subseteq Issued /\ took' \subseteq ({0} \cup Logins) \X Logins
  BY <1>1, <1>2 DEF Typed
<1>. HIDE DEF v, f
<1>. QED BY <1>2, <1>4, <1>5, <1>6, TokenPutKeeps DEF f

\* and that of its code: the callback it took is of the login it had begun, or the page is a fresh
\* one.
LEMMA CallbackAnsweredKeeps ==
  ASSUME IInv, NEW t \in Tabs, CallbackAnswered(t)
  PROVE  IInv'
<1>. DEFINE p == tab[t]
            f == p.flow
            v == Completed(f)
<1>1. Typed /\ Sound /\ ItsOwn
  BY DEF IInv
<1>2. /\ p.at = "page" /\ f # None /\ f.op = "callback" /\ f.answer # None /\ Put(t, [p EXCEPT !.flow = None], v)
      /\ UNCHANGED <<setup, provider, ops, out, crossed>>
      /\ late' = IF v = f.held THEN late \cup ({v.access} \ {0}) ELSE late
      /\ took' = IF v = f.answer /\ v # Failed THEN took \cup {<<f.held.state, f.login>>} ELSE took
  BY DEF CallbackAnswered, OnPage
<1>3. f \in Flows /\ GoodFlow(World, f, p.key) /\ World.of = provider.of /\ World.pkce = setup.pkce
  BY <1>1, <1>2, PageIs, WorldTypes DEF GoodPage
<1>4. f.held \in Token /\ f.login \in Logins /\ f.answer \in Token \cup {Lost} /\ Good(World, f.held, p.key)
  BY <1>2, <1>3, FlowsAre DEF GoodFlow
<1>5. v = Failed \/ (v = f.held /\ f.answer = Lost)
      \/ (v = f.answer /\ f.answer \in Token /\ ~f.answer.error /\ CheckNonce(f))
  BY <1>4 DEF Completed
<1>6. v \in Token /\ Good(World, v, p.key)
  <2>1. Failed \in Token /\ Good(World, Failed, p.key)
    BY <1>1, TokensAre, WorldTypes DEF Good
  <2>2. f.answer \in Token => Good(World, f.answer, p.key)
    BY <1>2, <1>3 DEF GoodFlow
  <2>. QED BY <1>4, <1>5, <2>1, <2>2
<1>7. late \subseteq late' /\ late' \subseteq Issued /\ (v = f.held => v.access = 0 \/ v.access \in late')
  BY <1>1, <1>2, <1>6 DEF Typed, Token
<1>8. \/ Blank(v)
      \/ v.access \in late' /\ Numbers(v) \in Around
      \/ v.access # 0 /\ FlowLogin(f) = provider.of[v.access]
  <2>1. v.access = 0 => Blank(v)
    BY <1>6 DEF Good, Blank
  <2>2. CASE v = Failed
    BY <2>1, <2>2, TokensAre
  <2>3. CASE v = f.held
    <3>1. Numbers(f.held) \in Around
      BY <1>2, AroundIs DEF NumbersOf, HeldBy
    <3>. QED BY <1>7, <2>1, <2>3, <3>1
  <2>4. CASE v = f.answer /\ f.answer \in Token
    BY <1>2, <1>3, <2>1, <2>4 DEF GoodFlow, FlowLogin
  <2>. QED BY <1>5, <2>2, <2>3, <2>4
<1>9. took' = took \/ ItsOwn'
  <2>1. ASSUME v = f.answer, v # Failed
        PROVE  f.held.state = f.login \/ (f.held.state = 0 /\ ~setup.pkce /\ ~setup.openid)
    <3>1. f.answer \in Token /\ ~f.answer.error /\ CheckNonce(f)
      BY <1>4, <1>5, <1>6, <2>1, NoneAssumption
    <3>2. CheckState(f.held, f.login) /\ (setup.pkce => f.held.state = f.login)
      BY <1>2, <1>3, <3>1 DEF GoodFlow
    <3>. QED BY <3>1, <3>2 DEF CheckState, CheckNonce
  <2>2. setup' = setup
    BY <1>2
  <2>. HIDE DEF f, v
  <2>3. CASE v = f.answer /\ v # Failed
    <3>1. \A a \in took' : a[1] = a[2] \/ (a[1] = 0 /\ ~setup'.pkce /\ ~setup'.openid)
      <4>1. \A a \in took : a[1] = a[2] \/ (a[1] = 0 /\ ~setup'.pkce /\ ~setup'.openid)
        BY <1>1, <2>2 DEF ItsOwn
      <4>. QED BY <1>2, <2>1, <2>2, <2>3, <4>1
    <3>. QED BY <3>1 DEF ItsOwn
  <2>4. CASE ~(v = f.answer /\ v # Failed)
    BY <1>2, <2>4
  <2>. QED BY <2>3, <2>4
<1>10. took' \subseteq ({0} \cup Logins) \X Logins
  <2>1. f.held.state \in {0} \cup Logins
    BY <1>4, TokensAre
  <2>. HIDE DEF f, v
  <2>. QED BY <1>1, <1>2, <1>4, <2>1 DEF Typed
<1>. HIDE DEF v, f
<1>. QED BY <1>2, <1>6, <1>7, <1>8, <1>9, <1>10, TokenPutKeeps DEF f

-----------------------------------------------------------------------------
(* The user who comes back, and what the provider does by itself. *)

LEMMA ReturnKeeps ==
  ASSUME IInv, NEW t \in Tabs, Return(t)
  PROVE  IInv'
<1>. DEFINE p == tab[t]
            u == p.asked
            k == p.wanted
            q == Page(k, stored[k], u)
<1>1. Typed /\ Sound /\ Synced /\ Stands /\ New /\ Sealed /\ Own /\ ItsOwn
  BY DEF IInv
<1>2. /\ p.at = "away" /\ Save(t, q, stored[q.key]) /\ UNCHANGED <<setup, ops, out, crossed, took>>
      /\ provider' = IF u = 0 THEN provider ELSE [provider EXCEPT !.code[u] = "ready"]
  BY DEF Return
<1>3. p \in Pages /\ GoodPage(World, p) /\ k \in Keys /\ u \in {0} \cup Logins /\ Awaited(p) = u
  BY <1>1, <1>2, PageIs DEF Awaited
<1>4. PICK r \in Pages : Made(r, q, k, stored[k], u)
  <2>1. stored[k] \in Token /\ setup \in Setups /\ Len(provider.of) \in Nat
    BY <1>1, <1>3, WorldTypes DEF Typed
  <2>. QED BY <1>3, <2>1, PageStarts
<1>. HIDE DEF q
<1>5. /\ ProviderTyped(provider') /\ provider'.of = provider.of /\ provider'.home = provider.home
      /\ provider'.code = IF u = 0 THEN provider.code ELSE [provider.code EXCEPT ![u] = "ready"]
  <2>1. ProviderTyped(provider)
    BY <1>1 DEF Typed
  <2>2. /\ ProviderTyped([provider EXCEPT !.code[u] = "ready"])
        /\ [provider EXCEPT !.code[u] = "ready"].of = provider.of /\ [provider EXCEPT !.code[u] = "ready"].home = provider.home
        /\ [provider EXCEPT !.code[u] = "ready"].code = [provider.code EXCEPT ![u] = "ready"]
    BY <2>1, CodeNoted
  <2>. QED BY <1>2, <2>1, <2>2
<1>6. Meanwhile /\ World' = World
  BY <1>1, <1>2, <1>5, StillIssued
<1>7. GoodPage(World', r)
  <2>1. Good(World, stored[k], k) /\ AtHome(World, 0, k) /\ AtHome(World, u, k)
    BY <1>1, <1>3, WorldTypes DEF Sound, AtHome, GoodPage
  <2>. QED BY <1>4, <1>6, <2>1 DEF GoodPage, Made
<1>8. Carries(p, r)
  BY <1>4 DEF Made, Carries, CheckNumber, FlowLogin, Awaited, HeldBy
<1>9. q.key = r.key /\ Awaited(q) = 0 /\ q \in Pages
  BY <1>4, SettledCarries DEF Made, Awaited
<1>10. PICK j \in Keys, v \in Token : Moves(t, j, v) /\ Quiet(t, v) /\ Plain(t, v, {})
  BY <1>1, <1>2, <1>4, <1>5, <1>6, <1>7, <1>8, <1>9, Loaded DEF Made
<1>11. Awaited(tab'[t]) = 0
  <2>1. stored[k] \in Token
    BY <1>1, <1>3 DEF Typed
  <2>2. stored[q.key] \in Token
    BY <1>4, <1>9, <2>1 DEF Made
  <2>3. tab'[t] = q
    BY <1>1, <1>2, <1>9, <2>2, SaveSpreads
  <2>. QED BY <1>9, <2>3
<1>12. Typed' /\ Sound' /\ Synced'
  BY <1>1, <1>10, MovesTyped, MovesSound, MovesSynced
<1>13. Stands'
  BY <1>1, <1>10, QuietStands
<1>14. New' /\ Sealed'
  <2>1. Clear(t, {})
    BY DEF Clear
  <2>. QED BY <1>1, <1>10, <2>1, PlainFresh
<1>15. Own'
  <2>1. IssuedLogins' = IssuedLogins /\ out' = out
    BY <1>2, <1>5 DEF IssuedLogins
  <2>2. \A w \in Tabs : Awaited(tab[w])' = Awaited(tab'[w])
    BY DEF Awaited
  <2>3. \A w \in Tabs \ {t} : Awaited(tab'[w]) = Awaited(tab[w])
    <3>1. Spread(t, j, v)
      BY <1>10 DEF Moves
    <3>. QED BY <1>1, <3>1, SpreadOthers DEF Awaited
  <2>4. provider.code \in Seq({"none", "ready", "used"})
    BY <1>1 DEF Typed, ProviderTyped
  <2>5. u # 0 => u \in 1..Len(provider.code) /\ u \notin IssuedLogins
    BY <1>1, <1>3, AwaitedIs DEF Own
  <2>6. Len(provider'.code) = Len(provider.code) /\ \A l \in 1..Len(provider.code) :
          provider'.code[l] = IF l = u THEN "ready" ELSE provider.code[l]
    BY <1>5, <2>4, <2>5
  <2>7. \A l \in 1..Len(provider'.code) : provider'.code[l] = "ready" => l \notin IssuedLogins'
    BY <1>1, <2>1, <2>5, <2>6 DEF Own
  <2>8. ASSUME NEW w \in Tabs, Awaited(tab'[w]) # 0
        PROVE  /\ Awaited(tab'[w]) \notin IssuedLogins' /\ provider'.code[Awaited(tab'[w])] = "none"
               /\ \A x \in Tabs \ {w} : Awaited(tab'[x]) # Awaited(tab'[w])
    <3>1. w # t /\ Awaited(tab'[w]) = Awaited(tab[w]) /\ Awaited(tab[w]) \in 1..Len(provider.code)
      BY <1>1, <1>11, <2>3, <2>8, AwaitedIs
    <3>2. /\ Awaited(tab[w]) \notin IssuedLogins /\ provider.code[Awaited(tab[w])] = "none"
          /\ \A x \in Tabs \ {w} : Awaited(tab[x]) # Awaited(tab[w])
      BY <1>1, <2>8, <3>1 DEF Own
    <3>3. Awaited(tab[w]) # u
      BY <1>3, <3>1, <3>2
    <3>4. \A x \in Tabs \ {w} : Awaited(tab'[x]) # Awaited(tab[w])
      BY <1>11, <2>3, <2>8, <3>1, <3>2
    <3>. QED BY <2>1, <2>6, <3>1, <3>2, <3>3, <3>4
  <2>. QED BY <1>1, <2>1, <2>2, <2>7, <2>8 DEF Own
<1>16. ItsOwn'
  BY <1>1, <1>2 DEF ItsOwn
<1>. QED BY <1>12, <1>13, <1>14, <1>15, <1>16 DEF IInv

\* Pages and storage stay, and what was issued.
LEMMA AsideKeeps ==
  ASSUME IInv, UNCHANGED <<setup, stored, tab, pending, out, late, crossed, took>>, ops' \in 0..setup.ops,
         ProviderTyped(provider'), provider'.of = provider.of, provider'.home = provider.home,
         provider'.code = provider.code
  PROVE  IInv'
<1>1. World' = World
  BY DEF World, WorldOf
<1>2. Typed'
  BY DEF IInv, Typed
<1>3. Sound' /\ Synced'
  BY <1>1 DEF IInv, Sound, Synced, Listening
<1>4. Stands'
  BY DEF IInv, Stands, Ended, EndedIn
<1>5. Around' = Around
  BY DEF Around
<1>6. New' /\ Sealed'
  BY <1>5 DEF IInv, New, Sealed
<1>7. Own'
  BY DEF IInv, Own, IssuedLogins
<1>8. ItsOwn'
  BY DEF IInv, ItsOwn
<1>. QED BY <1>2, <1>3, <1>4, <1>6, <1>7, <1>8 DEF IInv

\* An access token lapses.
LEMMA LapseKeeps ==
  ASSUME IInv, NEW a \in Issued, Lapse(a)
  PROVE  IInv'
<1>1. /\ provider' = [provider EXCEPT !.lapsed = @ \cup {a}] /\ ops > 0 /\ ops' = ops - 1
      /\ UNCHANGED <<setup, stored, tab, pending, out, late, crossed, took>>
  BY DEF Lapse, Does, ghosts
<1>2. ProviderTyped(provider) /\ ops \in 0..setup.ops /\ setup \in Setups
  BY DEF IInv, Typed
<1>3. ProviderTyped(provider') /\ provider'.of = provider.of /\ provider'.home = provider.home /\ provider'.code = provider.code
  BY <1>1, <1>2, LapseNoted
<1>4. ops' \in 0..setup.ops
  BY <1>1, <1>2, ClientAssumption
<1>. QED BY <1>1, <1>3, <1>4, AsideKeeps

-----------------------------------------------------------------------------
(* The initial states. *)

LEMMA SyncWatched ==
  ASSUME setup \in Setups, NEW p \in Pages
  PROVE  Sync(p).watched = p.watched
<1>. DEFINE id == IdOf(p.mem)
            asks == IsAuthorized(p.mem) /\ setup.userPath
<1>1. /\ [p EXCEPT !.user = 0, !.sync = None].watched = p.watched
      /\ [p EXCEPT !.sync = [pc |-> "claims", id |-> id, access |-> 0]].watched = p.watched
  BY DEF Pages
<1>2. AskUserInfo(p, 0).watched = p.watched
  BY AskIs
<1>3. \/ Sync(p) = [p EXCEPT !.user = 0, !.sync = None]
      \/ Sync(p) = [p EXCEPT !.sync = [pc |-> "claims", id |-> id, access |-> 0]]
      \/ Sync(p) = AskUserInfo(p, 0)
  BY DEF Sync
<1>. QED BY <1>1, <1>2, <1>3

\* The page of a user who is signed in, with a token whose expiry is worked out.
LEMMA SignedInPage ==
  ASSUME setup \in Setups, Len(provider.of) \in Nat, NEW k \in Keys, NEW v \in Token,
         v.expires, ~v.error, v.access # 0, v.access \notin provider.lapsed
  PROVE  Page(k, v, 0).watched = <<IdOf(v), TRUE>>
<1>. DEFINE a == [at |-> "page", asked |-> 0, url |-> 0, done |-> {}, key |-> k, wanted |-> k, mem |-> v,
                  on |-> FALSE, check |-> None, flow |-> None, user |-> 0, sync |-> None,
                  watched |-> <<>>, missed |-> FALSE, spent |-> {}]
            b == [a EXCEPT !.on = TRUE]
            r == TokenStart(a)
            seen == <<IdOf(r.mem), IsAuthorized(r.mem)>>
            w == [r EXCEPT !.watched = seen]
<1>1. Page(k, v, 0) = UserStart(r)
  BY DEF Page
<1>2. a \in Pages
  BY DEF Pages, Watched
<1>3. b \in Pages /\ b.mem = v /\ b.check = None
  BY <1>2, PageFields
<1>4. r = CheckToken(b)
  BY DEF TokenStart
<1>5. UserStart(r) = Sync(w)
  BY DEF UserStart
<1>. HIDE DEF a, b
<1>6. ~IsExpiredToken(v) /\ IsAuthorized(v) = TRUE
  BY DEF IsExpiredToken, IsAuthorized
<1>7. r = [b EXCEPT !.mem.expires = TRUE]
  BY <1>3, <1>4, <1>6 DEF CheckToken
<1>8. [v EXCEPT !.expires = TRUE] = v
  BY DEF Token
<1>9. r \in Pages /\ r.mem = v
  <2>1. [b EXCEPT !.mem.expires = TRUE] = [b EXCEPT !.mem = [v EXCEPT !.expires = TRUE]]
    BY <1>3 DEF Pages
  <2>2. [b EXCEPT !.mem = v] \in Pages /\ [b EXCEPT !.mem = v].mem = v
    BY <1>3, PageFields, TokenFields
  <2>. QED BY <1>7, <1>8, <2>1, <2>2
<1>. HIDE DEF r
<1>10. seen = <<IdOf(v), TRUE>> /\ seen \in Watched
  BY <1>6, <1>9, DerivedAre DEF Watched
<1>. HIDE DEF seen
<1>11. w \in Pages /\ w.watched = seen
  <2>1. w \in Pages
    BY <1>9, <1>10, PageFields
  <2>2. w.watched = seen
    BY <1>9 DEF Pages
  <2>. QED BY <2>1, <2>2
<1>. HIDE DEF w
<1>. QED BY <1>1, <1>5, <1>10, <1>11, SyncWatched

\* A pair of a value and a boolean.
LEMMA PairIs ==
  ASSUME NEW a, NEW b \in BOOLEAN
  PROVE  <<a, b>> \in {a} \X BOOLEAN /\ <<a, b>>[2] = b
OBVIOUS

\* What a page has that has nothing under way.
Idle(p) ==
  /\ p \in Pages /\ GoodPage(World, p) /\ Follows(World, p) /\ Awaited(p) = 0 /\ p.spent = {}
  /\ FlowLogin(p.flow) = 0 /\ CheckNumber(p.check) = 0
  /\ p.at = "page" => p.mem = stored[p.key]

\* A page of an initial state has nothing under way.
LEMMA InitIdle ==
  ASSUME Init, NEW t \in Tabs
  PROVE  Idle(tab[t])
<1>. DEFINE k == setup.first
            v == stored[k]
<1>1. setup \in Setups /\ k \in Keys /\ 1 \in Issued /\ 1 \in Logins
  <2>1. setup \in Setups
    BY DEF Init
  <2>2. 1 \in Issued /\ 1 \in Logins
    BY ClientAssumption DEF Issued, Logins
  <2>. QED BY <2>1, <2>2, ClientAssumption
<1>2. v = [Answer(1, 1) EXCEPT !.expires = TRUE] /\ provider.of = <<1>> /\ provider.home = <<k>> /\ provider.lapsed = {}
  BY <1>1 DEF Init
<1>3. v \in Token /\ v.access = 1 /\ v.refresh = 1 /\ v.expires = TRUE /\ v.expires /\ ~v.error
  BY <1>1, <1>2 DEF Answer, Nothing, Token
<1>4. Len(provider.of) = 1 /\ provider.of[1] = 1
  BY <1>2
<1>5. /\ WorldTyped(World) /\ World.of = <<1>> /\ World.home = <<k>> /\ World.openid = setup.openid /\ World.rotates = setup.rotates
      /\ Len(World.of) = 1 /\ World.of[1] = 1 /\ Len(World.home) = 1 /\ World.home[1] = k
  <2>1. crossed = FALSE
    BY DEF Init
  <2>2. World.of = <<1>> /\ World.home = <<k>> /\ World.crossed = FALSE
        /\ World.openid = setup.openid /\ World.rotates = setup.rotates
    BY <1>2, <2>1 DEF World, WorldOf
  <2>3. <<1>> \in Seq(Logins) /\ <<k>> \in Seq(Keys) /\ Len(<<1>>) = 1 /\ Len(<<k>>) = 1 /\ 1 <= MaxIssued
    BY <1>1, ClientAssumption
  <2>. HIDE DEF k
  <2>4. Len(World.of) = 1 /\ World.of[1] = 1 /\ Len(World.home) = 1 /\ World.home[1] = k
    BY <2>2
  <2>5. \A a \in 1..1 : World.of[a] <= 1
    BY <2>4
  <2>6. WorldTyped(World)
    BY <2>2, <2>3, <2>4, <2>5 DEF WorldTyped
  <2>. QED BY <2>2, <2>4, <2>6
<1>6. Good(World, v, k) /\ AtHome(World, 0, k)
  BY <1>3, <1>5 DEF Good, AtHome
<1>7. CASE t \in setup.tabs
  <2>. DEFINE q == Page(k, v, 0)
              s == [q EXCEPT !.user = 1]
              x == [s EXCEPT !.sync = None]
  <2>1. PICK r \in Pages : Made(r, q, k, v, 0)
    BY <1>1, <1>3, <1>4, PageStarts
  <2>2. tab[t] = x
    BY <1>7 DEF Init
  <2>. HIDE DEF v, k
  <2>3. q.watched = <<IdOf(v), TRUE>>
    <3>1. v.access \notin provider.lapsed
      BY <1>2
    <3>2. v.access # 0 /\ Len(provider.of) \in Nat
      BY <1>3, <1>4
    <3>. QED BY <1>1, <1>3, <3>1, <3>2, SignedInPage
  <2>. HIDE DEF q
  <2>4. q \in Pages /\ Alike(q.mem, v) /\ q.at = "page" /\ q.key = k /\ q.wanted = k /\ q.on /\ q.spent = {} /\ q.flow = None /\ Awaited(q) = 0
        /\ CheckNumber(q.check) = 0
    <3>1. CheckNumber(r.check) = 0 /\ Awaited(r) = 0
      BY <2>1 DEF Made, CheckNumber, Awaited
    <3>. QED BY <2>1, <3>1, SettledCarries DEF Made, Settles, Keeps
  <2>5. q.mem = v
    <3>1. [v EXCEPT !.expires = TRUE] = v
      BY <1>3 DEF Token
    <3>. QED BY <2>4, <3>1 DEF Alike
  <2>6. GoodPage(World, q)
    <3>1. GoodPage(World, r) /\ r.mem = v
      BY <1>5, <1>6, <2>1 DEF GoodPage, Made
    <3>2. r.mem.access <= Len(provider.of) /\ Len(provider.of) <= Len(World.of) /\ Len(provider.of) \in Nat
      BY <1>3, <1>4, <1>5, <3>1
    <3>3. Settles(r, q)
      BY <2>1 DEF Made
    <3>. QED BY <1>5, <3>1, <3>2, <3>3, GoodSettles
  <2>7. s \in Pages /\ RestAs(q, s) /\ s.flow = q.flow /\ s.sync = q.sync /\ s.user = 1
    BY <1>1, <2>4, UserField
  <2>. HIDE DEF s
  <2>8. x \in Pages /\ RestAs(s, x) /\ x.flow = s.flow /\ x.user = s.user /\ x.sync = None
    BY <2>7, SyncField
  <2>. HIDE DEF x
  <2>9. RestAs(q, x) /\ x.flow = None /\ x.sync = None /\ x.user = 1
    BY <2>4, <2>7, <2>8, RestTwice
  <2>10. GoodPage(World, x)
    BY <2>6, <2>9, RestGood
  <2>11. x.watched = <<IdOf(v), TRUE>> /\ x.mem = v /\ x.at = "page" /\ x.spent = {} /\ x.check = q.check /\ x.key = k
    BY <2>3, <2>4, <2>5, <2>9 DEF RestAs
  <2>12. Follows(World, x)
    <3>1. IdOf(v) = IF World.openid THEN v.access ELSE 0
      BY <1>5 DEF IdOf
    <3>. DEFINE id == IdOf(v)
    <3>2. x.watched = <<id, TRUE>>
      BY <2>11
    <3>3. id = IF World.openid THEN v.access ELSE 0
      BY <3>1
    <3>. HIDE DEF id
    <3>4. x.watched \in {id} \X BOOLEAN /\ x.watched[2] = TRUE
      BY <3>2, PairIs
    <3>. QED BY <1>3, <1>5, <2>9, <2>11, <3>3, <3>4 DEF Follows
  <2>13. Awaited(x) = 0 /\ FlowLogin(x.flow) = 0 /\ CheckNumber(x.check) = 0
    BY <2>4, <2>9, <2>11 DEF Awaited, FlowLogin
  <2>. QED BY <2>2, <2>8, <2>10, <2>11, <2>12, <2>13 DEF Idle, v, k
<1>8. CASE t \notin setup.tabs
  <2>. DEFINE q == Page(k, Nothing, 0)
              x == Away(q, 0)
  <2>1. PICK r \in Pages : Made(r, q, k, Nothing, 0)
    BY <1>1, <1>4, TokensAre, PageStarts
  <2>2. tab[t] = x
    BY <1>8 DEF Init
  <2>. HIDE DEF q
  <2>3. q \in Pages /\ q.key = k /\ q.wanted = k
    BY <2>1, SettledCarries DEF Made, Settles, Keeps
  <2>4. /\ x \in Pages /\ x.at = "away" /\ x.asked = 0 /\ x.url = 0 /\ x.key = k /\ x.wanted = k
        /\ x.mem = Nothing /\ x.spent = {} /\ x.check = None /\ x.flow = None /\ x.sync = None
    BY <2>3, AwayIs
  <2>. HIDE DEF x
  <2>5. GoodPage(World, x) /\ Follows(World, x)
    BY <1>5, <1>6, <2>4, TokensAre DEF GoodPage, Good, Follows
  <2>6. Awaited(x) = 0 /\ FlowLogin(x.flow) = 0 /\ CheckNumber(x.check) = 0
    BY <2>4 DEF Awaited, FlowLogin, CheckNumber
  <2>. QED BY <2>2, <2>4, <2>5, <2>6 DEF Idle
<1>. QED BY <1>7, <1>8

\* An initial state has the invariant.
LEMMA InitIInv ==
  ASSUME Init
  PROVE  IInv
<1>1. \A t \in Tabs : Idle(tab[t])
  BY InitIdle
<1>2. setup \in Setups /\ setup.first \in Keys /\ setup.ops \in Nat /\ 1 \in Issued /\ 1 \in Logins
  <2>1. setup \in Setups
    BY DEF Init
  <2>2. 1 \in Issued /\ 1 \in Logins
    BY ClientAssumption DEF Issued, Logins
  <2>. QED BY <2>1, <2>2, ClientAssumption
<1>. DEFINE w == [Answer(1, 1) EXCEPT !.expires = TRUE]
<1>3. w \in Token /\ w.access = 1 /\ w.refresh = 1
  BY <1>2 DEF Answer, Nothing, Token
<1>4. stored = [k \in Keys |-> IF k # setup.first THEN Nothing ELSE w]
  BY DEF Init
<1>. HIDE DEF w
<1>5. stored \in [Keys -> Token]
  BY <1>3, <1>4, TokensAre
<1>6. ProviderTyped(provider) /\ provider.of = <<1>> /\ provider.code = <<"none">> /\ provider.home = <<setup.first>>
  <2>1. /\ <<1>> \in Seq(Logins) /\ <<1>> \in Seq({0} \cup Issued) /\ <<"none">> \in Seq({"none", "ready", "used"})
        /\ <<setup.first>> \in Seq(Keys) /\ 1 <= MaxIssued /\ 1 <= MaxLogins
    BY <1>2, ClientAssumption
  <2>2. provider = [of |-> <<1>>, lapsed |-> {}, good |-> <<1>>, code |-> <<"none">>, home |-> <<setup.first>>]
    BY DEF Init
  <2>. QED BY <2>1, <2>2 DEF ProviderTyped
<1>7. tab \in [Tabs -> Pages] /\ pending = [t \in Tabs |-> {}] /\ ops = setup.ops /\ out = {} /\ late = {}
      /\ crossed = FALSE /\ took = {}
  BY <1>1 DEF Init, Idle
<1>8. Typed
  <2>1. ops \in 0..setup.ops
    BY <1>2, <1>7
  <2>2. pending \in [Tabs -> SUBSET Keys]
    BY <1>7
  <2>. QED BY <1>2, <1>5, <1>6, <1>7, <2>1, <2>2 DEF Typed
<1>9. Sound
  <2>1. World.of = <<1>> /\ World.home = <<setup.first>>
    BY <1>6 DEF World, WorldOf
  <2>2. Len(World.of) = 1 /\ World.of[1] = 1 /\ Len(World.home) = 1 /\ World.home[1] = setup.first
    BY <2>1
  <2>3. \A k \in Keys : Good(World, stored[k], k)
    BY <1>3, <1>4, <2>2, TokensAre DEF Good, AtHome
  <2>. QED BY <1>1, <2>3 DEF Sound, Idle
<1>10. Synced
  BY <1>1, <1>7 DEF Synced, Idle
<1>11. Stands
  BY <1>1, <1>7 DEF Stands, Ended, EndedIn, Idle
<1>12. New /\ Sealed
  BY <1>1 DEF New, Sealed, Idle
<1>13. Own
  <2>1. \A l \in 1..Len(provider.code) : provider.code[l] = "none"
    BY <1>6
  <2>. QED BY <1>1, <1>7, <2>1 DEF Own, Idle
<1>14. ItsOwn
  BY <1>7 DEF ItsOwn
<1>. QED BY <1>8, <1>9, <1>10, <1>11, <1>12, <1>13, <1>14 DEF IInv

-----------------------------------------------------------------------------
(* Every step keeps the invariant. *)

LEMMA TabStepKeeps ==
  ASSUME IInv, NEW t \in Tabs, TabStep(t)
  PROVE  IInv'
<1>1. Typed /\ Sound /\ Synced
  BY DEF IInv
<1>2. CASE Refresh(t)
  BY <1>2, RefreshKeeps
<1>3. CASE ReceiveCheck(t)
  BY <1>3, ReceiveCheckKeeps
<1>4. CASE \E k \in Keys : Deliver(t, k) \/ SetStorageKey(t, k)
  BY <1>1, <1>4, DeliverOrdinary, SetStorageKeyOrdinary, OrdinaryKeeps
<1>5. CASE Dispose(t) \/ Restart(t)
  BY <1>1, <1>5, DisposeOrdinary, RestartOrdinary, OrdinaryKeeps
<1>6. CASE ReadClaims(t) \/ UserInfo(t) \/ Call(t) \/ CallAnswered(t)
  BY <1>1, <1>6, ReadClaimsOrdinary, UserInfoOrdinary, CallOrdinary, CallAnsweredOrdinary, OrdinaryKeeps
<1>7. CASE Password(t) \/ PasswordHandled(t) \/ PasswordAnswered(t)
  BY <1>7, PasswordKeeps, PasswordHandledKeeps, PasswordAnsweredKeeps
<1>8. CASE Redirect(t) \/ Return(t)
  BY <1>8, RedirectKeeps, ReturnKeeps
<1>9. CASE Reload(t) \/ OauthCallback(t) \/ Revoke(t)
  BY <1>1, <1>9, ReloadOrdinary, OauthCallbackOrdinary, RevokeOrdinary, OrdinaryKeeps
<1>10. CASE CodeHandled(t) \/ CallbackAnswered(t)
  BY <1>10, CodeHandledKeeps, CallbackAnsweredKeeps
<1>11. CASE Leave(t) \/ Revoked(t)
  BY <1>11, LeaveKeeps, RevokedKeeps
<1>. QED BY <1>2, <1>3, <1>4, <1>5, <1>6, <1>7, <1>8, <1>9, <1>10, <1>11 DEF TabStep

\* In every reachable state, whatever the tabs, the provider and the network do and in whatever
\* order: types; what is held was issued, to a login at its tenant; a page that listens has what is
\* stored; what was signed out of, or spent, is held only where something in flight, or a page that
\* had not heard, has put it; answers on their way are nowhere else; and callbacks end with their
\* own login.
THEOREM Invariance == Spec => []IInv
<1>1. Init => IInv
  BY InitIInv
<1>2. IInv /\ [Next]_vars => IInv'
  <2>. SUFFICES ASSUME IInv, [Next]_vars
                PROVE  IInv'
    OBVIOUS
  <2>1. ASSUME NEW t \in setup.tabs, TabStep(t)
        PROVE  IInv'
    <3>1. setup \in Setups
      BY DEF IInv, Typed
    <3>2. t \in Tabs
      BY <2>1, <3>1, ClientAssumption
    <3>. QED BY <2>1, <3>2, TabStepKeeps
  <2>2. ASSUME NEW a \in Issued, Lapse(a)
        PROVE  IInv'
    BY <2>2, LapseKeeps
  <2>3. CASE UNCHANGED vars
    <3>1. UNCHANGED <<setup, stored, tab, pending, provider, ops, out, late, crossed, took>>
      BY <2>3 DEF vars
    <3>2. ops' \in 0..setup.ops /\ ProviderTyped(provider') /\ provider'.of = provider.of
          /\ provider'.home = provider.home /\ provider'.code = provider.code
      BY <3>1 DEF IInv, Typed
    <3>. QED BY <3>1, <3>2, AsideKeeps
  <2>. QED BY <2>1, <2>2, <2>3 DEF Next
<1>. QED BY <1>1, <1>2, PTL DEF Spec

-----------------------------------------------------------------------------
(* What the invariant gives. *)

LEMMA TabsAre ==
  ASSUME IInv, NEW t \in setup.tabs
  PROVE  t \in Tabs /\ Typed /\ Sound /\ Synced /\ Stands
<1>1. setup \in Setups
  BY DEF IInv, Typed
<1>. QED BY <1>1, ClientAssumption DEF IInv

\* The login of a token that may be held.
LEMMA LoginOfIs ==
  ASSUME Typed, NEW w \in Token, NEW k, Good(World, w, k), w.access # 0
  PROVE  LoginOf(w) = provider.of[w.access] /\ LoginOf(w) \in Logins /\ AtHome(World, LoginOf(w), k)
<1>1. w.access \in 1..Len(provider.of)
  BY WorldTypes DEF Good, Token, Issued
<1>2. provider.of[w.access] \in Logins
  BY <1>1 DEF Typed, ProviderTyped
<1>. QED BY <1>2, WorldTypes DEF LoginOf, Good

\* Every variable has its type.
THEOREM TypeCorrect == Spec => []TypeOK
<1>1. IInv => TypeOK
  <2>. SUFFICES ASSUME IInv
                PROVE  TypeOK
    OBVIOUS
  <2>1. Typed /\ Sound
    BY DEF IInv
  <2>2. ASSUME NEW t \in Tabs
        PROVE  /\ tab[t].at \in {"page", "away"} /\ tab[t].mem \in Token /\ tab[t].key \in Keys
               /\ tab[t].user \in {0} \cup Logins
               /\ tab[t].check # None => tab[t].check.of.refresh # 0
    <3>1. tab[t] \in Pages /\ GoodPage(World, tab[t])
      BY <2>1, PageIs
    <3>. QED BY <3>1 DEF Pages, GoodPage, GoodCheck
  <2>. QED BY <2>1, <2>2 DEF TypeOK, Typed
<1>. QED BY <1>1, Invariance, PTL

\* A page that listens, and is owed no event, has in memory what is stored under the key it is
\* configured for (storage.ts:44-58, token.ts:121-134), and what is stored under a tenant's key is of a
\* login at that tenant, unless something was under way as the key was switched.
THEOREM PagesHoldTheirKey == Spec => []HoldsItsKey
<1>1. IInv => HoldsItsKey
  <2>. SUFFICES ASSUME IInv
                PROVE  HoldsItsKey
    OBVIOUS
  <2>1. ASSUME NEW t \in setup.tabs, Listening(t), tab[t].key \notin pending[t], ~tab[t].missed
        PROVE  tab[t].key = tab[t].wanted /\ tab[t].mem = stored[tab[t].key]
    <3>1. t \in Tabs /\ Typed /\ Sound /\ Synced
      BY TabsAre
    <3>2. GoodPage(World, tab[t])
      BY <3>1, PageIs
    <3>. QED BY <2>1, <3>1, <3>2 DEF Listening, Synced, GoodPage
  <2>2. ASSUME NEW k \in Keys, stored[k].access # 0
        PROVE  crossed \/ provider.home[LoginOf(stored[k])] = k
    <3>1. Typed /\ stored[k] \in Token /\ Good(World, stored[k], k)
      BY DEF IInv, Typed, Sound
    <3>2. LoginOf(stored[k]) \in Logins /\ AtHome(World, LoginOf(stored[k]), k)
      BY <2>2, <3>1, LoginOfIs
    <3>. QED BY <3>1, <3>2, WorldTypes DEF AtHome, Logins
  <2>. QED BY <2>1, <2>2 DEF HoldsItsKey
<1>. QED BY <1>1, Invariance, PTL

\* Once the user has signed out of a login, in any tab, a page is authorized by it only if it has yet to
\* hear of that, or did not listen; or if a refresh was in flight as they did, or a tab that had not
\* heard wrote it again (flows.ts:58-81).
THEOREM SignedOutStaysOut == Spec => []SignedOutStays
<1>1. IInv => SignedOutStays
  <2>. SUFFICES ASSUME IInv, NEW t \in setup.tabs, OnPage(t), IsAuthorized(tab[t].mem), LoginOf(tab[t].mem) \in out,
                       ~(tab[t].key \in pending[t] \/ tab[t].missed)
                PROVE  tab[t].mem.access \in late \/ crossed
    BY DEF SignedOutStays
  <2>1. t \in Tabs /\ Typed /\ Sound /\ Synced /\ Stands
    BY TabsAre
  <2>2. tab[t].mem = stored[tab[t].key] /\ tab[t].key \in Keys
    BY <2>1, PageIs DEF OnPage, Synced
  <2>3. tab[t].mem.access # 0 /\ LoginOf(tab[t].mem) = provider.of[tab[t].mem.access]
    BY AuthorizedIs DEF LoginOf
  <2>4. Ended(stored[tab[t].key])
    BY <2>2, <2>3 DEF Ended, EndedIn
  <2>. QED BY <2>1, <2>2, <2>4 DEF Stands
<1>. QED BY <1>1, Invariance, PTL

\* A rotated refresh token that was answered is not presented again by the page that presented it
\* (token.ts:81-106), unless a code exchange that was lost put back the token it had begun with.
THEOREM PresentsOnce == Spec => []PresentedOnce
<1>1. IInv => PresentedOnce
  BY TabsAre DEF PresentedOnce, Stands
<1>. QED BY <1>1, Invariance, PTL

\* The profile is of the login whose token the page holds, or a new one is on its way (user.ts:30-50).
THEOREM ProfileStaysCurrent == Spec => []ProfileIsCurrent
<1>1. IInv => ProfileIsCurrent
  <2>. SUFFICES ASSUME IInv, NEW t \in setup.tabs, Listening(t), tab[t].user # 0, tab[t].sync = None
                PROVE  tab[t].mem.access # 0 /\ (setup.openid => tab[t].user = LoginOf(tab[t].mem))
    BY DEF ProfileIsCurrent
  <2>1. t \in Tabs /\ Typed /\ Sound
    BY TabsAre
  <2>2. Follows(World, tab[t]) /\ World.of = provider.of /\ World.openid = setup.openid
    BY <2>1, PageIs, WorldTypes
  <2>3. tab[t].mem.access # 0
    BY <2>2 DEF Listening, Follows
  <2>4. setup.openid => tab[t].user = provider.of[tab[t].mem.access]
    BY <2>2 DEF Listening, Follows
  <2>. QED BY <2>3, <2>4 DEF LoginOf
<1>. QED BY <1>1, Invariance, PTL

\* A callback ends with the tokens of the attempt whose handoff the page held as it began; of another's
\* only where no state was held, there is no verifier, and no nonce is asked for (flow.ts:32-38, :61-68).
THEOREM CallbacksEndWithTheirOwn == Spec => []ItsOwn
<1>1. IInv => ItsOwn
  BY DEF IInv
<1>. QED BY <1>1, Invariance, PTL

-----------------------------------------------------------------------------
(* The bindings: what a page draws, its form, and the renders of a server. *)

\* The page's two listeners, and a submission of its form.
Watchers == {"drawn", "check"}
Submissions == [at : {"new", "sent", "answered", "done"}, shown : BOOLEAN]

\* Who listens: nobody twice, and what is drawn is what the drawing one last selected.
Subscribed ==
  /\ listeners \in Seq(Watchers) /\ cascade \in Seq(Seq(Watchers))
  /\ last = [drawn |-> last["drawn"], check |-> last["check"]]
  /\ \A i, j \in DOMAIN listeners : listeners[i] = "drawn" /\ listeners[j] = "drawn" => i = j
  /\ Listens("drawn") => drawn = last["drawn"]

\* What is drawn is what is held, or a write under way has yet to call who draws it.
Owed(writes) == \E i \in 1..Len(writes) : Contains(writes[i], "drawn")
Told == Listens("drawn") => drawn = held \/ Owed(cascade)

\* A form that says it is submitting has an attempt on its way that will free it.
Submitting ==
  /\ form = [name |-> form.name, secret |-> form.secret, submitted |-> form.submitted,
             submitting |-> form.submitting, dismissed |-> form.dismissed]
  /\ form.submitting \in BOOLEAN
  /\ attempt \in [Attempts -> Submissions]
  /\ form.submitting /\ Listens("drawn") =>
       \E a \in Attempts : attempt[a].at \in {"sent", "answered"} /\ attempt[a].shown

\* A server render; and one at most runs, and the context is its own or nobody's.
Rendering == [at : {"new", "rendering", "waiting", "looking", "failed", "disposed"}, got : SUBSET Renders,
              issuer : Issuers, endpoints : Issuers \cup {Undefined}, fetch : Nat]

Requests ==
  /\ cache \in [Issuers -> Nat] /\ fetches \in Seq(Issuers \cup {"pending", "failed"})
  /\ render \in [Renders -> Rendering]
  /\ \A r, o \in Renders : Running(r) /\ Running(o) => r = o
  /\ context # Undefined => context \in Renders /\ Running(context)

\* The bindings' invariant.
ViewInv == Subscribed /\ Told /\ Submitting /\ Requests /\ OwnInstance

-----------------------------------------------------------------------------
\* A new write has yet to call every listener.
LEMMA Pushes ==
  ASSUME NEW s \in Seq(Watchers), NEW rest \in Seq(Seq(Watchers))
  PROVE  /\ <<s>> \o rest \in Seq(Seq(Watchers))
         /\ Contains(s, "drawn") => Owed(<<s>> \o rest)
         /\ Owed(rest) => Owed(<<s>> \o rest)
<1>. DEFINE w == <<s>> \o rest
<1>1. w \in Seq(Seq(Watchers)) /\ Len(w) = 1 + Len(rest) /\ w[1] = s
      /\ \A i \in 1..Len(rest) : w[i + 1] = rest[i]
  OBVIOUS
<1>2. ASSUME NEW i \in 1..Len(rest), Contains(rest[i], "drawn") PROVE Owed(w)
  <2>1. i + 1 \in 1..Len(w) /\ w[i + 1] = rest[i]
    BY <1>1
  <2>. QED BY <2>1, <1>2 DEF Owed
<1>. QED BY <1>1, <1>2 DEF Owed

\* The innermost write has called its first listener.
LEMMA Calls ==
  ASSUME Subscribed, ~Settled, Head(cascade) # <<>>
  PROVE  /\ Called \in Seq(Seq(Watchers))
         /\ Owed(cascade) /\ Head(Head(cascade)) # "drawn" => Owed(Called)
<1>. DEFINE h == Head(cascade) t == Tail(cascade)
<1>1. cascade \in Seq(Seq(Watchers)) /\ cascade # <<>> /\ h \in Seq(Watchers) /\ h # <<>>
  BY DEF Subscribed, Settled
<1>2. /\ t \in Seq(Seq(Watchers)) /\ Len(t) = Len(cascade) - 1 /\ cascade[1] = h
      /\ \A i \in 1..Len(t) : t[i] = cascade[i + 1]
  BY <1>1
<1>3. /\ Tail(h) \in Seq(Watchers) /\ Len(Tail(h)) = Len(h) - 1 /\ h[1] = Head(h)
      /\ \A i \in 1..Len(Tail(h)) : Tail(h)[i] = h[i + 1]
  BY <1>1
<1>4. ASSUME NEW i \in 1..Len(cascade), Contains(cascade[i], "drawn"), Head(h) # "drawn"
      PROVE  Contains(Tail(h), "drawn") \/ Owed(t)
  <2>1. CASE i = 1
    <3>1. PICK j \in 1..Len(h) : h[j] = "drawn"
      BY <1>4, <2>1, <1>2 DEF Contains
    <3>2. j # 1 /\ j - 1 \in 1..Len(Tail(h)) /\ Tail(h)[j - 1] = h[j]
      BY <3>1, <1>3, <1>4, <1>1
    <3>. QED BY <3>1, <3>2 DEF Contains
  <2>2. CASE i # 1
    <3>1. i - 1 \in 1..Len(t) /\ t[i - 1] = cascade[i]
      BY <2>2, <1>2, <1>1
    <3>. QED BY <3>1, <1>4 DEF Owed
  <2>. QED BY <2>1, <2>2
<1>. HIDE DEF h, t
<1>. QED BY <1>2, <1>3, <1>4, Pushes DEF Called, Owed, h, t

\* The innermost write has called all of its listeners.
LEMMA Returns ==
  ASSUME Subscribed, ~Settled, Head(cascade) = <<>>
  PROVE  /\ Tail(cascade) \in Seq(Seq(Watchers))
         /\ Owed(cascade) => Owed(Tail(cascade))
<1>. DEFINE t == Tail(cascade)
<1>1. cascade \in Seq(Seq(Watchers)) /\ cascade # <<>>
  BY DEF Subscribed, Settled
<1>2. /\ t \in Seq(Seq(Watchers)) /\ Len(t) = Len(cascade) - 1 /\ cascade[1] = <<>>
      /\ \A i \in 1..Len(t) : t[i] = cascade[i + 1]
  BY <1>1
<1>3. ASSUME NEW i \in 1..Len(cascade), Contains(cascade[i], "drawn") PROVE Owed(t)
  <2>1. i # 1
    BY <1>2, <1>3 DEF Contains
  <2>2. i - 1 \in 1..Len(t) /\ t[i - 1] = cascade[i]
    BY <2>1, <1>2, <1>1
  <2>. QED BY <2>2, <1>3 DEF Owed
<1>. QED BY <1>2, <1>3 DEF Owed

\* A new listener.
LEMMA Appended ==
  ASSUME NEW s \in Seq(Watchers), NEW w \in Watchers, ~Contains(s, w),
         \A i, j \in DOMAIN s : s[i] = "drawn" /\ s[j] = "drawn" => i = j
  PROVE  /\ Append(s, w) \in Seq(Watchers)
         /\ \A i, j \in DOMAIN Append(s, w) : Append(s, w)[i] = "drawn" /\ Append(s, w)[j] = "drawn" => i = j
         /\ Contains(Append(s, w), "drawn") <=> Contains(s, "drawn") \/ w = "drawn"
<1>1. /\ Append(s, w) \in Seq(Watchers) /\ Len(Append(s, w)) = Len(s) + 1
      /\ Append(s, w)[Len(s) + 1] = w /\ \A i \in 1..Len(s) : Append(s, w)[i] = s[i]
      /\ DOMAIN s = 1..Len(s) /\ DOMAIN Append(s, w) = 1..(Len(s) + 1) /\ Len(s) \in Nat
  OBVIOUS
<1>. QED BY <1>1 DEF Contains

\* Two lists of listeners, one after the other.
LEMMA Joined ==
  ASSUME NEW a \in Seq(Watchers), NEW b \in Seq(Watchers)
  PROVE  /\ a \o b \in Seq(Watchers) /\ Len(a \o b) = Len(a) + Len(b)
         /\ \A i \in 1..Len(a \o b) : (a \o b)[i] = IF i <= Len(a) THEN a[i] ELSE b[i - Len(a)]
OBVIOUS

\* A listener that leaves from its place was the only one of its kind.
LEMMA Removed ==
  ASSUME NEW s \in Seq(Watchers), NEW k \in DOMAIN s, s[k] = "drawn",
         \A i, j \in DOMAIN s : s[i] = "drawn" /\ s[j] = "drawn" => i = j
  PROVE  RemoveAt(s, k) \in Seq(Watchers) /\ ~Contains(RemoveAt(s, k), "drawn")
<1>. DEFINE a == SubSeq(s, 1, k - 1) b == SubSeq(s, k + 1, Len(s)) r == a \o b
<1>1. Len(s) \in Nat /\ k \in 1..Len(s) /\ k \in Nat /\ DOMAIN s = 1..Len(s)
  OBVIOUS
<1>2. a \in Seq(Watchers) /\ Len(a) = k - 1 /\ \A i \in 1..(k - 1) : a[i] = s[i]
  BY <1>1
<1>3. b \in Seq(Watchers) /\ Len(b) = Len(s) - k /\ \A i \in 1..(Len(s) - k) : b[i] = s[k + i]
  BY <1>1
<1>. HIDE DEF a, b
<1>4. /\ r \in Seq(Watchers) /\ Len(r) = Len(s) - 1
      /\ \A i \in 1..Len(r) : r[i] = IF i <= Len(a) THEN a[i] ELSE b[i - Len(a)]
  <2>1. a \in Seq(Watchers) /\ b \in Seq(Watchers) /\ Len(a) + Len(b) = Len(s) - 1
    BY <1>1, <1>2, <1>3
  <2>. QED BY <2>1, Joined
<1>. HIDE DEF r
<1>5. ASSUME NEW i \in 1..Len(r) PROVE r[i] # "drawn"
  <2>1. CASE i <= k - 1
    <3>1. r[i] = s[i] /\ i \in DOMAIN s /\ i # k
      BY <1>1, <1>2, <1>4, <2>1
    <3>. QED BY <3>1
  <2>2. CASE ~(i <= k - 1)
    <3>1. i - (k - 1) \in 1..(Len(s) - k) /\ k + (i - (k - 1)) = i + 1
      BY <1>1, <1>4, <2>2
    <3>2. r[i] = b[i - (k - 1)]
      BY <1>1, <1>2, <1>4, <2>2
    <3>3. b[i - (k - 1)] = s[i + 1]
      <4>. DEFINE m == i - (k - 1)
      <4>1. m \in 1..(Len(s) - k) /\ k + m = i + 1
        BY <3>1
      <4>. HIDE DEF m
      <4>2. b[m] = s[i + 1]
        BY <4>1, <1>3
      <4>. QED BY <4>2 DEF m
    <3>4. i + 1 \in DOMAIN s /\ i + 1 # k
      BY <1>1, <1>4, <2>2
    <3>. QED BY <3>2, <3>3, <3>4
  <2>. QED BY <2>1, <2>2
<1>. QED BY <1>4, <1>5 DEF RemoveAt, Contains, r, a, b

-----------------------------------------------------------------------------
\* A write that changes something owes a call to every listener (store.ts:19-42).
LEMMA Writes ==
  ASSUME Subscribed, NEW rest \in Seq(Seq(Watchers)), NEW v, SetStoreState(v, rest)
  PROVE  /\ cascade' \in Seq(Seq(Watchers))
         /\ held' = held \/ (Listens("drawn") => Owed(cascade'))
         /\ Owed(rest) => Owed(cascade')
  BY Pushes DEF Subscribed, SetStoreState, Listens

\* And so does one that only works out when the token expires.
LEMMA Rechecks ==
  ASSUME Subscribed, NEW rest \in Seq(Seq(Watchers)), Revalidate(rest)
  PROVE  /\ cascade' \in Seq(Seq(Watchers))
         /\ held' = held \/ (Listens("drawn") => Owed(cascade'))
         /\ Owed(rest) => Owed(cascade')
  BY Writes DEF Revalidate

\* Every step keeps what is drawn, or owes a call: listeners come and go only between writes.
LEMMA SubscribedNext == ViewInv /\ BindingsNext => (Subscribed /\ Told)'
<1>. SUFFICES ASSUME ViewInv, BindingsNext PROVE (Subscribed /\ Told)'
  OBVIOUS
<1>. USE DEF ViewInv
<1>1. CASE Draw
  <2>1. Called \in Seq(Seq(Watchers))
    BY <1>1, Calls DEF Draw, Wakes
  <2>2. last' = [drawn |-> held, check |-> last["check"]] /\ listeners' = listeners /\ held' = held
    BY <1>1 DEF Draw, Wakes, Subscribed
  <2>3. Listens("drawn") => drawn' = held
    BY <1>1 DEF Draw, Subscribed
  <2>. QED BY <1>1, <2>1, <2>2, <2>3 DEF Draw, Subscribed, Told, Listens
<1>2. CASE Check
  <2>1. /\ Called \in Seq(Seq(Watchers))
        /\ Owed(cascade) => Owed(Called)
    BY <1>2, Calls DEF Check, Wakes
  <2>2. /\ cascade' \in Seq(Seq(Watchers))
        /\ held' = held \/ (Listens("drawn") => Owed(cascade'))
        /\ Owed(Called) => Owed(cascade')
    BY <1>2, <2>1, Rechecks DEF Check
  <2>3. last' = [drawn |-> last["drawn"], check |-> held.access] /\ listeners' = listeners /\ drawn' = drawn
    BY <1>2 DEF Check, Wakes, Subscribed
  <2>. QED BY <2>1, <2>2, <2>3 DEF Subscribed, Told, Listens
<1>3. CASE Returned
  BY <1>3, Returns DEF Returned, bound, Subscribed, Told, Listens
<1>4. ASSUME InBrowser(~Listens("drawn")), Seed PROVE (Subscribed /\ Told)'
  <2>1. listeners' = Append(listeners, "drawn") /\ drawn' = held /\ held' = held /\ cascade' = cascade
    BY <1>4 DEF Seed
  <2>2. last' = [drawn |-> held, check |-> last["check"]]
    BY <1>4 DEF Seed, Subscribed
  <2>. DEFINE f == Append(listeners, "drawn")
  <2>3. /\ f \in Seq(Watchers)
        /\ \A i, j \in DOMAIN f : f[i] = "drawn" /\ f[j] = "drawn" => i = j
    BY <1>4, Appended DEF InBrowser, Subscribed, Listens, Watchers
  <2>. HIDE DEF f
  <2>4. listeners' = f
    BY <2>1 DEF f
  <2>. QED BY <2>1, <2>2, <2>3, <2>4 DEF Subscribed, Told
<1>5. CASE Start
  <2>. DEFINE f == Append(listeners, "check")
  <2>1. /\ f \in Seq(Watchers) /\ listeners' = f
        /\ \A i, j \in DOMAIN f : f[i] = "drawn" /\ f[j] = "drawn" => i = j
        /\ Contains(f, "drawn") <=> Contains(listeners, "drawn")
    BY <1>5, Appended DEF Start, InBrowser, Subscribed, Listens, Watchers
  <2>2. last' = [drawn |-> last["drawn"], check |-> held.access] /\ drawn' = drawn /\ Settled
    BY <1>5 DEF Start, Subscribed, InBrowser
  <2>. HIDE DEF f
  <2>3. /\ cascade' \in Seq(Seq(Watchers))
        /\ (held' = held /\ cascade' = cascade) \/ (Contains(f, "drawn") => Owed(cascade'))
    <3>1. CASE held' = held /\ cascade' = cascade
      BY <3>1 DEF Subscribed
    <3>2. CASE cascade' = <<f>>
      <4>1. <<>> \in Seq(Seq(Watchers)) /\ <<f>> \o <<>> = <<f>>
        OBVIOUS
      <4>. QED BY <3>2, <2>1, <4>1, Pushes
    <3>. QED BY <1>5, <2>1, <3>1, <3>2 DEF Start
  <2>. QED BY <2>1, <2>2, <2>3 DEF Subscribed, Told, Listens
<1>6. CASE Unmount
  <2>1. PICK i \in DOMAIN listeners : listeners[i] = "drawn" /\ Leaves(RemoveAt(listeners, i))
    BY <1>6 DEF Unmount
  <2>2. listeners' \in Seq(Watchers) /\ ~Contains(listeners', "drawn")
    BY <2>1, Removed DEF Leaves, Subscribed
  <2>3. \A j \in DOMAIN listeners' : listeners'[j] # "drawn"
    BY <2>2 DEF Contains
  <2>. QED BY <2>1, <2>2, <2>3 DEF Leaves, Subscribed, Told, Listens
<1>7. CASE DisposeScope
  BY <1>7 DEF DisposeScope, Leaves, Subscribed, Told, Listens, Contains
<1>8. CASE SetToken
  <2>1. PICK v : SetStoreState(v, <<>>)
    BY <1>8 DEF SetToken
  <2>2. <<>> \in Seq(Seq(Watchers)) /\ cascade = <<>>
    BY <1>8 DEF SetToken, InBrowser, Settled
  <2>. QED BY <1>8, <2>1, <2>2, Writes DEF SetToken, bound, Subscribed, Told, Listens, Owed, SetStoreState
<1>9. ASSUME NEW a \in Attempts, LoginAnswers(a) PROVE (Subscribed /\ Told)'
  <2>1. CASE held' = held /\ cascade' = cascade
    BY <1>9, <2>1 DEF LoginAnswers, bound, Subscribed, Told, Listens
  <2>2. CASE \E v : SetStoreState(v, <<>>)
    <3>1. <<>> \in Seq(Seq(Watchers)) /\ cascade = <<>>
      BY <1>9 DEF LoginAnswers, InBrowser, Settled
    <3>. QED BY <1>9, <2>2, <3>1, Writes DEF LoginAnswers, bound, Subscribed, Told, Listens, Owed, SetStoreState
  <2>. QED BY <1>9, <2>1, <2>2 DEF LoginAnswers
<1>10. ASSUME UNCHANGED <<held, listeners, last, cascade, drawn>> PROVE (Subscribed /\ Told)'
  BY <1>10 DEF Subscribed, Told, Listens
<1>. QED
  BY <1>1, <1>2, <1>3, <1>4, <1>5, <1>6, <1>7, <1>8, <1>9, <1>10
  DEF BindingsNext, CreateOAuth, CreateNgxOAuth, UseStoreValue, Seed, Read, Expire, SetUsername, SetPassword, DismissError,
      Typing, Submit, Finally, Begin, Await, Resume, Resolve, Discover, Looked, DisposeOAuth, Fetched, Unseen, bound

\* Every step keeps an attempt for a form that waits: a new seed empties the form, and whoever
\* leaves takes it along.
LEMMA SubmittingNext == ViewInv /\ BindingsNext => Submitting'
<1>. SUFFICES ASSUME ViewInv, BindingsNext PROVE Submitting'
  OBVIOUS
<1>. USE DEF Submitting
<1>1. ASSUME Seed PROVE Submitting'
  BY <1>1 DEF Seed, EmptyForm, ViewInv
<1>2. ASSUME NEW rest, Leaves(rest), ~Contains(rest, "drawn") PROVE Submitting'
  <2>1. ~Listens("drawn")' /\ form' = form
    BY <1>2 DEF Leaves, Listens
  <2>2. attempt' \in [Attempts -> Submissions]
    BY <1>2 DEF Leaves, ViewInv, Submissions
  <2>. QED BY <2>1, <2>2 DEF ViewInv
<1>3. ASSUME UNCHANGED <<form, attempt>>, Listens("drawn")' => Listens("drawn") PROVE Submitting'
  BY <1>3 DEF ViewInv
<1>4. CASE Unmount
  <2>1. PICK i \in DOMAIN listeners : listeners[i] = "drawn" /\ Leaves(RemoveAt(listeners, i))
    BY <1>4 DEF Unmount
  <2>. QED BY <2>1, <1>2, Removed DEF ViewInv, Subscribed
<1>5. CASE DisposeScope
  BY <1>5, <1>2 DEF DisposeScope, Contains
<1>6. CASE Start
  <2>1. Listens("drawn")' => Listens("drawn")
    BY <1>6, Appended DEF Start, InBrowser, ViewInv, Subscribed, Listens, Watchers
  <2>. QED BY <1>6, <1>3, <2>1 DEF Start
<1>7. ASSUME NEW f, Patch(f), UNCHANGED <<listeners, attempt>>, f.submitting = form.submitting,
             f = [name |-> f.name, secret |-> f.secret, submitted |-> f.submitted,
                  submitting |-> f.submitting, dismissed |-> f.dismissed]
      PROVE  Submitting'
  BY <1>7 DEF ViewInv, Patch, Listens
<1>8. ASSUME NEW n, SetUsername(n) \/ SetPassword(n) \/ DismissError PROVE Submitting'
  <2>1. CASE SetUsername(n)
    BY <2>1, <1>7 DEF SetUsername, Typing, bound, ViewInv
  <2>2. CASE SetPassword(n)
    BY <2>2, <1>7 DEF SetPassword, Typing, bound, ViewInv
  <2>3. CASE DismissError
    BY <2>3, <1>7 DEF DismissError, Typing, bound, ViewInv
  <2>. QED BY <1>8, <2>1, <2>2, <2>3
<1>9. ASSUME NEW a \in Attempts, Submit(a) PROVE Submitting'
  <2>1. /\ attempt[a].at = "new" /\ Listens("drawn") /\ listeners' = listeners
        /\ form' = [form EXCEPT !.submitted = TRUE, !.dismissed = Undefined, !.submitting = Valid(form) \/ @]
        /\ attempt' = [attempt EXCEPT ![a] = IF Valid(form) THEN [at |-> "sent", shown |-> TRUE]
                                                          ELSE [@ EXCEPT !.at = "done"]]
    BY <1>9 DEF Submit, InBrowser, Patch, bound
  <2>2. attempt' \in [Attempts -> Submissions]
    BY <2>1 DEF ViewInv, Submissions
  <2>3. CASE Valid(form)
    BY <2>1, <2>2, <2>3 DEF ViewInv, Submissions
  <2>4. CASE ~Valid(form)
    <3>1. form'.submitting = form.submitting
      BY <2>1, <2>4 DEF ViewInv
    <3>2. \A b \in Attempts : b # a => attempt'[b] = attempt[b]
      BY <2>1 DEF ViewInv
    <3>. QED BY <2>1, <2>2, <3>1, <3>2 DEF ViewInv
  <2>. QED BY <2>3, <2>4
<1>10. ASSUME NEW a \in Attempts, LoginAnswers(a) PROVE Submitting'
  <2>1. /\ attempt[a].at = "sent" /\ listeners' = listeners /\ form' = form
        /\ attempt' = [attempt EXCEPT ![a].at = "answered"]
    BY <1>10 DEF LoginAnswers, InBrowser, bound
  <2>2. /\ attempt' \in [Attempts -> Submissions] /\ \A b \in Attempts : b # a => attempt'[b] = attempt[b]
        /\ attempt'[a].at = "answered" /\ attempt'[a].shown = attempt[a].shown
    BY <2>1 DEF ViewInv, Submissions
  <2>. QED BY <2>1, <2>2 DEF ViewInv, Listens
<1>11. ASSUME NEW a \in Attempts, Finally(a) PROVE Submitting'
  <2>1. /\ listeners' = listeners /\ attempt' = [attempt EXCEPT ![a].at = "done"]
        /\ form' = IF attempt[a].shown THEN [Rest(form) EXCEPT !.submitting = FALSE] ELSE form
    BY <1>11 DEF Finally, InBrowser, Patch, bound
  <2>2. /\ attempt' \in [Attempts -> Submissions] /\ \A b \in Attempts : b # a => attempt'[b] = attempt[b]
    BY <2>1 DEF ViewInv, Submissions
  <2>. QED BY <2>1, <2>2 DEF ViewInv, Listens, Rest
<1>. QED
  BY <1>1, <1>3, <1>4, <1>5, <1>6, <1>8, <1>9, <1>10, <1>11
  DEF BindingsNext, CreateOAuth, CreateNgxOAuth, UseStoreValue, Read, Expire, Draw, Check, Wakes, Returned, SetToken, Listens,
      Begin, Await, Resume, Resolve, Discover, Looked, DisposeOAuth, Fetched, Unseen, bound

\* Where a render may be, and a render that is elsewhere.
Ats == {"new", "rendering", "waiting", "looking", "failed", "disposed"}

LEMMA Renderings ==
  ASSUME NEW v \in Rendering, NEW at \in Ats
  PROVE  /\ [v EXCEPT !.at = at] \in Rendering
         /\ [v EXCEPT !.at = at].at = at /\ [v EXCEPT !.at = at].got = v.got
         /\ [v EXCEPT !.at = at].endpoints = v.endpoints /\ [v EXCEPT !.at = at].issuer = v.issuer
BY DEF Rendering, Ats

\* Every step keeps the renders apart: only the one that runs resolves, in its own context or in none.
LEMMA RequestsNext == ViewInv /\ BindingsNext => (Requests /\ OwnInstance)'
<1>. SUFFICES ASSUME ViewInv, BindingsNext PROVE (Requests /\ OwnInstance)'
  OBVIOUS
<1>. USE BindingsAssumption
<1>0. /\ cache \in [Issuers -> Nat] /\ fetches \in Seq(Issuers \cup {"pending", "failed"})
      /\ render \in [Renders -> Rendering]
      /\ \A r, o \in Renders : Running(r) /\ Running(o) => r = o
      /\ context # Undefined => context \in Renders /\ Running(context)
      /\ \A r \in Renders : render[r].got \subseteq {r} /\ render[r].endpoints \in {Undefined, render[r].issuer}
  BY DEF ViewInv, Requests, OwnInstance
<1>1. ASSUME UNCHANGED server PROVE (Requests /\ OwnInstance)'
  BY <1>1, <1>0 DEF server, lookup, Running, Requests, OwnInstance
<1>10. ASSUME NEW r \in Renders, NEW p \in Rendering, render' = [render EXCEPT ![r] = p],
              cache' \in [Issuers -> Nat], fetches' \in Seq(Issuers \cup {"pending", "failed"}),
              p.at = "rendering" => \A o \in Renders : Running(o) => o = r,
              \/ context' = Undefined
              \/ (context' = context /\ (context = r => p.at = "rendering"))
              \/ (context' = r /\ p.at = "rendering"),
              p.got \subseteq {r}, p.endpoints \in {Undefined, p.issuer}
       PROVE  (Requests /\ OwnInstance)'
  <2>1. render' \in [Renders -> Rendering] /\ render'[r] = p /\ \A o \in Renders : o # r => render'[o] = render[o]
    BY <1>0, <1>10
  <2>2. \A o, q \in Renders : Running(o)' /\ Running(q)' => o = q
    BY <1>0, <1>10, <2>1 DEF Running
  <2>3. context' # Undefined => context' \in Renders /\ Running(context)'
    BY <1>0, <1>10, <2>1 DEF Running
  <2>. QED BY <1>10, <2>1, <2>2, <2>3, <1>0 DEF Requests, OwnInstance
<1>2. ASSUME NEW r \in Renders, NEW at \in {"rendering", "waiting", "disposed"}, RenderAt(r, at), UNCHANGED lookup,
             \A o \in Renders \ {r} : at = "rendering" => ~Running(o),
             \/ (context' \in {r, Undefined} /\ (context' = r => at = "rendering"))
             \/ (context' = context /\ ~Running(r) /\ at # "rendering")
      PROVE  (Requests /\ OwnInstance)'
  <2>. DEFINE p == [render[r] EXCEPT !.at = at]
  <2>1. render' = [render EXCEPT ![r] = p]
    BY <1>0, <1>2 DEF RenderAt
  <2>2. /\ render[r] \in Rendering /\ p \in Rendering
        /\ p.at = at /\ p.got = render[r].got /\ p.endpoints = render[r].endpoints /\ p.issuer = render[r].issuer
    <3>1. render[r] \in Rendering /\ at \in Ats
      BY <1>0 DEF Ats
    <3>. QED BY <3>1, Renderings
  <2>. HIDE DEF p
  <2>3. /\ cache' \in [Issuers -> Nat] /\ fetches' \in Seq(Issuers \cup {"pending", "failed"})
        /\ p.at = "rendering" => \A o \in Renders : Running(o) => o = r
        /\ \/ context' = Undefined
           \/ (context' = context /\ (context = r => p.at = "rendering"))
           \/ (context' = r /\ p.at = "rendering")
        /\ p.got \subseteq {r} /\ p.endpoints \in {Undefined, p.issuer}
    <3>1. cache' \in [Issuers -> Nat] /\ fetches' \in Seq(Issuers \cup {"pending", "failed"})
      BY <1>0, <1>2, <2>2 DEF lookup, Running
    <3>2. p.at = "rendering" => \A o \in Renders : Running(o) => o = r
      BY <1>0, <1>2, <2>2 DEF lookup, Running
    <3>3. \/ context' = Undefined
          \/ (context' = context /\ (context = r => p.at = "rendering"))
          \/ (context' = r /\ p.at = "rendering")
      BY <1>0, <1>2, <2>2 DEF lookup, Running
    <3>4. p.got \subseteq {r} /\ p.endpoints \in {Undefined, p.issuer}
      BY <1>0, <1>2, <2>2 DEF lookup, Running
    <3>. QED BY <3>1, <3>2, <3>3, <3>4
  <2>. QED BY <2>1, <2>2, <2>3, <1>10
<1>3. ASSUME NEW r \in Renders, Begin(r) \/ Await(r) \/ Resume(r) \/ DisposeOAuth(r)
      PROVE  (Requests /\ OwnInstance)'
  <2>1. CASE Begin(r)
    BY <1>0, <1>2, <2>1 DEF Begin
  <2>2. CASE Await(r)
    BY <1>0, <1>2, <2>2 DEF Await
  <2>3. CASE Resume(r)
    BY <1>0, <1>2, <2>3 DEF Resume
  <2>4. CASE DisposeOAuth(r)
    BY <1>0, <1>2, <2>4 DEF DisposeOAuth, Running
  <2>. QED BY <1>3, <2>1, <2>2, <2>3, <2>4
<1>4. ASSUME NEW r \in Renders, Resolve(r) PROVE (Requests /\ OwnInstance)'
  <2>1. Running(r) /\ UNCHANGED lookup /\ (context # Undefined => context = r)
    BY <1>0, <1>4 DEF Resolve
  <2>2. CASE context = Undefined
    <3>. DEFINE p == [render[r] EXCEPT !.at = "failed"]
    <3>1. render' = [render EXCEPT ![r] = p] /\ context' = Undefined
      BY <1>0, <1>4, <2>2 DEF Resolve, Instance, RenderAt
    <3>2. p \in Rendering /\ p.at = "failed" /\ p.got = render[r].got /\ p.endpoints = render[r].endpoints
          /\ p.issuer = render[r].issuer
      BY <1>0, Renderings DEF Ats
    <3>. HIDE DEF p
    <3>3. /\ cache' \in [Issuers -> Nat] /\ fetches' \in Seq(Issuers \cup {"pending", "failed"})
          /\ p.at = "rendering" => \A o \in Renders : Running(o) => o = r
          /\ \/ context' = Undefined
             \/ (context' = context /\ (context = r => p.at = "rendering"))
             \/ (context' = r /\ p.at = "rendering")
          /\ p.got \subseteq {r} /\ p.endpoints \in {Undefined, p.issuer}
      <4>1. cache' \in [Issuers -> Nat] /\ fetches' \in Seq(Issuers \cup {"pending", "failed"})
        BY <1>0, <2>1, <3>1, <3>2 DEF lookup
      <4>2. p.at = "rendering" => \A o \in Renders : Running(o) => o = r
        BY <1>0, <2>1, <3>1, <3>2 DEF lookup
      <4>3. \/ context' = Undefined
            \/ (context' = context /\ (context = r => p.at = "rendering"))
            \/ (context' = r /\ p.at = "rendering")
        BY <1>0, <2>1, <3>1, <3>2 DEF lookup
      <4>4. p.got \subseteq {r} /\ p.endpoints \in {Undefined, p.issuer}
        BY <1>0, <2>1, <3>1, <3>2 DEF lookup
      <4>. QED BY <4>1, <4>2, <4>3, <4>4
    <3>. QED BY <3>1, <3>2, <3>3, <1>10
  <2>3. CASE context # Undefined
    <3>. DEFINE p == [render[r] EXCEPT !.got = @ \cup {r}]
    <3>1. render' = [render EXCEPT ![r] = p] /\ context' = context
      BY <1>0, <1>4, <2>1, <2>3 DEF Resolve, Instance
    <3>2. p \in Rendering /\ p.at = render[r].at /\ p.got = render[r].got \cup {r}
          /\ p.endpoints = render[r].endpoints /\ p.issuer = render[r].issuer
      <4>1. \A v \in Rendering : LET q == [v EXCEPT !.got = @ \cup {r}] IN
              q \in Rendering /\ q.at = v.at /\ q.got = v.got \cup {r} /\ q.endpoints = v.endpoints /\ q.issuer = v.issuer
        BY DEF Rendering
      <4>. QED BY <1>0, <4>1
    <3>. HIDE DEF p
    <3>. QED BY <1>0, <2>1, <3>1, <3>2, <1>10 DEF lookup, Running
  <2>. QED BY <1>0, <2>2, <2>3
<1>5. ASSUME NEW r \in Renders, Discover(r) PROVE (Requests /\ OwnInstance)'
  <2>. DEFINE issuer == render[r].issuer
              known == IF cache[issuer] # 0 THEN cache[issuer] ELSE Len(fetches) + 1
  <2>1. known \in Nat /\ Running(r) /\ issuer \in Issuers
    <3>1. issuer \in Issuers
      BY <1>0 DEF Rendering
    <3>2. cache[issuer] \in Nat /\ Len(fetches) \in Nat
      BY <1>0, <3>1
    <3>. QED BY <3>1, <3>2, <1>5 DEF Discover
  <2>. HIDE DEF known, issuer
  <2>2. /\ cache' = [cache EXCEPT ![issuer] = known] /\ context' = Undefined
        /\ render' = [render EXCEPT ![r].at = "looking", ![r].fetch = known]
        /\ fetches' = IF known <= Len(fetches) THEN fetches ELSE Append(fetches, "pending")
    BY <1>0, <1>5 DEF Discover, known, issuer
  <2>3. fetches' \in Seq(Issuers \cup {"pending", "failed"}) /\ cache' \in [Issuers -> Nat]
    <3>1. Append(fetches, "pending") \in Seq(Issuers \cup {"pending", "failed"})
      BY <1>0
    <3>. QED BY <1>0, <2>1, <2>2, <3>1
  <2>. DEFINE p == [render[r] EXCEPT !.at = "looking", !.fetch = known]
  <2>4. p \in Rendering /\ p.at = "looking" /\ p.got = render[r].got /\ p.endpoints = render[r].endpoints
        /\ p.issuer = render[r].issuer
    <3>1. \A v \in Rendering : LET q == [v EXCEPT !.at = "looking", !.fetch = known] IN
            q \in Rendering /\ q.at = "looking" /\ q.got = v.got /\ q.endpoints = v.endpoints /\ q.issuer = v.issuer
      BY <2>1 DEF Rendering
    <3>. QED BY <1>0, <3>1
  <2>5. render' = [render EXCEPT ![r] = p]
    BY <1>0, <2>2
  <2>. HIDE DEF p
  <2>6. /\ cache' \in [Issuers -> Nat] /\ fetches' \in Seq(Issuers \cup {"pending", "failed"})
        /\ p.at = "rendering" => \A o \in Renders : Running(o) => o = r
        /\ \/ context' = Undefined
           \/ (context' = context /\ (context = r => p.at = "rendering"))
           \/ (context' = r /\ p.at = "rendering")
        /\ p.got \subseteq {r} /\ p.endpoints \in {Undefined, p.issuer}
    <3>1. cache' \in [Issuers -> Nat] /\ fetches' \in Seq(Issuers \cup {"pending", "failed"})
      BY <1>0, <2>2, <2>3, <2>4
    <3>2. p.at = "rendering" => \A o \in Renders : Running(o) => o = r
      BY <1>0, <2>2, <2>3, <2>4
    <3>3. \/ context' = Undefined
          \/ (context' = context /\ (context = r => p.at = "rendering"))
          \/ (context' = r /\ p.at = "rendering")
      BY <1>0, <2>2, <2>3, <2>4
    <3>4. p.got \subseteq {r} /\ p.endpoints \in {Undefined, p.issuer}
      BY <1>0, <2>2, <2>3, <2>4
    <3>. QED BY <3>1, <3>2, <3>3, <3>4
  <2>. QED BY <2>4, <2>5, <2>6, <1>10
<1>6. ASSUME NEW i \in DOMAIN fetches, Fetched(i) PROVE (Requests /\ OwnInstance)'
  <2>1. PICK answer \in Issuers \cup {"failed"} : fetches' = [fetches EXCEPT ![i] = answer]
    BY <1>0, <1>6 DEF Fetched
  <2>2. fetches' \in Seq(Issuers \cup {"pending", "failed"})
    BY <1>0, <2>1
  <2>3. UNCHANGED <<render, context, cache>>
    BY <1>6 DEF Fetched
  <2>. QED BY <1>0, <2>2, <2>3 DEF Running, Requests, OwnInstance
<1>7. ASSUME NEW r \in Renders, Looked(r) PROVE (Requests /\ OwnInstance)'
  <2>. DEFINE document == fetches[render[r].fetch]
              p == IF document = "failed" THEN [render[r] EXCEPT !.at = "waiting"]
                   ELSE IF Asserted(r, document) THEN [render[r] EXCEPT !.at = "waiting", !.endpoints = document]
                   ELSE [render[r] EXCEPT !.at = "failed"]
  <2>1. /\ render' = [render EXCEPT ![r] = p] /\ UNCHANGED <<context, fetches>> /\ ~Running(r)
        /\ cache' = IF document = "failed" THEN [cache EXCEPT ![render[r].issuer] = 0] ELSE cache
    BY <1>0, <1>7 DEF Looked, Running
  <2>2. cache' \in [Issuers -> Nat]
    BY <1>0, <2>1
  <2>3. /\ p \in Rendering
        /\ p.at # "rendering" /\ p.got = render[r].got /\ p.endpoints \in {render[r].endpoints, p.issuer}
        /\ p.issuer = render[r].issuer
    <3>1. render[r] \in Rendering
      BY <1>0
    <3>2. CASE document = "failed"
      BY <1>0, <3>1, <3>2 DEF Rendering
    <3>3. CASE document # "failed" /\ document = render[r].issuer
      BY <1>0, <3>1, <3>3 DEF Rendering, Asserted
    <3>4. CASE document # "failed" /\ document # render[r].issuer
      BY <1>0, <3>1, <3>4 DEF Rendering, Asserted
    <3>. QED BY <1>0, <3>2, <3>3, <3>4
  <2>. HIDE DEF p
  <2>4. /\ cache' \in [Issuers -> Nat] /\ fetches' \in Seq(Issuers \cup {"pending", "failed"})
        /\ p.at = "rendering" => \A o \in Renders : Running(o) => o = r
        /\ \/ context' = Undefined
           \/ (context' = context /\ (context = r => p.at = "rendering"))
           \/ (context' = r /\ p.at = "rendering")
        /\ p.got \subseteq {r} /\ p.endpoints \in {Undefined, p.issuer}
    <3>1. cache' \in [Issuers -> Nat] /\ fetches' \in Seq(Issuers \cup {"pending", "failed"})
      BY <1>0, <2>1, <2>2, <2>3 DEF Running
    <3>2. p.at = "rendering" => \A o \in Renders : Running(o) => o = r
      BY <1>0, <2>1, <2>2, <2>3 DEF Running
    <3>3. \/ context' = Undefined
          \/ (context' = context /\ (context = r => p.at = "rendering"))
          \/ (context' = r /\ p.at = "rendering")
      BY <1>0, <2>1, <2>2, <2>3 DEF Running
    <3>4. p.got \subseteq {r} /\ p.endpoints \in {Undefined, p.issuer}
      BY <1>0, <2>1, <2>2, <2>3 DEF Running
    <3>. QED BY <3>1, <3>2, <3>3, <3>4
  <2>. QED BY <2>1, <2>3, <2>4, <1>10
<1>. QED
  BY <1>1, <1>3, <1>4, <1>5, <1>6, <1>7
  DEF BindingsNext, CreateOAuth, CreateNgxOAuth, UseStoreValue, Seed, Read, Expire, Draw, Check, Wakes, Returned, SetToken,
      Start, Unmount, DisposeScope, Leaves, SetUsername, SetPassword, DismissError, Typing, Submit, LoginAnswers, Finally

\* It holds at the start.
LEMMA ViewInvFirst == BindingsInit => ViewInv
<1>. SUFFICES ASSUME BindingsInit PROVE ViewInv
  OBVIOUS
<1>1. Subscribed /\ Told
  BY DEF BindingsInit, Subscribed, Told, Listens, Contains
<1>2. Submitting
  BY DEF BindingsInit, Submitting, EmptyForm, Submissions
<1>3. Requests /\ OwnInstance
  <2>1. PICK of \in [Renders -> Issuers] : render = [r \in Renders |-> [at |-> "new", got |-> {}, issuer |-> of[r],
                                                                      endpoints |-> Undefined, fetch |-> 0]]
    BY DEF BindingsInit
  <2>2. render \in [Renders -> Rendering]
    BY <2>1 DEF Rendering
  <2>3. \A r \in Renders : render[r].at = "new" /\ render[r].got = {} /\ render[r].endpoints = Undefined
    BY <2>1
  <2>4. context = Undefined /\ cache \in [Issuers -> Nat] /\ fetches \in Seq(Issuers \cup {"pending", "failed"})
    BY DEF BindingsInit
  <2>. QED BY <2>2, <2>3, <2>4 DEF Requests, OwnInstance, Running
<1>. QED BY <1>1, <1>2, <1>3 DEF ViewInv

\* The bindings' invariant holds in every state.
THEOREM ViewsKeep == BindingsSpec => []ViewInv
<1>1. ViewInv /\ [BindingsNext]_view => ViewInv'
  <2>1. ViewInv /\ UNCHANGED view => ViewInv'
    BY DEF view, ViewInv, Subscribed, Told, Submitting, Requests, OwnInstance, Listens, Running
  <2>. QED BY <2>1, SubscribedNext, SubmittingNext, RequestsNext DEF ViewInv
<1>. QED BY <1>1, ViewInvFirst, PTL DEF BindingsSpec

\* Once a write and every write made inside of it have returned, what a view draws is what the
\* store holds, for however many writes and whichever listener came first (refs.ts, signals.ts:9).
THEOREM ViewsDrawWhatIsHeld == BindingsSpec => []DrawsWhatIsHeld
<1>1. ViewInv => DrawsWhatIsHeld
  BY DEF ViewInv, Told, DrawsWhatIsHeld, Owed, Settled
<1>. QED BY <1>1, ViewsKeep, PTL

\* A form that says it is submitting waits for an answer, however many attempts there are (form.ts:58-76).
THEOREM FormsComeBack == BindingsSpec => []NeverStuck
<1>1. ViewInv => NeverStuck
  BY DEF ViewInv, Submitting, NeverStuck
<1>. QED BY <1>1, ViewsKeep, PTL

\* Of any number of renders, each resolves the instance of its own request or none, pointed at its
\* own issuer's endpoints (provider.tsx:13, module.ts:29-37, discovery.ts:35).
THEOREM RendersResolveTheirOwn == BindingsSpec => []OwnInstance
<1>1. ViewInv => OwnInstance
  BY DEF ViewInv
<1>. QED BY <1>1, ViewsKeep, PTL
==================================================================================
