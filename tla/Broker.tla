--------------------------------- MODULE Broker ---------------------------------
(***************************************************************************)
(* Signing in through an upstream provider (broker/, upstreams/): the      *)
(* choice of the upstream, the handoff a browser takes there and back, the *)
(* linking of the identity it returns with, the session that follows, and  *)
(* the logout tokens an upstream sends later.                              *)
(*                                                                         *)
(* Sign-ins and notices are processes with one step per await on the       *)
(* adapter or the host.  A handoff is named by the sign-in that began it,  *)
(* an account or a session by the callback it was made for; a start also   *)
(* names its state, nonce and PKCE verifier, and the code it was answered. *)
(* The upstream is honest but says anything, or nothing.                   *)
(***************************************************************************)
EXTENDS Naturals, FiniteSets

CONSTANTS
  Starts,     \* calls of broker.start
  Callbacks,  \* calls of broker.complete and of linkIdentity after it
  Notices,    \* calls of upstreamLogout
  Providers,  \* the upstreams
  Sids,       \* what the upstreams name their own sessions; nothing keeps two from one name
  Tokens,     \* the logout tokens they send, each with a jti of its own; one may arrive at any time, and again
  Allowed,    \* client.upstreamProviders: never empty here
  Owner,      \* the upstream whose domain the login hint names, or Absent
  Browsers,
  Local,      \* an account that exists, and knows its own address
  Policies,   \* LinkPolicy: subject, verified-email, interactive
  Announcing, \* the upstreams that promise the iss parameter
  Pkce,       \* the upstreams that hold a code to its challenge
  Renaming,   \* the upstreams whose claimMapper takes the address from another claim
  HandoffTtl,
  MaxAge,     \* LOGOUT_TOKEN_MAX_AGE
  MaxClock,   \* the clock stops here
  Absent

ASSUME BrokerAssumption ==
  /\ Allowed \subseteq Providers /\ Allowed # {}
  /\ {Renaming, Announcing, Pkce} \subseteq SUBSET Providers
  /\ {HandoffTtl, MaxAge} \subseteq Nat \ {0} /\ MaxClock \in Nat
  /\ Policies \subseteq {"subject", "verified-email", "interactive"}
  /\ Local \notin Callbacks \cup {Absent} /\ Absent \notin Starts \cup Callbacks \cup Providers \cup Sids
  /\ Tokens \subseteq [provider : Providers, sid : Sids \cup {Absent}, iat : Nat] /\ Absent \notin Tokens
  /\ Starts \cap {"silent", "error", "bare", "unverified"} = {}

VARIABLES
  policy,     \* how this host links
  handoffs,   \* [Starts -> the broker_handoff artifact, or Absent once it is gone]
  identities, \* [Providers -> the account the one person there is linked to, or Absent]
  signedIn,   \* the stored sessions
  claimed,    \* replay memory, "upstream-logout:": <<token, until>>
  clock,      \* Date.now(), in seconds
  callback,   \* [Callbacks -> the state of a callback]
  notice,     \* [Notices -> the state of a logout call]
  completed,  \* the properties' memory: who completed which handoff
  vouched     \* ... and the upstreams that have verified Local's address

brokerVars == <<policy, handoffs, identities, signedIn, claimed, clock, callback, notice, completed, vouched>>
upstreams == <<claimed, notice>>
leg == <<policy, handoffs, clock, completed>>

Accounts == Callbacks \cup {Local}

-----------------------------------------------------------------------------
(* Choosing an upstream (upstreams/selection.ts). *)

\* An explicit one, then the one acr_values name, then the hint's domain, then the
\* only one: nobody is guessed.
Select(explicit, acr) ==
  IF explicit # Absent THEN {explicit} \cap Allowed
  ELSE IF Cardinality(acr \cap Allowed) = 1 THEN acr \cap Allowed
  ELSE IF Owner \in Allowed THEN {Owner}
  ELSE IF Cardinality(Allowed) = 1 THEN Allowed ELSE {}

\* start: the handoff and the cookie that binds it to the browser.
Start(s) == \E b \in Browsers, explicit \in Providers \cup {Absent}, acr \in SUBSET Providers :
  /\ handoffs[s] = Absent /\ \A c \in completed : c[1] # s
  /\ \E p \in Select(explicit, acr) :
       handoffs' = [handoffs EXCEPT ![s] = [provider |-> p, browser |-> b, expires |-> clock + HandoffTtl]]
  /\ UNCHANGED <<policy, identities, signedIn, upstreams, clock, callback, completed, vouched>>

-----------------------------------------------------------------------------
(* What the upstream answers (core/src/flow.ts, jwt.ts), and how a leg ends. *)

\* The redirect's parameters, whichever tab's they were; whether discovery answers; and the token
\* endpoint's reply: nothing, an error, tokens without an ID token, an ID token that does not
\* verify, or one with the nonce of the start the code was issued for.
Answers == [error : BOOLEAN, code : Starts \cup {Absent}, iss : Providers \cup {Absent}, up : BOOLEAN,
            reply : {"silent", "error", "bare", "unverified"} \cup Starts]

\* checkIssuer: a missing iss is refused of an upstream that promised one.
IssuerMatches(p, a) == a.iss = p \/ (a.iss = Absent /\ p \notin Announcing)

\* Mutant: the nonce of an ID token that verifies is not looked at.
NonceIgnored(s, a) == a.reply \in Starts

\* checkNonce; what it returns of a reply that fails has no token left in it.
NonceMatches(s, a) == a.reply = s

\* Mutant: whatever the core reports is a refusal.
FailureRefused(p, s, a) ==
  IF a.error THEN "access_denied" ELSE IF ~a.up THEN "temporarily_unavailable"
  ELSE IF a.code = Absent THEN "server_error"
  ELSE IF IssuerMatches(p, a) /\ NonceMatches(s, a) THEN "identity" ELSE "access_denied"

\* How complete ends, by the order of its checks: upstreamFailure takes a token without
\* a nonce that matches, and with no error of its own, for an endpoint that did not answer.
Ending(p, s, a) ==
  CASE a.error -> "access_denied"
    [] ~a.error /\ ~a.up -> "temporarily_unavailable"
    [] ~a.error /\ a.up /\ a.code = Absent -> "server_error"
    [] OTHER -> IF ~IssuerMatches(p, a) \/ a.reply \in {"error", "unverified"} THEN "access_denied"
                ELSE IF NonceMatches(s, a) THEN "identity" ELSE "temporarily_unavailable"

\* An honest upstream issues the ID token for the request its code came from.
Possible(p, s) == {a \in Answers : a.reply \in Starts => a.reply = a.code /\ (p \in Pkce => a.code = s)}

\* The start whose ID token is taken, or Absent where the leg ends.
Taken(p, s, a) == IF Ending(p, s, a) = "identity" THEN a.reply ELSE Absent
Endings == [p \in Providers |-> [s \in Starts |-> {Taken(p, s, a) : a \in Possible(p, s)}]]

-----------------------------------------------------------------------------
(* Coming back (broker.complete). *)

\* Mutant: the flag is carried over to the address it is not about.
MappedAll(p, said) == [email |-> IF p \in Renaming /\ said.other # Absent THEN said.other ELSE said.email,
                       verified |-> said.verified]

\* pickClaims takes the address and its flag; renameClaims takes the address from
\* elsewhere, if it is there, and drops the flag, which is about the other one.
Mapped(p, said) == [email |-> IF p \in Renaming /\ said.other # Absent THEN said.other ELSE said.email,
                    verified |-> p \notin Renaming /\ said.verified]

\* Mutant: UserInfo is taken whoever it is about.
MergedAnyhow(said) == [email |-> IF said.email # Absent THEN said.email ELSE said.info.email,
                       verified |-> said.verified \/ said.info.verified, other |-> said.other]

\* userInfoOf: UserInfo, if it is about the ID token's subject, and the ID token over it.
Merged(said) ==
  IF ~said.info.same THEN [email |-> said.email, verified |-> said.verified, other |-> said.other]
  ELSE [email |-> IF said.email # Absent THEN said.email ELSE said.info.email,
        verified |-> said.verified \/ said.info.verified, other |-> said.other]

\* The ID token and UserInfo; where both have an address or a flag, they agree.
Upstream == [email : {Local, Absent}, verified : BOOLEAN, other : {Local, Absent},
             info : [same : BOOLEAN, email : {Local, Absent}, verified : BOOLEAN]]

\* The address the upstream says it has verified for this person.
Verified(said) ==
  LET docs == {said} \cup (IF said.info.same THEN {said.info} ELSE {}) IN
  IF \E d \in docs : d.verified THEN {d.email : d \in docs} \ {Absent} ELSE {}

\* Whom the host hears about: the identity, and the address said to be verified.
Heard == [p \in Providers |-> {<<Mapped(p, Merged(said)), Verified(said)>> : said \in Upstream}]

Resting == [pc |-> "idle", state |-> Absent, provider |-> Absent, account |-> Absent, opened |-> Absent, of |-> Absent,
            sid |-> Absent]
Stopped == [Resting EXCEPT !.pc = "done"]

\* The handoff must be found, and the browser must hold its cookie, before it is spent.
Find(c) == \E s \in Starts, b \in Browsers :
  /\ callback[c].pc = "idle" /\ handoffs[s] # Absent
  /\ callback' = [callback EXCEPT ![c] =
       IF handoffs[s].expires > clock /\ handoffs[s].browser = b
       THEN [@ EXCEPT !.pc = "consume", !.state = s, !.provider = handoffs[s].provider, !.opened = b]
       ELSE Stopped]
  /\ UNCHANGED <<leg, identities, signedIn, upstreams, vouched>>

\* Mutant: the destroy alone, which tells nobody who was first.
ConsumeByDestroy(c) ==
  LET s == callback[c].state IN
  /\ callback[c].pc = "consume"
  /\ handoffs' = [handoffs EXCEPT ![s] = Absent]
  /\ callback' = [callback EXCEPT ![c].pc = "exchange"]
  /\ completed' = completed \cup {<<s, c, callback[c].opened, callback[c].opened>>}
  /\ UNCHANGED <<policy, identities, signedIn, upstreams, clock, vouched>>

\* consume decides who was first; the destroy after it changes nothing for the others.
Consume(c) ==
  LET s == callback[c].state IN
  /\ callback[c].pc = "consume"
  /\ IF handoffs[s] # Absent /\ handoffs[s].expires > clock
     THEN /\ handoffs' = [handoffs EXCEPT ![s] = Absent]
          /\ callback' = [callback EXCEPT ![c].pc = "exchange"]
          /\ completed' = completed \cup {<<s, c, handoffs[s].browser, callback[c].opened>>}
     ELSE /\ callback' = [callback EXCEPT ![c] = Stopped]
          /\ UNCHANGED <<handoffs, completed>>
  /\ UNCHANGED <<policy, identities, signedIn, upstreams, clock, vouched>>

\* The upstream's error, its failure or an answer to another start end it here; an ID token
\* may say of which of the upstream's sessions it is, as others have said and will.
Exchange(c) ==
  /\ callback[c].pc = "exchange"
  /\ \E s \in Endings[callback[c].provider][callback[c].state], sid \in Sids \cup {Absent} :
       callback' = [callback EXCEPT ![c] =
         IF s = Absent THEN Stopped ELSE [@ EXCEPT !.pc = "look", !.of = s, !.sid = sid]]
  /\ UNCHANGED <<leg, identities, signedIn, upstreams, vouched>>

\* linkIdentity, up to its decision: the link, an account with the verified
\* address, the person's own choice, or a new account.
Look(c) ==
  /\ callback[c].pc = "look"
  /\ \E heard \in Heard[callback[c].provider] :
       LET p == callback[c].provider
           candidate == policy # "subject" /\ heard[1].email = Local /\ heard[1].verified
       IN /\ callback' = [callback EXCEPT ![c] =
               IF identities[p] # Absent THEN [@ EXCEPT !.pc = "signIn", !.account = identities[p]]
               ELSE IF candidate /\ policy = "interactive" THEN Stopped
               ELSE [@ EXCEPT !.pc = "link", !.account = IF candidate THEN Local ELSE c]]
          /\ vouched' = IF Local \in heard[2] THEN vouched \cup {p} ELSE vouched
  /\ UNCHANGED <<leg, identities, signedIn, upstreams>>

\* identities.upsert writes over whatever another callback linked meanwhile.
Link(c) ==
  /\ callback[c].pc = "link"
  /\ identities' = [identities EXCEPT ![callback[c].provider] = callback[c].account]
  /\ callback' = [callback EXCEPT ![c].pc = "signIn"]
  /\ UNCHANGED <<leg, signedIn, upstreams, vouched>>

\* The host completes the interaction with the account and where it came from.
SignIn(c) ==
  /\ callback[c].pc = "signIn"
  /\ signedIn' = signedIn \cup {[id |-> c, account |-> callback[c].account, idp |-> callback[c].provider,
                                 sid |-> callback[c].sid]}
  /\ callback' = [callback EXCEPT ![c].pc = "done"]
  /\ UNCHANGED <<leg, identities, upstreams, vouched>>

\* identityManagement.unlink
Unlink(p) ==
  /\ identities[p] # Absent
  /\ identities' = [identities EXCEPT ![p] = Absent]
  /\ UNCHANGED <<leg, signedIn, upstreams, callback, vouched>>

-----------------------------------------------------------------------------
(* Upstream logout (broker/logout.ts). *)

\* Mutant: the claim lives a second less than the token.
ClaimShort(t) == claimed' = {e \in claimed : e[1] # t} \cup {<<t, clock + MaxAge - 1>>}

Claim(t) == claimed' = {e \in claimed : e[1] # t} \cup {<<t, clock + MaxAge>>}
Remembered(t) == \E e \in claimed : e[1] = t /\ e[2] > clock

Unheard == [pc |-> "idle", token |-> Absent, at |-> 0, account |-> Absent, left |-> {}, before |-> {}]

\* jose refuses a token not yet issued and one older than maxTokenAge, and one as old as that it
\* takes; a sid is taken whether or not a session has it.
Accept(n) == \E t \in Tokens :
  /\ notice[n].pc = "idle" /\ t.iat <= clock /\ clock <= t.iat + MaxAge
  /\ ~Remembered(t) /\ Claim(t)
  /\ notice' = [notice EXCEPT ![n] =
       [Unheard EXCEPT !.pc = IF t.sid = Absent THEN "find" ELSE "list", !.token = t, !.at = clock]]
  /\ UNCHANGED <<leg, identities, signedIn, callback, vouched>>

Heeded(n) == [notice[n] EXCEPT !.pc = "done", !.account = Absent, !.before = {}]

\* A token that names no session is about the account its subject is linked to by now.
FindIdentity(n) ==
  /\ notice[n].pc = "find"
  /\ LET account == identities[notice[n].token.provider] IN
     notice' = [notice EXCEPT ![n] =
       IF account = Absent THEN Heeded(n) ELSE [@ EXCEPT !.pc = "list", !.account = account]]
  /\ UNCHANGED <<leg, identities, signedIn, claimed, callback, vouched>>

\* Mutant: whichever upstream opened it.
NamedAnywhere(t, account) ==
  IF t.sid # Absent THEN {s \in signedIn : s.sid = t.sid} ELSE {s \in signedIn : s.account = account}

\* findByUpstreamSession: as many as carry that sid; or those of the account that came from there.
Named(t, account) ==
  IF t.sid # Absent THEN {s \in signedIn : s.idp = t.provider /\ s.sid = t.sid}
  ELSE {s \in signedIn : s.account = account /\ s.idp = t.provider}

\* before is the properties' memory of what sessions there were.
List(n) ==
  /\ notice[n].pc = "list"
  /\ notice' = [notice EXCEPT ![n] =
       [@ EXCEPT !.pc = "end", !.left = Named(notice[n].token, notice[n].account), !.before = signedIn]]
  /\ UNCHANGED <<leg, identities, signedIn, claimed, callback, vouched>>

\* Mutant: the host ends the first it was given.
EndOne(n) ==
  /\ notice[n].pc = "end"
  /\ \/ notice[n].left = {} /\ signedIn' = signedIn
     \/ \E s \in notice[n].left : signedIn' = signedIn \ {s}
  /\ notice' = [notice EXCEPT ![n] = Heeded(n)]
  /\ UNCHANGED <<leg, identities, claimed, callback, vouched>>

\* The host ends what it was given, one by one, while others sign in.
EndSession(n) ==
  /\ notice[n].pc = "end"
  /\ IF notice[n].left = {}
     THEN notice' = [notice EXCEPT ![n] = Heeded(n)] /\ UNCHANGED signedIn
     ELSE \E s \in notice[n].left : /\ signedIn' = signedIn \ {s}
                                    /\ notice' = [notice EXCEPT ![n].left = @ \ {s}]
  /\ UNCHANGED <<leg, identities, claimed, callback, vouched>>

-----------------------------------------------------------------------------
TimePasses ==
  /\ clock < MaxClock /\ clock' = clock + 1
  /\ UNCHANGED <<policy, handoffs, identities, signedIn, upstreams, callback, completed, vouched>>

\* Somebody is signed in to the local account with its own password.
BrokerInit ==
  /\ policy \in Policies
  /\ handoffs = [s \in Starts |-> Absent] /\ identities = [p \in Providers |-> Absent]
  /\ signedIn = {[id |-> Local, account |-> Local, idp |-> Absent, sid |-> Absent]} /\ claimed = {} /\ clock = 0
  /\ callback = [c \in Callbacks |-> Resting]
  /\ notice = [n \in Notices |-> Unheard]
  /\ completed = {} /\ vouched = {}

BrokerNext ==
  \/ TimePasses
  \/ \E s \in Starts : Start(s)
  \/ \E c \in Callbacks : Find(c) \/ Consume(c) \/ Exchange(c) \/ Look(c) \/ Link(c) \/ SignIn(c)
  \/ \E p \in Providers : Unlink(p)
  \/ \E n \in Notices : Accept(n) \/ FindIdentity(n) \/ List(n) \/ EndSession(n)

BrokerSpec == BrokerInit /\ [][BrokerNext]_brokerVars

-----------------------------------------------------------------------------
(* Properties. *)

BrokerTypeOK ==
  /\ \A s \in Starts : handoffs[s] # Absent => handoffs[s].provider \in Providers
  /\ identities \in [Providers -> Accounts \cup {Absent}]
  /\ signedIn \subseteq [id : Accounts, account : Accounts, idp : Providers \cup {Absent}, sid : Sids \cup {Absent}]
  /\ \A c \in Callbacks : callback[c].pc \in {"link", "signIn"} => callback[c].account \in Accounts

\* A handoff completes once and in the browser that began it, however often its
\* callback URL is opened and by whom (broker.ts:262-276).
HandoffOnce ==
  \A a, b \in completed : a[3] = a[4] /\ (a[1] = b[1] => a = b)

\* Nobody is signed in to somebody else's account: a session from an upstream is
\* on an account made for an identity of that upstream, or, if the host links by
\* verified addresses, on one whose very address that upstream has verified.
NoTakeover ==
  \A s \in signedIn : s.idp # Absent =>
    IF s.account = Local THEN policy = "verified-email" /\ s.idp \in vouched
    ELSE callback[s.account].provider = s.idp

\* What signs somebody in was issued for the very handoff the callback completes, also
\* when the redirect's parameters are another tab's (core/src/flow.ts:61-68).
AnsweredHere == \A c \in Callbacks : callback[c].of # Absent => callback[c].of = callback[c].state

\* An upstream that does not answer is never told as a refusal, nor a refusal as an
\* outage, but for an ID token with another nonce, or none at all: checkNonce returns its
\* error alone (flow.ts:64-66), so the token by which upstreamFailure would know it is gone
\* (broker.ts:81-86).
ToldApart ==
  \A p \in Providers, s \in Starts : \A a \in Possible(p, s) :
    LET down == ~a.up \/ (a.code # Absent /\ IssuerMatches(p, a) /\ a.reply = "silent") IN
    ~a.error =>
      /\ down => Ending(p, s, a) = "temporarily_unavailable"
      /\ Ending(p, s, a) = "temporarily_unavailable" => down \/ a.reply \in {"bare"} \cup (Starts \ {s})

\* Together: how a leg ends is what the upstream, and nobody else, said to this handoff.
LegsEndRight == NoTakeover /\ AnsweredHere /\ ToldApart

\* A logout token is accepted again only in the last second of its life, MaxAge
\* after it was issued: the claim, made in the first, has just run out (logout.ts:30, 52).
AcceptedOnceInside ==
  \A m, n \in Notices :
    m # n /\ notice[m].token # Absent /\ notice[m].token = notice[n].token
    => notice[m].token.iat + MaxAge \in {notice[m].at, notice[n].at}

\* What an upstream sends is accepted once: an answer to a handoff, and, but for that second,
\* a logout token.
EachOnce == HandoffOnce /\ AcceptedOnceInside

\* A session is of those a logout call is about: the upstream opened it, under the sid its token
\* gives or, without one, for the account its subject was linked to when the call looked.
About(n, s) ==
  LET t == notice[n].token IN
  s.idp = t.provider /\ (IF t.sid # Absent THEN s.sid = t.sid ELSE s.account = notice[n].account)

\* Only what a logout call is about ends.
EndsItsOwn == \A s \in signedIn \ signedIn' : \E n \in Notices : notice[n].pc = "end" /\ About(n, s)

\* A call that is over has ended all of that, but for sessions stored after it listed them.
EndsAll == \A n \in Notices : notice[n].pc = "end" /\ notice'[n].pc = "done" =>
  \A s \in notice[n].before : About(n, s) => s \notin signedIn

\* An upstream ends only sessions it opened, however many carry the sid or are on the account,
\* and then every one there was when they were listed, whoever signs in, unlinks or ends
\* sessions meanwhile; one stored after that stays (broker/logout.ts:55-68).
LogoutExact == [][EndsItsOwn /\ EndsAll]_brokerVars
================================================================================
