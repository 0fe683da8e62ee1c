---------------------------- MODULE Authorize_proofs ----------------------------
(* What Authorize's invariants rest on, and that they hold for every value of *)
(* its constants.                                                             *)
EXTENDS Authorize, FiniteSetTheorems, TLAPS

-----------------------------------------------------------------------------
(* The inductive invariant. *)

VisitPcs == {"idle", "reference", "resolve", "delivery", "deliver", "delivered", "refused",
             "session", "grant", "approval", "spend", "issue", "issued", "suspend", "suspended",
             "answered"}
VisitState == [pc : VisitPcs, url : Url \cup {None}, cookie : SessionIds \cup {None},
               account : Accounts \cup {None}, grant : Grant \cup {None}]

CompletionPcs == {"idle", "consume", "refused", "decline", "respond", "login", "consent",
                  "upsert", "approve", "destroy", "push", "done", "stopped"}
CompletionState == [pc : CompletionPcs, interaction : Visits \cup {None},
                    seen : Interaction \cup {None}, outcome : Outcome \cup {None},
                    account : Accounts \cup {None}, grant : Grant \cup {None}]

\* What a visit and a completion have by the time they are where they are.
Kept ==
  /\ visit \in [Visits -> VisitState] /\ completion \in [Completions -> CompletionState]
  /\ \A v \in Visits :
       /\ IF visit[v].pc = "idle" THEN visit[v].url = None ELSE visit[v].url \in links
       /\ visit[v].pc \in {"reference", "resolve"} => visit[v].url.push # None
       /\ visit[v].pc \in {"delivery", "deliver"} => visit[v].url.response # None
       /\ visit[v].pc \in {"grant", "approval", "spend", "issue", "issued"} => visit[v].account # None
       /\ visit[v].pc \in {"approval", "spend"} => DetailsOf[RequestOf(v)] # None
  /\ \A c \in Completions :
       /\ completion[c].pc # "idle" => /\ completion[c].interaction \in Visits
                                       /\ completion[c].seen \in Interaction
                                       /\ completion[c].outcome \in Outcome
       /\ completion[c].pc = "login" => completion[c].outcome.login # None
       /\ completion[c].pc \in {"consent", "upsert"} => completion[c].outcome.consent # None
       /\ completion[c].pc \in {"upsert", "approve"} => completion[c].account # None
       /\ completion[c].pc = "approve" => DetailsAnswered(c) # None

\* Where a URL comes from: a stored response has one of its own, and a completion sends its
\* browser back once, when it is done, asking nothing more if somebody has signed in.
Linked ==
  \A u \in links :
    /\ u.response # None => u.push = None
    /\ u.from # None => completion[u.from].pc = "done"
    /\ u.from # None => (completion[u.from].outcome.login # None => u.asks = {})

\* What has been taken is marked as consumed, and nobody else's.
Past(v) == visit[v].pc \notin Entering \cup {"idle", "refused"}
Taken ==
  /\ \A c \in Completions : Accepted(c) => <<"interaction", completion[c].interaction>> \in consumed
  /\ \A c, d \in Completions :
       Accepted(c) /\ Accepted(d) /\ completion[c].interaction = completion[d].interaction => c = d
  /\ \A v \in Visits : Past(v) =>
       /\ visit[v].url.push # None => <<"push", visit[v].url.push>> \in consumed
       /\ visit[v].url.response # None => <<"response", visit[v].url.response>> \in consumed
  /\ \A v, w \in Visits : Past(v) /\ Past(w) /\ v # w =>
       /\ visit[v].url.push # None => visit[v].url.push # visit[w].url.push
       /\ visit[v].url.response # None => visit[v].url.response # visit[w].url.response

\* Nobody's consent, stored or remembered, goes beyond what was allowed, and a code is
\* the visit's that has issued it.
Covered(g) == \A s \in g.scopes : <<g.account, g.client, s>> \in given
CodeOf(v) == [id |-> v, account |-> visit[v].account, request |-> RequestOf(v),
              grant |-> visit[v].grant.id]
Allowed ==
  /\ \A g \in grants : Covered(g)
  /\ \A v \in Visits :
       /\ visit[v].pc \in {"approval", "spend", "issue", "issued"} /\ visit[v].grant # None =>
            /\ visit[v].grant.account = visit[v].account
            /\ visit[v].grant.client = ClientOf[RequestOf(v)]
            /\ Covered(visit[v].grant)
       /\ visit[v].pc \in {"spend", "issue", "issued"} => ~Missing(v, visit[v].grant)
  /\ \A c \in Completions :
       /\ completion[c].pc = "upsert" /\ completion[c].grant # None =>
            /\ completion[c].grant.account = completion[c].account
            /\ completion[c].grant.client = ClientOf[RequestAnswered(c)]
            /\ Covered(completion[c].grant)
       /\ completion[c].pc = "consume" => completion[c].account = completion[c].seen.account
       /\ completion[c].pc \in {"consent", "upsert", "approve"} =>
            completion[c].account = Consenting(c)
  /\ \A code \in codes : visit[code.id].pc = "issued" /\ code = CodeOf(code.id)

\* A completion that signs somebody in has started the session before it goes on, and
\* hands its cookie out at its end.
Entered ==
  /\ \A c \in Completions :
       /\ c \in handed => /\ completion[c].pc = "done" /\ completion[c].outcome.login # None
                          /\ sessions[c] # None
       /\ /\ completion[c].pc \in {"consent", "upsert", "approve", "destroy", "push"}
          /\ completion[c].outcome.login # None
          => sessions[c] # None
  /\ LoginSticks

\* Each vote lets one visit past the approval of its details: those that are past it, and
\* the approval if it can still be spent, are no more than the votes.
Standing(k) == approvals[k] # None /\ (spent[k] # None => spent[k] < approvals[k])
Holders(k) ==
  {v \in Visits : /\ visit[v].pc \in {"issue", "issued"} /\ DetailsOf[RequestOf(v)] # None
                  /\ KeyOf(visit[v].account, RequestOf(v)) = k}
Counted ==
  /\ \A vote \in votes : completion[vote[1]].pc \in {"destroy", "push", "done"}
  /\ \A k \in Keys :
       /\ approvals[k] # None => approvals[k] < Forever
       /\ IsFiniteSet(Votes(k)) /\ IsFiniteSet(Holders(k))
       /\ Cardinality(Holders(k)) + (IF Standing(k) THEN 1 ELSE 0) <= Cardinality(Votes(k))

IInv == TypeOK /\ Kept /\ Linked /\ Taken /\ Allowed /\ Entered /\ Counted

-----------------------------------------------------------------------------
(* What a step does, in plain terms. *)

AloneV(v) == \A w \in Visits : w # v => visit'[w] = visit[w]
AloneC(c) == \A d \in Completions : d # c => completion'[d] = completion[d]
SameUrl(v) == visit'[v].url = visit[v].url /\ visit'[v].cookie = visit[v].cookie
SameVisit(v) == SameUrl(v) /\ visit'[v].account = visit[v].account /\ visit'[v].grant = visit[v].grant
SameSeen(c) ==
  /\ completion'[c].interaction = completion[c].interaction
  /\ completion'[c].seen = completion[c].seen /\ completion'[c].outcome = completion[c].outcome
SameCompletion(c) ==
  SameSeen(c) /\ completion'[c].account = completion[c].account /\ completion'[c].grant = completion[c].grant

\* What a visit never changes, and what only some of its steps do.
Elsewhere == UNCHANGED <<world, browsers, consents, pushes, responses, approvals, history, completion>>
Marks == UNCHANGED <<spent, codes, interactions>>
Quiet == Marks /\ UNCHANGED consumed

Arrives(v) ==
  /\ visit[v].pc = "idle" /\ Quiet
  /\ visit'[v].url \in links /\ visit'[v].cookie \in handed \cup {None}
  /\ visit'[v].account = visit[v].account /\ visit'[v].grant = visit[v].grant
  /\ visit'[v].url.response # None => visit'[v].pc = "delivery"
  /\ visit'[v].url.response = None /\ visit'[v].url.push # None => visit'[v].pc = "reference"
  /\ visit'[v].url.response = None /\ visit'[v].url.push = None =>
       visit'[v].pc \in {"refused", "answered", "session"}

\* The reference or the stored response is found, and taken.
Enters(v) ==
  /\ SameVisit(v) /\ Marks
  /\ \/ /\ visit[v].pc \in {"reference", "resolve", "delivery", "deliver"}
        /\ visit'[v].pc = "refused" /\ UNCHANGED consumed
     \/ visit[v].pc = "reference" /\ visit'[v].pc = "resolve" /\ UNCHANGED consumed
     \/ visit[v].pc = "delivery" /\ visit'[v].pc = "deliver" /\ UNCHANGED consumed
     \/ /\ visit[v].pc = "resolve" /\ visit'[v].pc \in {"refused", "answered", "session"}
        /\ <<"push", visit[v].url.push>> \notin consumed /\ Consume("push", visit[v].url.push)
     \/ /\ visit[v].pc = "deliver" /\ visit'[v].pc = "delivered"
        /\ <<"response", visit[v].url.response>> \notin consumed
        /\ Consume("response", visit[v].url.response)

Signs(v) ==
  /\ visit[v].pc = "session" /\ SameUrl(v) /\ visit'[v].grant = visit[v].grant /\ Quiet
  /\ \/ visit'[v].pc = "grant" /\ visit'[v].account # None
     \/ visit'[v].pc = "answered"
     \/ /\ visit'[v].pc = "suspend"
        /\ visit[v].cookie = None \/ sessions[visit[v].cookie] = None \/ Asked(v) # {}

Consults(v) ==
  /\ visit[v].pc = "grant" /\ SameUrl(v) /\ visit'[v].account = visit[v].account /\ Quiet
  /\ visit'[v].grant \in FoundConsent(visit[v].account, ClientOf[RequestOf(v)])
  /\ \/ visit'[v].pc \in {"answered", "suspend"}
     \/ visit'[v].pc = "approval" /\ DetailsOf[RequestOf(v)] # None
     \/ /\ visit'[v].pc = "issue" /\ DetailsOf[RequestOf(v)] = None
        /\ ~Missing(v, visit'[v].grant)

\* From the approval on, a visit knows its account and its grant.
Finishes(v) ==
  /\ SameVisit(v) /\ UNCHANGED consumed
  /\ \/ visit[v].pc = "approval" /\ visit'[v].pc \in {"answered", "suspend"} /\ Marks
     \/ /\ visit[v].pc = "approval" /\ visit'[v].pc = "spend" /\ ~Missing(v, visit[v].grant)
        /\ Marks
     \/ visit[v].pc = "spend" /\ visit'[v].pc = "suspend" /\ Marks
     \/ visit[v].pc = "spend" /\ visit'[v].pc = "issue" /\ UNCHANGED <<codes, interactions>>
        /\ LET k == KeyOf(visit[v].account, RequestOf(v))
           IN /\ Spendable(k)
              /\ spent' = [spent EXCEPT ![k] = IF backend = "kv" THEN approvals[k] ELSE Forever]
     \/ /\ visit[v].pc = "suspend" /\ visit'[v].pc = "suspended" /\ UNCHANGED <<codes, spent>>
        /\ interactions' = [interactions EXCEPT ![v] =
             [url |-> visit[v].url, account |-> visit[v].account, expires |-> now + Ttl]]
     \/ /\ visit[v].pc = "issue" /\ visit'[v].pc = "issued" /\ UNCHANGED <<spent, interactions>>
        /\ codes' = codes \cup {CodeOf(v)}

VisitMoves(v) ==
  /\ visit' \in [Visits -> VisitState] /\ AloneV(v) /\ Elsewhere
  /\ Arrives(v) \/ Enters(v) \/ Signs(v) \/ Consults(v) \/ Finishes(v)

\* What `visit' = [visit EXCEPT ![v] = x]` comes to.
LEMMA VisitBecomes ==
  ASSUME Kept, NEW v \in Visits, NEW x \in VisitState, visit' = [visit EXCEPT ![v] = x]
  PROVE  visit' \in [Visits -> VisitState] /\ visit'[v] = x /\ AloneV(v)
  BY DEF Kept, AloneV

\* What VisitAt leaves alone.
LEMMA VisitAtFields ==
  ASSUME Kept, NEW v \in Visits, NEW pc \in VisitPcs, VisitAt(v, pc)
  PROVE  visit' \in [Visits -> VisitState] /\ visit'[v].pc = pc /\ SameVisit(v) /\ AloneV(v)
<1> DEFINE x == [visit[v] EXCEPT !.pc = pc]
<1>1. visit[v] \in VisitState
  BY DEF Kept
<1>2. x \in VisitState /\ x.pc = pc /\ x.url = visit[v].url /\ x.cookie = visit[v].cookie
      /\ x.account = visit[v].account /\ x.grant = visit[v].grant
  BY <1>1 DEF VisitState
<1>3. visit' = [visit EXCEPT ![v] = x]
  BY DEF VisitAt
<1> HIDE DEF x
<1>. QED BY <1>2, <1>3, VisitBecomes DEF SameVisit, SameUrl

LEMMA ReceivedPcs ==
  ASSUME NEW r, NEW byReference
  PROVE  Received(r, byReference) \in {"refused", "answered", "session"}
  BY DEF Received

\* A URL's fields.
LEMMA UrlFields ==
  ASSUME NEW u \in Url
  PROVE  /\ u.request \in Requests /\ u.asks \in SUBSET Asks /\ u.push \in PushIds \cup {None}
         /\ u.response \in Completions \cup {None} /\ u.from \in Completions \cup {None}
  BY DEF Url

\* What a visit knows by where it is.
LEMMA VisitKnows ==
  ASSUME TypeOK, Kept, NEW v \in Visits, visit[v].pc # "idle"
  PROVE  /\ visit[v].url \in Url /\ visit[v].url \in links
         /\ RequestOf(v) \in Requests /\ ClientOf[RequestOf(v)] \in Clients
         /\ visit[v].cookie \in SessionIds \cup {None} /\ visit[v].cookie \in handed \cup {None}
         /\ visit[v].account \in Accounts \cup {None} /\ visit[v].grant \in Grant \cup {None}
<1>1. visit[v] \in VisitState /\ visit[v].url \in links
  BY DEF Kept
<1>2. links \subseteq Url /\ visit[v].cookie \in handed \cup {None}
  BY <1>1 DEF TypeOK
<1>. QED BY <1>1, <1>2, UrlFields, AuthorizeAssumption DEF VisitState, RequestOf

LEMMA ArriveMoves ==
  ASSUME TypeOK, Kept, NEW v \in Visits, NEW u \in links, NEW s \in handed \cup {None},
         Arrive(v, u, s)
  PROVE  VisitMoves(v)
<1> DEFINE received == Received(u.request, FALSE)
           pc == IF u.response # None THEN "delivery"
                 ELSE IF u.push # None THEN "reference" ELSE received
           x == [visit[v] EXCEPT !.url = u, !.cookie = s, !.pc = pc]
<1>1. visit[v] \in VisitState /\ visit[v].pc = "idle"
  BY DEF Kept, Arrive
<1>2. u \in Url /\ s \in SessionIds \cup {None}
  BY DEF TypeOK
<1>a. received \in {"refused", "answered", "session"}
  BY ReceivedPcs
<1> HIDE DEF received
<1>3. /\ u.response # None => pc = "delivery"
      /\ u.response = None /\ u.push # None => pc = "reference"
      /\ u.response = None /\ u.push = None => pc \in {"refused", "answered", "session"}
  BY <1>a
<1>4. pc \in VisitPcs
  BY <1>3 DEF VisitPcs
<1>5. visit' = [visit EXCEPT ![v] = x]
  BY DEF Arrive, received
<1> HIDE DEF pc
<1>6. x \in VisitState /\ x.pc = pc /\ x.url = u /\ x.cookie = s
      /\ x.account = visit[v].account /\ x.grant = visit[v].grant
  BY <1>1, <1>2, <1>4 DEF VisitState
<1> HIDE DEF x
<1>7. visit' \in [Visits -> VisitState] /\ visit'[v] = x /\ AloneV(v)
  BY <1>5, <1>6, VisitBecomes
<1>8. Elsewhere /\ Quiet
  BY DEF Arrive, Reads, Elsewhere, Quiet, Marks, stored, consents, artifacts, details
<1>. QED BY <1>1, <1>3, <1>6, <1>7, <1>8 DEF VisitMoves, Arrives

LEMMA EnterMoves ==
  ASSUME TypeOK, Kept, NEW v \in Visits,
         FindPushed(v) \/ ResolvePushed(v) \/ FindResponse(v) \/ DeliverResponse(v)
  PROVE  VisitMoves(v)
<1>1. ASSUME NEW pc \in {"resolve", "deliver", "refused", "answered", "session", "delivered"},
             VisitAt(v, pc)
      PROVE  visit' \in [Visits -> VisitState] /\ visit'[v].pc = pc /\ SameVisit(v) /\ AloneV(v)
  BY <1>1, VisitAtFields DEF VisitPcs
<1>2. CASE FindPushed(v)
  <2>1. Elsewhere /\ Quiet
    BY <1>2 DEF FindPushed, Reads, Elsewhere, Quiet, Marks, stored, consents, artifacts, details
  <2>2. PICK pc \in {"resolve", "refused"} : VisitAt(v, pc)
    BY <1>2 DEF FindPushed
  <2>. QED BY <1>1, <1>2, <2>1, <2>2 DEF FindPushed, VisitMoves, Enters, Quiet
<1>3. CASE ResolvePushed(v)
  <2>1. Elsewhere /\ Marks
    BY <1>3 DEF ResolvePushed, Elsewhere, Marks, consents, details
  <2>2. CASE Consumable("push", visit[v].url.push, pushes[visit[v].url.push])
    <3>1. Consume("push", visit[v].url.push) /\ VisitAt(v, Received(RequestOf(v), TRUE))
      BY <1>3, <2>2 DEF ResolvePushed
    <3>. QED BY <1>1, <1>3, <2>1, <2>2, <3>1, ReceivedPcs
            DEF ResolvePushed, VisitMoves, Enters, Consumable
  <2>3. CASE UNCHANGED consumed /\ VisitAt(v, "refused")
    BY <1>1, <1>3, <2>1, <2>3 DEF ResolvePushed, VisitMoves, Enters
  <2>. QED BY <1>3, <2>2, <2>3 DEF ResolvePushed
<1>4. CASE FindResponse(v)
  <2>1. Elsewhere /\ Quiet
    BY <1>4 DEF FindResponse, Reads, Elsewhere, Quiet, Marks, stored, consents, artifacts, details
  <2>2. PICK pc \in {"deliver", "refused"} : VisitAt(v, pc)
    BY <1>4 DEF FindResponse
  <2>. QED BY <1>1, <1>4, <2>1, <2>2 DEF FindResponse, VisitMoves, Enters, Quiet
<1>5. CASE DeliverResponse(v)
  <2>1. Elsewhere /\ Marks
    BY <1>5 DEF DeliverResponse, Elsewhere, Marks, consents, details
  <2>2. CASE Consumable("response", visit[v].url.response, responses[visit[v].url.response])
    <3>1. Consume("response", visit[v].url.response) /\ VisitAt(v, "delivered")
      BY <1>5, <2>2 DEF DeliverResponse
    <3>. QED BY <1>1, <1>5, <2>1, <2>2, <3>1 DEF DeliverResponse, VisitMoves, Enters, Consumable
  <2>3. CASE UNCHANGED consumed /\ VisitAt(v, "refused")
    BY <1>1, <1>5, <2>1, <2>3 DEF DeliverResponse, VisitMoves, Enters
  <2>. QED BY <1>5, <2>2, <2>3 DEF DeliverResponse
<1>. QED BY <1>2, <1>3, <1>4, <1>5

LEMMA SessionMoves ==
  ASSUME TypeOK, Kept, NEW v \in Visits, NEW measured \in BOOLEAN, ReadSession(v, measured)
  PROVE  VisitMoves(v)
<1> DEFINE a == IF visit[v].cookie = None THEN None ELSE sessions[visit[v].cookie]
           needsLogin == a = None \/ "login" \in Asked(v) \/ ("measure" \in Asked(v) /\ ~measured)
           account == IF needsLogin THEN None ELSE a
           pc == IF ~needsLogin THEN "grant"
                 ELSE IF "none" \in Asked(v) THEN "answered" ELSE "suspend"
           x == [visit[v] EXCEPT !.account = account, !.pc = pc]
<1>1. visit[v] \in VisitState /\ visit[v].pc = "session"
  BY DEF Kept, ReadSession
<1>2. a \in Accounts \cup {None}
  BY <1>1, VisitKnows DEF TypeOK
<1>3. \/ pc = "grant" /\ account # None
      \/ pc = "answered"
      \/ pc = "suspend" /\ (a = None \/ Asked(v) # {})
  OBVIOUS
<1>4. visit' = [visit EXCEPT ![v] = x]
  BY DEF ReadSession
<1>5. account \in Accounts \cup {None} /\ pc \in VisitPcs
  BY <1>2, <1>3 DEF VisitPcs
<1> HIDE DEF pc, account
<1>6. x \in VisitState /\ x.pc = pc /\ x.url = visit[v].url /\ x.cookie = visit[v].cookie
      /\ x.account = account /\ x.grant = visit[v].grant
  BY <1>1, <1>5 DEF VisitState
<1> HIDE DEF x
<1>7. visit' \in [Visits -> VisitState] /\ visit'[v] = x /\ AloneV(v)
  BY <1>4, <1>6, VisitBecomes
<1>8. Elsewhere /\ Quiet
  BY DEF ReadSession, Reads, Elsewhere, Quiet, Marks, stored, consents, artifacts, details
<1>. QED BY <1>1, <1>3, <1>6, <1>7, <1>8 DEF VisitMoves, Signs, SameUrl

\* A consent that is found, or the lack of one.
LEMMA ConsentFound ==
  ASSUME TypeOK, NEW a, NEW c, NEW g \in FoundConsent(a, c)
  PROVE  /\ g \in Grant \cup {None}
         /\ g # None => g \in grants /\ g.account = a /\ g.client = c
  BY DEF TypeOK, FoundConsent, Consents

LEMMA VerdictPcs ==
  ASSUME NEW v, NEW outstanding \in BOOLEAN
  PROVE  \/ Verdict(v, outstanding) \in {"answered", "suspend"}
         \/ Verdict(v, outstanding) = "spend" /\ ~outstanding /\ DetailsOf[RequestOf(v)] # None
         \/ Verdict(v, outstanding) = "issue" /\ ~outstanding /\ DetailsOf[RequestOf(v)] = None
  BY DEF Verdict

LEMMA GrantMoves ==
  ASSUME TypeOK, Kept, NEW v \in Visits, FindGrant(v)
  PROVE  VisitMoves(v)
<1>1. visit[v] \in VisitState /\ visit[v].pc = "grant"
  BY DEF Kept, FindGrant
<1>2. PICK g \in FoundConsent(visit[v].account, ClientOf[RequestOf(v)]) :
        visit' = [visit EXCEPT ![v] =
          [@ EXCEPT !.grant = g,
                    !.pc = IF DetailsOf[RequestOf(v)] # None THEN "approval"
                           ELSE Verdict(v, Missing(v, g))]]
  BY DEF FindGrant
<1> DEFINE missing == Missing(v, g)
           verdict == Verdict(v, missing)
           pc == IF DetailsOf[RequestOf(v)] # None THEN "approval" ELSE verdict
           x == [visit[v] EXCEPT !.grant = g, !.pc = pc]
<1>3. g \in Grant \cup {None}
  BY <1>2, ConsentFound
<1>4. missing \in BOOLEAN
  BY DEF Missing
<1> HIDE DEF missing
<1>5. \/ verdict \in {"answered", "suspend"}
      \/ verdict = "spend" /\ DetailsOf[RequestOf(v)] # None
      \/ verdict = "issue" /\ ~missing
  BY <1>4, VerdictPcs
<1>6. visit' = [visit EXCEPT ![v] = x]
  BY <1>2 DEF missing
<1> HIDE DEF verdict
<1>7. \/ pc \in {"answered", "suspend"}
      \/ pc = "approval" /\ DetailsOf[RequestOf(v)] # None
      \/ pc = "issue" /\ DetailsOf[RequestOf(v)] = None /\ ~missing
  BY <1>5
<1>8. pc \in VisitPcs
  BY <1>7 DEF VisitPcs
<1> HIDE DEF pc
<1>9. x \in VisitState /\ x.pc = pc /\ x.url = visit[v].url /\ x.cookie = visit[v].cookie
      /\ x.account = visit[v].account /\ x.grant = g
  BY <1>1, <1>3, <1>8 DEF VisitState
<1> HIDE DEF x
<1>10. visit' \in [Visits -> VisitState] /\ visit'[v] = x /\ AloneV(v)
  BY <1>6, <1>9, VisitBecomes
<1>11. Elsewhere /\ Quiet
  BY DEF FindGrant, Reads, Elsewhere, Quiet, Marks, stored, consents, artifacts, details
<1>. QED BY <1>1, <1>2, <1>7, <1>9, <1>10, <1>11 DEF VisitMoves, Consults, SameUrl, missing

LEMMA FinishMoves ==
  ASSUME TypeOK, Kept, NEW v \in Visits,
         FindApproval(v) \/ SpendApproval(v) \/ Suspend(v) \/ IssueCode(v)
  PROVE  VisitMoves(v)
<1>1. ASSUME NEW pc \in {"answered", "suspend", "spend", "issue", "suspended", "issued"},
             VisitAt(v, pc)
      PROVE  visit' \in [Visits -> VisitState] /\ visit'[v].pc = pc /\ SameVisit(v) /\ AloneV(v)
  BY <1>1, VisitAtFields DEF VisitPcs
<1>2. CASE FindApproval(v)
  <2> DEFINE outstanding == \/ Missing(v, visit[v].grant)
                            \/ ~Live(approvals[KeyOf(visit[v].account, RequestOf(v))])
             verdict == Verdict(v, outstanding)
  <2>1. Elsewhere /\ Quiet
    BY <1>2 DEF FindApproval, Reads, Elsewhere, Quiet, Marks, stored, consents, artifacts, details
  <2>2. outstanding \in BOOLEAN /\ (~outstanding => ~Missing(v, visit[v].grant))
    BY DEF Missing
  <2>3. visit[v].pc = "approval" /\ VisitAt(v, verdict) /\ DetailsOf[RequestOf(v)] # None
    BY <1>2 DEF FindApproval, Kept
  <2> HIDE DEF outstanding
  <2>4. verdict \in {"answered", "suspend"} \/ (verdict = "spend" /\ ~Missing(v, visit[v].grant))
    BY <2>2, <2>3, VerdictPcs
  <2> HIDE DEF verdict
  <2>. QED BY <1>1, <2>1, <2>3, <2>4 DEF VisitMoves, Finishes, Quiet
<1>3. CASE SpendApproval(v)
  <2> DEFINE k == KeyOf(visit[v].account, RequestOf(v))
  <2>1. Elsewhere /\ UNCHANGED <<codes, interactions, consumed>> /\ visit[v].pc = "spend"
    BY <1>3 DEF SpendApproval, Elsewhere, consents, artifacts
  <2>2. CASE /\ Spendable(k) /\ VisitAt(v, "issue")
             /\ spent' = [spent EXCEPT ![k] = IF backend = "kv" THEN approvals[k] ELSE Forever]
    BY <1>1, <2>1, <2>2 DEF VisitMoves, Finishes
  <2>3. CASE UNCHANGED spent /\ VisitAt(v, "suspend")
    BY <1>1, <2>1, <2>3 DEF VisitMoves, Finishes, Marks
  <2>. QED BY <1>3, <2>2, <2>3 DEF SpendApproval
<1>4. CASE Suspend(v)
  <2>1. Elsewhere /\ UNCHANGED <<consumed, codes, spent>>
    BY <1>4 DEF Suspend, Elsewhere, consents, details
  <2>. QED BY <1>1, <1>4, <2>1 DEF Suspend, VisitMoves, Finishes
<1>5. CASE IssueCode(v)
  <2>1. Elsewhere /\ UNCHANGED <<consumed, spent, interactions>>
    BY <1>5 DEF IssueCode, Elsewhere, consents, artifacts, details
  <2>. QED BY <1>1, <1>5, <2>1 DEF IssueCode, VisitMoves, Finishes, CodeOf
<1>. QED BY <1>2, <1>3, <1>4, <1>5

LEMMA VisitSteps ==
  ASSUME TypeOK, Kept, NEW v \in Visits, VisitStep(v)
  PROVE  VisitMoves(v)
  BY ArriveMoves, EnterMoves, SessionMoves, GrantMoves, FinishMoves DEF VisitStep

-----------------------------------------------------------------------------
(* The same of a completion. *)

Loads(c) ==
  /\ completion[c].pc = "idle" /\ completion'[c].pc \in {"consume", "refused"}
  /\ completion'[c].interaction \in Visits
  /\ completion'[c].seen = interactions[completion'[c].interaction] /\ completion'[c].seen \in Interaction
  /\ completion'[c].outcome \in Outcome /\ completion'[c].account = completion'[c].seen.account
  /\ UNCHANGED <<browsers, consents, artifacts, approvals, history>>

\* The interaction is the completion's to answer.
Takes(c) ==
  /\ completion[c].pc = "consume" /\ completion'[c].pc = AfterConsume(completion[c].outcome)
  /\ SameCompletion(c)
  /\ <<"interaction", completion[c].interaction>> \notin consumed
  /\ Consume("interaction", completion[c].interaction)
  /\ UNCHANGED <<browsers, consents, interactions, pushes, responses, approvals, history>>

Opens(c) ==
  /\ completion[c].pc = "login" /\ SameSeen(c) /\ completion'[c].grant = completion[c].grant
  /\ completion'[c].account = completion[c].outcome.login
  /\ completion'[c].pc = AfterLogin(completion[c].outcome)
  /\ sessions' = [sessions EXCEPT ![c] = completion[c].outcome.login]
  /\ UNCHANGED <<browsers, grants, artifacts, approvals, history>>

Recalls(c) ==
  /\ completion[c].pc = "consent" /\ completion'[c].pc = "upsert" /\ SameSeen(c)
  /\ completion[c].account # None /\ completion'[c].account = completion[c].account
  /\ completion'[c].grant \in FoundConsent(completion[c].account, ClientOf[RequestAnswered(c)])
  /\ UNCHANGED <<browsers, consents, artifacts, approvals, history>>

Records(c) ==
  /\ completion[c].pc = "upsert" /\ SameCompletion(c)
  /\ completion'[c].pc = IF DetailsAnswered(c) # None THEN "approve" ELSE "destroy"
  /\ grants' = {g \in grants : g.id # Accumulated(c).id} \cup {Accumulated(c)}
  /\ given' = given \cup Gives(c)
  /\ UNCHANGED <<browsers, sessions, artifacts, approvals, votes>>

Approves(c) ==
  /\ completion[c].pc = "approve" /\ completion'[c].pc = "destroy" /\ SameCompletion(c)
  /\ approvals' = [approvals EXCEPT ![KeyOf(completion[c].account, RequestAnswered(c))] = now + Ttl]
  /\ votes' = votes \cup {<<c, KeyOf(Consenting(c), RequestAnswered(c))>>}
  /\ UNCHANGED <<browsers, consents, artifacts, given>>

\* The steps that touch nothing but an interaction and a stored response.
Passes(c) ==
  /\ SameCompletion(c) /\ UNCHANGED <<handed, consents, pushes, consumed, approvals, history>>
  /\ \/ /\ <<completion[c].pc, completion'[c].pc>> \in
             {<<"consume", "refused">>, <<"consent", "stopped">>, <<"upsert", "stopped">>}
        /\ UNCHANGED <<links, interactions, responses>>
     \/ /\ <<completion[c].pc, completion'[c].pc>> \in {<<"decline", "respond">>, <<"destroy", "push">>}
        /\ interactions' = [interactions EXCEPT ![completion[c].interaction] = None]
        /\ UNCHANGED <<links, responses>>
     \/ /\ completion[c].pc = "respond" /\ completion'[c].pc = "done"
        /\ responses' = [responses EXCEPT ![c] = now + Ttl]
        /\ links' = links \cup {[request |-> RequestAnswered(c), asks |-> {}, push |-> None,
                                 response |-> c, from |-> c]}
        /\ UNCHANGED interactions

Returns(c) ==
  /\ completion'[c].pc = "done" /\ SameCompletion(c)
  /\ links' = links \cup {Resumed(c)}
  /\ handed' = IF completion[c].outcome.login # None THEN handed \cup {c} ELSE handed
  /\ UNCHANGED <<consents, responses, consumed, approvals, history>>
  /\ \/ /\ completion[c].pc = "destroy" /\ UNCHANGED pushes
        /\ interactions' = [interactions EXCEPT ![completion[c].interaction] = None]
     \/ /\ completion[c].pc = "push" /\ UNCHANGED interactions
        /\ pushes' = [pushes EXCEPT ![c] = now + Ttl]

CompletionMoves(c) ==
  /\ completion' \in [Completions -> CompletionState] /\ AloneC(c)
  /\ UNCHANGED <<world, spent, codes, visit>>
  /\ \/ Loads(c) \/ Takes(c) \/ Opens(c) \/ Recalls(c) \/ Records(c) \/ Approves(c)
     \/ Passes(c) \/ Returns(c)

LEMMA CompletionBecomes ==
  ASSUME Kept, NEW c \in Completions, NEW x \in CompletionState,
         completion' = [completion EXCEPT ![c] = x]
  PROVE  completion' \in [Completions -> CompletionState] /\ completion'[c] = x /\ AloneC(c)
  BY DEF Kept, AloneC

LEMMA CompletionAtFields ==
  ASSUME Kept, NEW c \in Completions, NEW pc \in CompletionPcs, CompletionAt(c, pc)
  PROVE  completion' \in [Completions -> CompletionState]
         /\ completion'[c].pc = pc /\ SameCompletion(c) /\ AloneC(c)
<1> DEFINE x == [completion[c] EXCEPT !.pc = pc]
<1>1. completion[c] \in CompletionState
  BY DEF Kept
<1>2. x \in CompletionState /\ x.pc = pc /\ x.interaction = completion[c].interaction
      /\ x.seen = completion[c].seen /\ x.outcome = completion[c].outcome
      /\ x.account = completion[c].account /\ x.grant = completion[c].grant
  BY <1>1 DEF CompletionState
<1>3. completion' = [completion EXCEPT ![c] = x]
  BY DEF CompletionAt
<1> HIDE DEF x
<1>. QED BY <1>2, <1>3, CompletionBecomes DEF SameCompletion, SameSeen

\* What a completion knows by where it is.
LEMMA CompletionKnows ==
  ASSUME TypeOK, Kept, NEW c \in Completions, completion[c].pc # "idle"
  PROVE  /\ completion[c] \in CompletionState
         /\ completion[c].interaction \in Visits
         /\ completion[c].seen \in Interaction /\ completion[c].outcome \in Outcome
         /\ UrlOf(c) \in Url /\ RequestAnswered(c) \in Requests
         /\ ClientOf[RequestAnswered(c)] \in Clients
         /\ DetailsAnswered(c) \in Details \cup {None}
         /\ completion[c].seen.account \in Accounts \cup {None}
         /\ completion[c].outcome.login \in Accounts \cup {None}
         /\ completion[c].outcome.consent \in (SUBSET Scopes) \cup {None}
<1>1. completion[c] \in CompletionState
  BY DEF Kept
<1>2. /\ completion[c].interaction \in Visits /\ completion[c].seen \in Interaction
      /\ completion[c].outcome \in Outcome
  BY DEF Kept
<1>3. UrlOf(c) \in Url /\ completion[c].seen.account \in Accounts \cup {None}
  BY <1>2 DEF Interaction, UrlOf
<1>4. RequestAnswered(c) \in Requests
  BY <1>3, UrlFields DEF RequestAnswered
<1>5. /\ completion[c].outcome.login \in Accounts \cup {None}
      /\ completion[c].outcome.consent \in (SUBSET Scopes) \cup {None}
  BY <1>2 DEF Outcome
<1>. QED BY <1>1, <1>2, <1>3, <1>4, <1>5, AuthorizeAssumption DEF DetailsAnswered

LEMMA LoadMoves ==
  ASSUME TypeOK, Kept, NEW c \in Completions, NEW v \in Visits, NEW o \in Answers, Load(c, v, o)
  PROVE  CompletionMoves(c)
<1> DEFINE accepts == /\ Live(interactions[v].expires)
                      /\ o.consent # None /\ DetailsOf[interactions[v].url.request] # None
                           => o.details
           pc == IF accepts THEN "consume" ELSE "refused"
           seen == interactions[v]
           account == seen.account
           x == [completion[c] EXCEPT !.interaction = v, !.seen = seen, !.outcome = o,
                                      !.account = account, !.pc = pc]
<1>1. completion[c] \in CompletionState /\ completion[c].pc = "idle" /\ seen # None
  BY DEF Kept, Load
<1>2. seen \in Interaction
  BY <1>1 DEF TypeOK
<1>3. account \in Accounts \cup {None} /\ o \in Outcome
  BY <1>2, AuthorizeAssumption DEF Interaction
<1>4. completion' = [completion EXCEPT ![c] = x]
  BY Zenon DEF Load
<1>5. pc \in {"consume", "refused"} /\ pc \in CompletionPcs
  BY DEF CompletionPcs
<1> HIDE DEF pc, account, seen
<1>6. /\ x \in CompletionState /\ x.pc = pc /\ x.interaction = v /\ x.seen = seen /\ x.outcome = o
      /\ x.account = account
  BY <1>1, <1>2, <1>3, <1>5 DEF CompletionState
<1> HIDE DEF x
<1>7. completion' \in [Completions -> CompletionState] /\ completion'[c] = x /\ AloneC(c)
  BY <1>4, <1>6, CompletionBecomes
<1>8. UNCHANGED <<world, spent, codes, visit>> /\ UNCHANGED <<browsers, consents, artifacts, approvals, history>>
  BY DEF Load, stored, details
<1>. QED BY <1>1, <1>2, <1>3, <1>5, <1>6, <1>7, <1>8 DEF CompletionMoves, Loads, seen, account

LEMMA ConsumeMoves ==
  ASSUME TypeOK, Kept, NEW c \in Completions, ConsumeInteraction(c)
  PROVE  CompletionMoves(c)
<1>1. /\ completion[c].pc = "consume" /\ UNCHANGED <<world, spent, codes, visit>>
      /\ UNCHANGED <<browsers, consents, interactions, pushes, responses, approvals, history>>
  BY DEF ConsumeInteraction, details
<1>2. CASE UNCHANGED consumed /\ CompletionAt(c, "refused")
  <2>1. completion' \in [Completions -> CompletionState]
        /\ completion'[c].pc = "refused" /\ SameCompletion(c) /\ AloneC(c)
    BY <1>2, CompletionAtFields DEF CompletionPcs
  <2>. QED BY <1>1, <1>2, <2>1 DEF CompletionMoves, Passes, browsers
<1>3. CASE /\ Consumable("interaction", completion[c].interaction, interactions[completion[c].interaction].expires)
           /\ Consume("interaction", completion[c].interaction)
           /\ CompletionAt(c, AfterConsume(completion[c].outcome))
  <2>1. AfterConsume(completion[c].outcome) \in CompletionPcs
    BY DEF AfterConsume, AfterLogin, CompletionPcs
  <2>2. completion' \in [Completions -> CompletionState]
        /\ completion'[c].pc = AfterConsume(completion[c].outcome) /\ SameCompletion(c) /\ AloneC(c)
    BY <1>3, <2>1, CompletionAtFields
  <2>. QED BY <1>1, <1>3, <2>2 DEF CompletionMoves, Takes, Consumable
<1>. QED BY <1>2, <1>3 DEF ConsumeInteraction

LEMMA SessionStarts ==
  ASSUME TypeOK, Kept, NEW c \in Completions, StartSession(c)
  PROVE  CompletionMoves(c)
<1> DEFINE pc == AfterLogin(completion[c].outcome)
           login == completion[c].outcome.login
           x == [completion[c] EXCEPT !.account = login, !.pc = pc]
<1>1. completion[c] \in CompletionState /\ completion[c].pc = "login" /\ login \in Accounts \cup {None}
  BY CompletionKnows DEF StartSession
<1>2. pc \in CompletionPcs
  BY DEF AfterLogin, CompletionPcs
<1>3. completion' = [completion EXCEPT ![c] = x]
  BY DEF StartSession
<1>4. /\ sessions' = [sessions EXCEPT ![c] = login] /\ UNCHANGED <<world, spent, codes, visit>>
      /\ UNCHANGED <<browsers, grants, artifacts, approvals, history>>
  BY DEF StartSession, details
<1> HIDE DEF pc, login
<1>5. /\ x \in CompletionState /\ x.pc = pc /\ x.interaction = completion[c].interaction
      /\ x.seen = completion[c].seen /\ x.outcome = completion[c].outcome
      /\ x.account = login /\ x.grant = completion[c].grant
  BY <1>1, <1>2 DEF CompletionState
<1> HIDE DEF x
<1>6. completion' \in [Completions -> CompletionState] /\ completion'[c] = x /\ AloneC(c)
  BY <1>3, <1>5, CompletionBecomes
<1>. QED BY <1>1, <1>4, <1>5, <1>6 DEF CompletionMoves, Opens, SameSeen, pc, login

LEMMA ConsentMoves ==
  ASSUME TypeOK, Kept, NEW c \in Completions, FindConsent(c)
  PROVE  CompletionMoves(c)
<1>1. /\ completion[c] \in CompletionState /\ completion[c].pc = "consent"
      /\ UNCHANGED <<world, spent, codes, visit>>
      /\ UNCHANGED <<browsers, consents, artifacts, approvals, history>>
  BY CompletionKnows DEF FindConsent, stored, details
<1>2. CASE CompletionAt(c, "stopped")
  <2>1. completion' \in [Completions -> CompletionState]
        /\ completion'[c].pc = "stopped" /\ SameCompletion(c) /\ AloneC(c)
    BY <1>2, CompletionAtFields DEF CompletionPcs
  <2>. QED BY <1>1, <2>1 DEF CompletionMoves, Passes, browsers, artifacts
<1>3. ASSUME NEW g \in FoundConsent(completion[c].account, ClientOf[RequestAnswered(c)]),
             completion[c].account # None,
             completion' = [completion EXCEPT ![c] = [@ EXCEPT !.grant = g, !.pc = "upsert"]]
      PROVE  CompletionMoves(c)
  <2> DEFINE x == [completion[c] EXCEPT !.grant = g, !.pc = "upsert"]
  <2>1. g \in Grant \cup {None}
    BY <1>3, ConsentFound
  <2>2. /\ x \in CompletionState /\ x.pc = "upsert" /\ x.interaction = completion[c].interaction
        /\ x.seen = completion[c].seen /\ x.outcome = completion[c].outcome
        /\ x.account = completion[c].account /\ x.grant = g
    BY <1>1, <2>1 DEF CompletionState, CompletionPcs
  <2>3. completion' = [completion EXCEPT ![c] = x]
    BY <1>3
  <2> HIDE DEF x
  <2>4. completion' \in [Completions -> CompletionState] /\ completion'[c] = x /\ AloneC(c)
    BY <2>2, <2>3, CompletionBecomes
  <2>. QED BY <1>1, <1>3, <2>2, <2>4 DEF CompletionMoves, Recalls, SameSeen
<1>. QED BY <1>2, <1>3 DEF FindConsent

LEMMA AnswerMoves ==
  ASSUME TypeOK, Kept, NEW c \in Completions,
         \/ DestroyDeclined(c) \/ StoreResponse(c) \/ StoreConsent(c) \/ ApproveDetails(c)
         \/ DestroyInteraction(c) \/ PushAgain(c)
  PROVE  CompletionMoves(c)
<1>1. ASSUME NEW pc \in {"respond", "done", "stopped", "approve", "destroy", "push"},
             CompletionAt(c, pc)
      PROVE  completion' \in [Completions -> CompletionState]
             /\ completion'[c].pc = pc /\ SameCompletion(c) /\ AloneC(c)
  BY <1>1, CompletionAtFields DEF CompletionPcs
<1>2. CASE DestroyDeclined(c)
  BY <1>1, <1>2 DEF DestroyDeclined, CompletionMoves, Passes, browsers, details
<1>3. CASE StoreResponse(c)
  BY <1>1, <1>3 DEF StoreResponse, CompletionMoves, Passes, browsers, details
<1>4. CASE StoreConsent(c)
  <2>1. /\ completion[c].pc = "upsert" /\ UNCHANGED <<world, spent, codes, visit>>
        /\ UNCHANGED <<browsers, sessions, artifacts, approvals, votes>>
    BY <1>4 DEF StoreConsent, details
  <2>2. CASE CompletionAt(c, "stopped") /\ UNCHANGED <<grants, given>>
    BY <1>1, <2>1, <2>2 DEF CompletionMoves, Passes, browsers, consents, artifacts, history
  <2>3. CASE /\ grants' = {g \in grants : g.id # Accumulated(c).id} \cup {Accumulated(c)}
             /\ given' = given \cup Gives(c)
             /\ CompletionAt(c, IF DetailsAnswered(c) # None THEN "approve" ELSE "destroy")
    <3> DEFINE pc == IF DetailsAnswered(c) # None THEN "approve" ELSE "destroy"
    <3>1. CompletionAt(c, pc)
      BY <2>3
    <3>2. pc \in {"approve", "destroy"}
      OBVIOUS
    <3> HIDE DEF pc
    <3>3. completion' \in [Completions -> CompletionState]
          /\ completion'[c].pc = pc /\ SameCompletion(c) /\ AloneC(c)
      BY <1>1, <3>1, <3>2
    <3>. QED BY <2>1, <2>3, <3>3 DEF CompletionMoves, Records, pc
  <2>. QED BY <1>4, <2>2, <2>3 DEF StoreConsent
<1>5. CASE ApproveDetails(c)
  BY <1>1, <1>5 DEF ApproveDetails, CompletionMoves, Approves
<1>6. CASE DestroyInteraction(c)
  <2>1. CASE CompletionAt(c, "push") /\ UNCHANGED browsers
    BY <1>1, <1>6, <2>1 DEF DestroyInteraction, CompletionMoves, Passes, browsers, details
  <2>2. CASE Return(c)
    BY <1>1, <1>6, <2>2 DEF DestroyInteraction, Return, CompletionMoves, Returns, details
  <2>. QED BY <1>6, <2>1, <2>2 DEF DestroyInteraction
<1>7. CASE PushAgain(c)
  BY <1>1, <1>7 DEF PushAgain, Return, CompletionMoves, Returns, details
<1>. QED BY <1>2, <1>3, <1>4, <1>5, <1>6, <1>7

LEMMA CompletionSteps ==
  ASSUME TypeOK, Kept, NEW c \in Completions, CompletionStep(c)
  PROVE  CompletionMoves(c) /\ UNCHANGED visit
<1>1. CompletionMoves(c)
  BY LoadMoves, ConsumeMoves, SessionStarts, ConsentMoves, AnswerMoves DEF CompletionStep
<1>. QED BY <1>1 DEF CompletionMoves

-----------------------------------------------------------------------------
(* And of everything else. *)

Outside ==
  /\ UNCHANGED <<backend, sent, handed, sessions, interactions, responses, consumed, codes,
                 history, visit, completion>>
  /\ \/ UNCHANGED links
     \/ \E r \in Requests :
          links' = links \cup {[request |-> r, asks |-> AsksOf[r], push |-> r,
                                response |-> None, from |-> None]}
  /\ grants' \subseteq grants
  /\ \/ UNCHANGED details
     \/ \E k \in Keys : approvals' = [approvals EXCEPT ![k] = None] /\ spent' = [spent EXCEPT ![k] = None]
  /\ pushes' \in [PushIds -> Nat \cup {None}] /\ now' \in 0..MaxTime

LEMMA Steps ==
  ASSUME TypeOK, Kept, [Next]_vars
  PROVE  \/ \E v \in Visits : VisitMoves(v)
         \/ \E c \in Completions : CompletionMoves(c)
         \/ Outside
<1>1. now \in Nat /\ MaxTime \in Nat /\ Ttl \in Nat /\ now <= MaxTime
  BY AuthorizeAssumption DEF TypeOK
<1>2. pushes \in [PushIds -> Nat \cup {None}]
  BY DEF TypeOK
<1>3. ASSUME NEW r \in Requests, Push(r) PROVE Outside
  <2>1. r \in PushIds /\ now + Ttl \in Nat
    BY <1>1 DEF PushIds
  <2>2. pushes' \in [PushIds -> Nat \cup {None}]
    BY <1>2, <1>3, <2>1 DEF Push
  <2>3. now' \in 0..MaxTime
    BY <1>1, <1>3 DEF Push, world, TypeOK
  <2>. QED BY <1>3, <2>2, <2>3 DEF Push, Outside, world, consents
<1>4. ASSUME NEW v \in Visits, VisitStep(v) PROVE VisitMoves(v)
  BY <1>4, VisitSteps
<1>5. ASSUME NEW c \in Completions, CompletionStep(c) PROVE CompletionMoves(c)
  BY <1>5, CompletionSteps
<1>6. ASSUME NEW g \in grants, RevokeConsent(g) PROVE Outside
  BY <1>1, <1>2, <1>6 DEF RevokeConsent, Outside, world, browsers, artifacts, details
<1>7. ASSUME NEW k \in Keys, Prune(k) PROVE Outside
  <2>1. \E j \in Keys : approvals' = [approvals EXCEPT ![j] = None] /\ spent' = [spent EXCEPT ![j] = None]
    BY <1>7, Zenon DEF Prune
  <2>2. /\ UNCHANGED <<backend, sent, handed, sessions, interactions, responses, consumed, codes,
                      history, visit, completion>>
        /\ UNCHANGED <<links, grants, pushes, now>>
    BY <1>7 DEF Prune, world, browsers, artifacts, consents
  <2>3. pushes' \in [PushIds -> Nat \cup {None}] /\ now' \in 0..MaxTime /\ grants' \subseteq grants
    BY <1>1, <1>2, <2>2
  <2>. QED BY <2>1, <2>2, <2>3, Zenon DEF Outside
<1>8. CASE Tick
  BY <1>1, <1>2, <1>8 DEF Tick, Outside, browsers, stored, artifacts, consents
<1>9. CASE UNCHANGED vars
  BY <1>1, <1>2, <1>9 DEF vars, Outside, world, browsers, stored, artifacts, consents
<1>. QED BY <1>3, <1>4, <1>5, <1>6, <1>7, <1>8, <1>9 DEF Next

-----------------------------------------------------------------------------
(* Every part is kept by every step. *)

LEMMA KeptNext ==
  ASSUME TypeOK, Kept, [Next]_vars
  PROVE  Kept'
<1>1. ASSUME NEW v \in Visits, VisitMoves(v) PROVE Kept'
  <2>1. /\ IF visit'[v].pc = "idle" THEN visit'[v].url = None ELSE visit'[v].url \in links
        /\ visit'[v].pc \in {"reference", "resolve"} => visit'[v].url.push # None
        /\ visit'[v].pc \in {"delivery", "deliver"} => visit'[v].url.response # None
        /\ visit'[v].pc \in {"grant", "approval", "spend", "issue", "issued"} => visit'[v].account # None
        /\ visit'[v].pc \in {"approval", "spend"} => DetailsOf[visit'[v].url.request] # None
    <3>1. CASE Arrives(v)
      BY <3>1 DEF Arrives
    <3>2. CASE Enters(v)
      BY <3>2 DEF Enters, SameVisit, SameUrl, Kept
    <3>3. CASE Signs(v)
      BY <3>3 DEF Signs, SameUrl, Kept
    <3>4. CASE Consults(v)
      BY <3>4 DEF Consults, SameUrl, Kept, RequestOf
    <3>5. CASE Finishes(v)
      BY <3>5 DEF Finishes, SameVisit, SameUrl, Kept, RequestOf
    <3>. QED BY <1>1, <3>1, <3>2, <3>3, <3>4, <3>5 DEF VisitMoves
  <2>. QED BY <1>1, <2>1 DEF VisitMoves, AloneV, Elsewhere, browsers, Kept, RequestOf, UrlOf, RequestAnswered, DetailsAnswered
<1>2. ASSUME NEW c \in Completions, CompletionMoves(c) PROVE Kept'
  <2>1. /\ completion'[c].pc # "idle" => /\ completion'[c].interaction \in Visits
                                         /\ completion'[c].seen \in Interaction
                                         /\ completion'[c].outcome \in Outcome
        /\ completion'[c].pc = "login" => completion'[c].outcome.login # None
        /\ completion'[c].pc \in {"consent", "upsert"} => completion'[c].outcome.consent # None
        /\ completion'[c].pc \in {"upsert", "approve"} => completion'[c].account # None
        /\ completion'[c].pc = "approve" => DetailsOf[completion'[c].seen.url.request] # None
    <3>1. CASE Loads(c)
      BY <3>1 DEF Loads
    <3>2. CASE Takes(c)
      BY <3>2 DEF Takes, SameCompletion, SameSeen, AfterConsume, AfterLogin, Kept
    <3>3. CASE Opens(c)
      BY <3>3 DEF Opens, SameSeen, AfterLogin, Kept
    <3>4. CASE Recalls(c)
      BY <3>4 DEF Recalls, SameSeen, Kept
    <3>5. CASE Records(c)
      BY <3>5 DEF Records, SameCompletion, SameSeen, Kept, DetailsAnswered, RequestAnswered, UrlOf
    <3>6. CASE Approves(c)
      BY <3>6 DEF Approves, SameCompletion, SameSeen, Kept
    <3>7. CASE Passes(c)
      BY <3>7 DEF Passes, SameCompletion, SameSeen, Kept
    <3>8. CASE Returns(c)
      BY <3>8 DEF Returns, SameCompletion, SameSeen, Kept
    <3>. QED BY <1>2, <3>1, <3>2, <3>3, <3>4, <3>5, <3>6, <3>7, <3>8 DEF CompletionMoves
  <2>2. links \subseteq links'
    BY <1>2 DEF CompletionMoves, Loads, Takes, Opens, Recalls, Records, Approves, Passes, Returns, browsers
  <2>. QED BY <1>2, <2>1, <2>2 DEF CompletionMoves, AloneC, Kept, RequestOf, UrlOf, RequestAnswered, DetailsAnswered
<1>3. CASE Outside
  BY <1>3 DEF Outside, Kept, RequestOf, UrlOf, RequestAnswered, DetailsAnswered
<1>. QED BY <1>1, <1>2, <1>3, Steps

LEMMA LinkedNext ==
  ASSUME TypeOK, Kept, Linked, [Next]_vars
  PROVE  Linked'
<1>1. ASSUME NEW u \in links, u.from # None
      PROVE  u.from \in Completions /\ completion[u.from].pc = "done"
             /\ (completion[u.from].outcome.login # None => u.asks = {})
  BY <1>1, UrlFields DEF TypeOK, Linked
<1>2. ASSUME NEW v \in Visits, VisitMoves(v) PROVE Linked'
  BY <1>2 DEF VisitMoves, Elsewhere, browsers, Linked
<1>3. ASSUME NEW c \in Completions, CompletionMoves(c) PROVE Linked'
  <2>1. ASSUME NEW u \in links
        PROVE  /\ u.response # None => u.push = None
               /\ u.from # None => completion'[u.from].pc = "done"
               /\ u.from # None => (completion'[u.from].outcome.login # None => u.asks = {})
    <3>1. completion[c].pc # "done"
      BY <1>3 DEF CompletionMoves, Loads, Takes, Opens, Recalls, Records, Approves, Passes, Returns
    <3>. QED BY <1>1, <1>3, <3>1 DEF Linked, CompletionMoves, AloneC
  <2>2. CASE UNCHANGED links
    BY <2>1, <2>2 DEF Linked
  <2>3. CASE /\ completion'[c].pc = "done"
             /\ links' = links \cup {[request |-> RequestAnswered(c), asks |-> {}, push |-> None,
                                      response |-> c, from |-> c]}
    BY <2>1, <2>3 DEF Linked
  <2>4. CASE completion'[c].pc = "done" /\ SameSeen(c) /\ links' = links \cup {Resumed(c)}
    <3>1. /\ Resumed(c).response = None /\ Resumed(c).from = c
          /\ completion'[c].outcome.login # None => Resumed(c).asks = {}
      BY <2>4 DEF Resumed, Remaining, SameSeen
    <3> DEFINE u == Resumed(c)
    <3>2. u.response = None /\ u.from = c /\ (completion'[c].outcome.login # None => u.asks = {})
      BY <3>1
    <3>3. links' = links \cup {u}
      BY <2>4
    <3> HIDE DEF u
    <3>. QED BY <2>1, <2>4, <3>2, <3>3 DEF Linked
  <2>5. CASE Passes(c)
    BY <2>2, <2>3, <2>5 DEF Passes
  <2>6. CASE Returns(c)
    BY <2>4, <2>6 DEF Returns, SameCompletion
  <2>7. CASE Loads(c) \/ Takes(c) \/ Opens(c) \/ Recalls(c) \/ Records(c) \/ Approves(c)
    BY <2>2, <2>7 DEF Loads, Takes, Opens, Recalls, Records, Approves, browsers
  <2>. QED BY <1>3, <2>5, <2>6, <2>7 DEF CompletionMoves
<1>4. CASE Outside
  BY <1>4 DEF Outside, Linked
<1>. QED BY <1>2, <1>3, <1>4, Steps

LEMMA TakenNext ==
  ASSUME TypeOK, Kept, Linked, Taken, [Next]_vars
  PROVE  Taken'
<1>1. ASSUME NEW v \in Visits, VisitMoves(v) PROVE Taken'
  <2> DEFINE u == visit'[v].url
  <2>1. completion' = completion /\ AloneV(v) /\ visit' \in [Visits -> VisitState]
    BY <1>1 DEF VisitMoves, Elsewhere
  <2>2. \/ consumed' = consumed /\ visit'[v].pc \in Entering \cup {"idle", "refused"}
        \/ consumed' = consumed /\ Past(v) /\ u = visit[v].url
        \/ consumed' = consumed /\ u.push = None /\ u.response = None
        \/ /\ u.push # None /\ u.response = None /\ <<"push", u.push>> \notin consumed
           /\ consumed' = consumed \cup {<<"push", u.push>>}
        \/ /\ u.response # None /\ u.push = None /\ <<"response", u.response>> \notin consumed
           /\ consumed' = consumed \cup {<<"response", u.response>>}
    <3>1. CASE Arrives(v)
      BY <3>1 DEF Arrives, Quiet, Entering
    <3>2. CASE Enters(v)
      <4>1. visit[v].pc # "idle" /\ visit[v].url \in links /\ u = visit[v].url
        BY <3>2 DEF Enters, SameVisit, SameUrl, Kept
      <4>2. /\ visit[v].pc = "resolve" => visit[v].url.push # None
            /\ visit[v].pc = "deliver" => visit[v].url.response # None
        BY DEF Kept
      <4>3. visit[v].url.response # None => visit[v].url.push = None
        BY <4>1 DEF Linked
      <4>. QED BY <3>2, <4>1, <4>2, <4>3 DEF Enters, Entering, Consume
    <3>3. CASE Signs(v)
      BY <3>3 DEF Signs, SameUrl, Quiet, Past, Entering
    <3>4. CASE Consults(v)
      BY <3>4 DEF Consults, SameUrl, Quiet, Past, Entering
    <3>5. CASE Finishes(v)
      BY <3>5 DEF Finishes, SameVisit, SameUrl, Past, Entering
    <3>. QED BY <1>1, <3>1, <3>2, <3>3, <3>4, <3>5 DEF VisitMoves
  <2> HIDE DEF u
  <2>3. Past(v)' => visit'[v].pc \notin Entering \cup {"idle", "refused"}
    BY DEF Past
  <2>4. Past(v)' =>
          /\ u.push # None => <<"push", u.push>> \in consumed'
          /\ u.response # None => <<"response", u.response>> \in consumed'
    BY <2>2, <2>3 DEF Taken
  <2>5. ASSUME NEW w \in Visits, w # v, Past(v)', Past(w)'
        PROVE  /\ u.push # None => u.push # visit'[w].url.push
               /\ u.response # None => u.response # visit'[w].url.response
    <3>1. visit'[w] = visit[w] /\ Past(w)
      BY <2>1, <2>5 DEF AloneV, Past
    <3>2. /\ visit[w].url.push # None => <<"push", visit[w].url.push>> \in consumed
          /\ visit[w].url.response # None => <<"response", visit[w].url.response>> \in consumed
      BY <3>1 DEF Taken
    <3>3. Past(v) /\ u = visit[v].url =>
            /\ u.push # None => u.push # visit[w].url.push
            /\ u.response # None => u.response # visit[w].url.response
      BY <2>5, <3>1 DEF Taken
    <3>. QED BY <2>2, <2>3, <2>5, <3>1, <3>2, <3>3
  <2>6. consumed \subseteq consumed'
    BY <2>2
  <2>7. \A w \in Visits : Past(w)' =>
          /\ visit'[w].url.push # None => <<"push", visit'[w].url.push>> \in consumed'
          /\ visit'[w].url.response # None => <<"response", visit'[w].url.response>> \in consumed'
    <3>1. ASSUME NEW w \in Visits, w # v, Past(w)'
          PROVE  /\ visit'[w].url.push # None => <<"push", visit'[w].url.push>> \in consumed'
                 /\ visit'[w].url.response # None => <<"response", visit'[w].url.response>> \in consumed'
      BY <2>1, <2>6, <3>1 DEF AloneV, Past, Taken
    <3>. QED BY <2>4, <3>1 DEF u
  <2>8. \A w, x \in Visits : Past(w)' /\ Past(x)' /\ w # x =>
          /\ visit'[w].url.push # None => visit'[w].url.push # visit'[x].url.push
          /\ visit'[w].url.response # None => visit'[w].url.response # visit'[x].url.response
    <3> SUFFICES ASSUME NEW w \in Visits, NEW x \in Visits, Past(w)', Past(x)', w # x
                 PROVE  /\ visit'[w].url.push # None => visit'[w].url.push # visit'[x].url.push
                        /\ visit'[w].url.response # None => visit'[w].url.response # visit'[x].url.response
      OBVIOUS
    <3>1. CASE w = v
      BY <2>5, <3>1 DEF u
    <3>2. CASE x = v
      BY <2>5, <3>2 DEF u
    <3>3. CASE w # v /\ x # v
      BY <2>1, <3>3 DEF AloneV, Past, Taken
    <3>. QED BY <3>1, <3>2, <3>3
  <2>9. \A c \in Completions : Accepted(c)' => <<"interaction", completion'[c].interaction>> \in consumed'
    BY <2>1, <2>6 DEF Taken, Accepted
  <2>10. \A c, d \in Completions :
           Accepted(c)' /\ Accepted(d)' /\ completion'[c].interaction = completion'[d].interaction => c = d
    BY <2>1 DEF Taken, Accepted
  <2>. QED BY <2>7, <2>8, <2>9, <2>10 DEF Taken
<1>2. ASSUME NEW c \in Completions, CompletionMoves(c) PROVE Taken'
  <2> DEFINE i == completion'[c].interaction
  <2>1. visit' = visit /\ AloneC(c)
    BY <1>2 DEF CompletionMoves
  <2>2. \/ consumed' = consumed /\ completion'[c].pc \in {"idle", "consume", "refused"}
        \/ consumed' = consumed /\ Accepted(c) /\ i = completion[c].interaction
        \/ <<"interaction", i>> \notin consumed /\ consumed' = consumed \cup {<<"interaction", i>>}
    <3>1. CASE Loads(c)
      BY <3>1 DEF Loads, artifacts
    <3>2. CASE Takes(c)
      BY <3>2 DEF Takes, SameCompletion, SameSeen, Consume
    <3>3. CASE Opens(c) \/ Recalls(c) \/ Records(c) \/ Approves(c)
      BY <3>3 DEF Opens, Recalls, Records, Approves, SameCompletion, SameSeen, Accepted, artifacts
    <3>4. CASE Passes(c) \/ Returns(c)
      BY <3>4 DEF Passes, Returns, SameCompletion, SameSeen, Accepted
    <3>. QED BY <1>2, <3>1, <3>2, <3>3, <3>4 DEF CompletionMoves
  <2> HIDE DEF i
  <2>3. consumed \subseteq consumed'
    BY <2>2
  <2>4. ASSUME NEW d \in Completions, d # c, Accepted(c)', Accepted(d)' PROVE completion'[d].interaction # i
    <3>1. completion'[d] = completion[d] /\ Accepted(d)
      BY <2>1, <2>4 DEF AloneC, Accepted
    <3>2. <<"interaction", completion[d].interaction>> \in consumed
      BY <3>1 DEF Taken
    <3>3. Accepted(c) => completion[c].interaction # completion[d].interaction
      BY <2>4, <3>1 DEF Taken
    <3>. QED BY <2>2, <2>4, <3>1, <3>2, <3>3 DEF Accepted
  <2>5. Accepted(c)' => <<"interaction", i>> \in consumed'
    BY <2>2 DEF Accepted, Taken
  <2>6. \A d \in Completions : Accepted(d)' => <<"interaction", completion'[d].interaction>> \in consumed'
    <3>1. ASSUME NEW d \in Completions, d # c, Accepted(d)'
          PROVE  <<"interaction", completion'[d].interaction>> \in consumed'
      BY <2>1, <2>3, <3>1 DEF AloneC, Accepted, Taken
    <3>. QED BY <2>5, <3>1 DEF i
  <2>7. \A d, e \in Completions :
          Accepted(d)' /\ Accepted(e)' /\ completion'[d].interaction = completion'[e].interaction => d = e
    <3> SUFFICES ASSUME NEW d \in Completions, NEW e \in Completions, Accepted(d)', Accepted(e)',
                        completion'[d].interaction = completion'[e].interaction, d # e
                 PROVE  FALSE
      OBVIOUS
    <3>1. CASE d # c /\ e # c
      BY <2>1, <3>1 DEF AloneC, Accepted, Taken
    <3>. QED BY <2>4, <3>1 DEF i
  <2>. QED BY <2>1, <2>3, <2>6, <2>7 DEF Taken, Past
<1>3. CASE Outside
  BY <1>3 DEF Outside, Taken, Past, Accepted
<1>. QED BY <1>1, <1>2, <1>3, Steps

\* Where the account of a completion that consents comes from.
LEMMA ConsentingNext ==
  ASSUME NEW c \in Completions, SameSeen(c)
  PROVE  Consenting(c)' = Consenting(c) /\ RequestAnswered(c)' = RequestAnswered(c)
  BY DEF SameSeen, Consenting, RequestAnswered, UrlOf

\* Nothing that has been allowed is forgotten.
LEMMA GivenNext ==
  ASSUME TypeOK, Kept, [Next]_vars
  PROVE  given \subseteq given'
<1>1. ASSUME NEW v \in Visits, VisitMoves(v) PROVE given \subseteq given'
  BY <1>1 DEF VisitMoves, Elsewhere, history
<1>2. ASSUME NEW c \in Completions, CompletionMoves(c) PROVE given \subseteq given'
  BY <1>2 DEF CompletionMoves, Loads, Takes, Opens, Recalls, Records, Approves, Passes, Returns, history
<1>3. CASE Outside
  BY <1>3 DEF Outside, history
<1>. QED BY <1>1, <1>2, <1>3, Steps

\* What a consent that is stored accumulates has been allowed by then.
LEMMA Accumulates ==
  ASSUME TypeOK, Kept, Allowed, NEW c \in Completions, completion[c].pc = "upsert"
  PROVE  /\ Accumulated(c) \in Grant
         /\ \A s \in Accumulated(c).scopes :
              <<Accumulated(c).account, Accumulated(c).client, s>> \in given \cup Gives(c)
         /\ Gives(c) \subseteq Accounts \X Clients \X Scopes
<1> DEFINE y == completion[c]
           client == ClientOf[RequestAnswered(c)]
           g == Accumulated(c)
           before == IF y.grant = None THEN {} ELSE y.grant.scopes
<1>1. /\ y \in CompletionState /\ client \in Clients
      /\ y.outcome.consent \in (SUBSET Scopes) \cup {None}
  BY CompletionKnows
<1>2. y.outcome.consent # None /\ y.account # None
  BY DEF Kept
<1>3. y.account \in Accounts /\ y.grant \in Grant \cup {None} /\ y.outcome.consent \in SUBSET Scopes
  BY <1>1, <1>2 DEF CompletionState
<1>4. y.grant # None => /\ y.grant.account = y.account /\ y.grant.client = client
                        /\ Covered(y.grant)
  BY DEF Allowed
<1>5. /\ y.grant # None => y.grant.id \in Completions /\ y.grant.scopes \in SUBSET Scopes
      /\ before \in SUBSET Scopes
  BY <1>3 DEF Grant
<1>6. y.account = Consenting(c)
  BY DEF Allowed
<1>7. /\ g.account = y.account /\ g.client = client /\ g.scopes = y.outcome.consent \cup before
      /\ g \in Grant
  BY <1>1, <1>3, <1>5 DEF Accumulated, Grant
<1>8. \A s \in before : <<y.account, client, s>> \in given
  BY <1>4 DEF Covered
<1>9. Gives(c) = {<<y.account, client, s>> : s \in y.outcome.consent}
  BY <1>6 DEF Gives
<1>. QED BY <1>1, <1>3, <1>7, <1>8, <1>9

LEMMA AllowedNext ==
  ASSUME TypeOK, Kept, Allowed, [Next]_vars
  PROVE  Allowed'
<1>1. \A g : Covered(g) => Covered(g)'
  BY GivenNext DEF Covered
<1>3. ASSUME NEW v \in Visits, VisitMoves(v) PROVE Allowed'
  <2> DEFINE x == visit'[v]
  <2>1. AloneV(v) /\ completion' = completion /\ grants' = grants /\ given' = given
    BY <1>3 DEF VisitMoves, Elsewhere, consents, history
  <2>2. /\ x.pc \in {"approval", "spend", "issue", "issued"} /\ x.grant # None =>
             /\ x.grant.account = x.account /\ x.grant.client = ClientOf[x.url.request]
             /\ Covered(x.grant)
        /\ x.pc \in {"spend", "issue", "issued"} =>
             x.grant # None /\ ScopesOf[x.url.request] \subseteq x.grant.scopes
    <3>1. CASE Arrives(v)
      BY <3>1 DEF Arrives
    <3>2. CASE Enters(v)
      BY <3>2 DEF Enters
    <3>3. CASE Signs(v)
      BY <3>3 DEF Signs
    <3>4. CASE Consults(v)
      <4>1. /\ x.grant # None => /\ x.grant \in grants /\ x.grant.account = visit[v].account
                                 /\ x.grant.client = ClientOf[RequestOf(v)]
            /\ x.url.request = RequestOf(v) /\ x.account = visit[v].account
        BY <3>4, ConsentFound DEF Consults, SameUrl, RequestOf
      <4>. QED BY <3>4, <4>1 DEF Consults, Allowed, Missing
    <3>5. CASE Finishes(v)
      <4>1. x.url.request = RequestOf(v) /\ x.account = visit[v].account /\ x.grant = visit[v].grant
        BY <3>5 DEF Finishes, SameVisit, SameUrl, RequestOf
      <4>. QED BY <3>5, <4>1 DEF Finishes, Allowed, Missing
    <3>. QED BY <1>3, <3>1, <3>2, <3>3, <3>4, <3>5 DEF VisitMoves
  <2>4. \A w \in Visits :
          /\ visit'[w].pc \in {"approval", "spend", "issue", "issued"} /\ visit'[w].grant # None =>
               /\ visit'[w].grant.account = visit'[w].account
               /\ visit'[w].grant.client = ClientOf[visit'[w].url.request]
               /\ Covered(visit'[w].grant)
          /\ visit'[w].pc \in {"spend", "issue", "issued"} =>
               visit'[w].grant # None /\ ScopesOf[visit'[w].url.request] \subseteq visit'[w].grant.scopes
    BY <2>1, <2>2 DEF AloneV, Allowed, Missing, RequestOf
  <2>5. \A code \in codes' : /\ visit'[code.id].pc = "issued"
                             /\ code = [id |-> code.id, account |-> visit'[code.id].account,
                                        request |-> visit'[code.id].url.request,
                                        grant |-> visit'[code.id].grant.id]
    <3>1. ASSUME NEW code \in codes
          PROVE  /\ visit'[code.id].pc = "issued"
                 /\ code = [id |-> code.id, account |-> visit'[code.id].account,
                            request |-> visit'[code.id].url.request, grant |-> visit'[code.id].grant.id]
      <4>1. code.id \in Visits
        BY DEF TypeOK, Code
      <4>2. visit[code.id].pc = "issued" /\ code = CodeOf(code.id)
        BY DEF Allowed
      <4>3. visit[v].pc # "issued"
        BY <1>3 DEF VisitMoves, Arrives, Enters, Signs, Consults, Finishes
      <4>. QED BY <2>1, <4>1, <4>2, <4>3 DEF AloneV, CodeOf, RequestOf
    <3>2. CASE codes' = codes
      BY <3>1, <3>2
    <3>3. CASE x.pc = "issued" /\ SameVisit(v) /\ codes' = codes \cup {CodeOf(v)}
      <4>1. CodeOf(v).id = v /\ CodeOf(v) = [id |-> v, account |-> x.account,
                                             request |-> x.url.request, grant |-> x.grant.id]
        BY <3>3 DEF CodeOf, SameVisit, SameUrl, RequestOf
      <4>. QED BY <3>1, <3>3, <4>1
    <3>4. CASE Arrives(v) \/ Enters(v) \/ Signs(v) \/ Consults(v)
      BY <3>2, <3>4 DEF Arrives, Enters, Signs, Consults, Quiet, Marks
    <3>5. CASE Finishes(v)
      BY <3>2, <3>3, <3>5 DEF Finishes, Marks
    <3>. QED BY <1>3, <3>4, <3>5 DEF VisitMoves
  <2>6. /\ \A g \in grants' : Covered(g)'
        /\ \A w \in Visits : Covered(visit'[w].grant) => Covered(visit[w].grant)'
    BY <2>1 DEF Covered, Allowed
  <2>7. \A c \in Completions :
          /\ completion'[c].pc = "upsert" /\ completion'[c].grant # None =>
               /\ completion'[c].grant.account = completion'[c].account
               /\ completion'[c].grant.client = ClientOf[RequestAnswered(c)']
               /\ Covered(completion[c].grant)'
          /\ completion'[c].pc = "consume" => completion'[c].account = completion'[c].seen.account
          /\ completion'[c].pc \in {"consent", "upsert", "approve"} =>
               completion'[c].account = Consenting(c)'
    BY <2>1 DEF Allowed, Covered, Consenting, RequestAnswered, UrlOf
  <2> HIDE DEF x
  <2>. QED BY <2>4, <2>5, <2>6, <2>7 DEF Allowed, Missing, RequestOf, CodeOf
<1>4. ASSUME NEW c \in Completions, CompletionMoves(c) PROVE Allowed'
  <2> DEFINE y == completion'[c]
  <2>1. AloneC(c) /\ visit' = visit /\ codes' = codes
    BY <1>4 DEF CompletionMoves
  <2>2. \A g \in grants' : Covered(g)'
    <3>1. CASE grants' = grants
      BY <1>1, <3>1 DEF Allowed
    <3>2. CASE Records(c)
      <4> DEFINE new == Accumulated(c)
      <4>1. \A s \in new.scopes : <<new.account, new.client, s>> \in given'
        BY <3>2, Accumulates DEF Records
      <4>2. grants' \subseteq grants \cup {new}
        BY <3>2 DEF Records
      <4> HIDE DEF new
      <4>3. ASSUME NEW g, g = new PROVE Covered(g)'
        BY <4>1, <4>3 DEF Covered
      <4>. QED BY <1>1, <4>2, <4>3 DEF Allowed
    <3>3. CASE Loads(c) \/ Takes(c) \/ Opens(c) \/ Recalls(c) \/ Approves(c) \/ Passes(c) \/ Returns(c)
      BY <3>1, <3>3 DEF Loads, Takes, Opens, Recalls, Approves, Passes, Returns, consents
    <3>. QED BY <1>4, <3>2, <3>3 DEF CompletionMoves
  <2>3. /\ y.pc = "upsert" /\ y.grant # None =>
             /\ y.grant.account = y.account /\ y.grant.client = ClientOf[y.seen.url.request]
             /\ Covered(y.grant)
        /\ y.pc = "consume" => y.account = y.seen.account
        /\ y.pc \in {"consent", "upsert", "approve"} =>
             y.account = IF y.outcome.login # None THEN y.outcome.login ELSE y.seen.account
    <3>1. CASE Loads(c)
      BY <3>1 DEF Loads
    <3>2. CASE Takes(c)
      BY <3>2 DEF Takes, SameCompletion, SameSeen, AfterConsume, AfterLogin, Allowed
    <3>3. CASE Opens(c)
      BY <3>3 DEF Opens, SameSeen, AfterLogin, Kept
    <3>4. CASE Recalls(c)
      <4>1. /\ y.grant # None => /\ y.grant \in grants /\ y.grant.account = completion[c].account
                                 /\ y.grant.client = ClientOf[RequestAnswered(c)]
            /\ y.seen.url.request = RequestAnswered(c) /\ y.account = completion[c].account
        BY <3>4, ConsentFound DEF Recalls, SameSeen, RequestAnswered, UrlOf
      <4>. QED BY <3>4, <4>1 DEF Recalls, SameSeen, Allowed, Consenting
    <3>5. CASE Records(c) \/ Approves(c) \/ Passes(c) \/ Returns(c)
      BY <3>5 DEF Records, Approves, Passes, Returns, SameCompletion, SameSeen, Allowed, Consenting
    <3>. QED BY <1>4, <3>1, <3>2, <3>3, <3>4, <3>5 DEF CompletionMoves
  <2>4. \A d \in Completions : d # c =>
          /\ completion'[d].pc = "upsert" /\ completion'[d].grant # None =>
               /\ completion'[d].grant.account = completion'[d].account
               /\ completion'[d].grant.client = ClientOf[completion'[d].seen.url.request]
               /\ Covered(completion'[d].grant)
          /\ completion'[d].pc = "consume" => completion'[d].account = completion'[d].seen.account
          /\ completion'[d].pc \in {"consent", "upsert", "approve"} =>
               completion'[d].account = IF completion'[d].outcome.login # None
                                        THEN completion'[d].outcome.login ELSE completion'[d].seen.account
    BY <2>1 DEF AloneC, Allowed, Consenting, RequestAnswered, UrlOf
  <2>5. \A d \in Completions :
          /\ completion'[d].pc = "upsert" /\ completion'[d].grant # None =>
               /\ completion'[d].grant.account = completion'[d].account
               /\ completion'[d].grant.client = ClientOf[completion'[d].seen.url.request]
               /\ Covered(completion'[d].grant)
          /\ completion'[d].pc = "consume" => completion'[d].account = completion'[d].seen.account
          /\ completion'[d].pc \in {"consent", "upsert", "approve"} =>
               completion'[d].account = IF completion'[d].outcome.login # None
                                        THEN completion'[d].outcome.login ELSE completion'[d].seen.account
    BY <2>3, <2>4 DEF y
  <2>6. /\ \A d \in Completions : Covered(completion'[d].grant) => Covered(completion[d].grant)'
        /\ \A w \in Visits : Covered(visit[w].grant) => Covered(visit[w].grant)'
    BY <2>1, GivenNext DEF Covered
  <2> HIDE DEF y
  <2>7. \A w \in Visits :
          /\ visit'[w].pc \in {"approval", "spend", "issue", "issued"} /\ visit'[w].grant # None =>
               /\ visit'[w].grant.account = visit'[w].account
               /\ visit'[w].grant.client = ClientOf[RequestOf(w)']
               /\ Covered(visit[w].grant)'
          /\ visit'[w].pc \in {"spend", "issue", "issued"} => ~Missing(w, visit[w].grant)'
    BY <2>1, <2>6 DEF Allowed, Missing, RequestOf
  <2>8. \A code \in codes' : visit'[code.id].pc = "issued" /\ code = CodeOf(code.id)'
    BY <2>1 DEF Allowed, CodeOf, RequestOf
  <2>. QED BY <2>2, <2>5, <2>6, <2>7, <2>8 DEF Allowed, Consenting, RequestAnswered, UrlOf
<1>5. CASE Outside
  BY <1>5 DEF Outside, history, Allowed, Covered, Missing, RequestOf, CodeOf, Consenting, RequestAnswered, UrlOf
<1>. QED BY <1>3, <1>4, <1>5, Steps

LEMMA EnteredNext ==
  ASSUME TypeOK, Kept, Linked, Entered, [Next]_vars
  PROVE  Entered'
<1>1. ASSUME NEW v \in Visits, VisitMoves(v) PROVE Entered'
  <2>1. AloneV(v) /\ UNCHANGED <<handed, sessions, completion>>
    BY <1>1 DEF VisitMoves, Elsewhere, browsers, consents
  <2>2. ASSUME NEW c \in Completions, visit'[v].url # None, visit'[v].url.from = c,
               visit'[v].cookie = c, visit'[v].pc = "suspend", visit'[v].account = None
        PROVE  FALSE
    <3>1. CASE Arrives(v)
      BY <2>2, <3>1 DEF Arrives
    <3>2. CASE Enters(v)
      BY <2>2, <3>2 DEF Enters
    <3>3. CASE Signs(v)
      <4>1. visit[v].url \in links /\ visit[v].cookie \in handed \cup {None} /\ Asked(v) = visit[v].url.asks
        BY <3>3, VisitKnows DEF Signs, Asked
      <4>2. visit[v].url.from = c /\ visit[v].cookie = c
        BY <2>2, <3>3 DEF Signs, SameUrl
      <4>3. c # None
        BY NoneAssumption
      <4>4. c \in handed /\ completion[c].outcome.login # None /\ sessions[c] # None
        BY <4>1, <4>2, <4>3 DEF Entered
      <4>5. visit[v].url.asks = {}
        BY <4>1, <4>2, <4>3, <4>4 DEF Linked
      <4>. QED BY <2>2, <3>3, <4>1, <4>2, <4>3, <4>4, <4>5 DEF Signs
    <3>4. CASE Consults(v)
      BY <2>2, <3>4 DEF Consults, Kept
    <3>5. CASE Finishes(v)
      BY <2>2, <3>5 DEF Finishes, SameVisit, Kept
    <3>. QED BY <1>1, <3>1, <3>2, <3>3, <3>4, <3>5 DEF VisitMoves
  <2>3. \A w \in Visits, c \in Completions :
          visit'[w].url # None /\ visit'[w].url.from = c /\ visit'[w].cookie = c
            => ~(visit'[w].pc = "suspend" /\ visit'[w].account = None)
    BY <2>1, <2>2 DEF AloneV, Entered, LoginSticks
  <2>. QED BY <2>1, <2>3 DEF Entered, LoginSticks
<1>2. ASSUME NEW c \in Completions, CompletionMoves(c) PROVE Entered'
  <2>1. AloneC(c) /\ visit' = visit
    BY <1>2 DEF CompletionMoves
  <2>2. sessions \in [SessionIds -> Accounts \cup {None}] /\ c \in SessionIds
    BY DEF TypeOK, SessionIds
  <2>3. c \notin handed
    BY <1>2 DEF Entered, CompletionMoves, Loads, Takes, Opens, Recalls, Records, Approves, Passes, Returns
  <2>4. /\ \A d \in Completions : d # c => (d \in handed' <=> d \in handed) /\ sessions'[d] = sessions[d]
        /\ c \in handed' => completion'[c].pc = "done" /\ completion'[c].outcome.login # None /\ sessions'[c] # None
        /\ /\ completion'[c].pc \in {"consent", "upsert", "approve", "destroy", "push"}
           /\ completion'[c].outcome.login # None
           => sessions'[c] # None
    <3>1. CASE Loads(c)
      BY <2>3, <3>1 DEF Loads, browsers, consents
    <3>2. CASE Takes(c)
      BY <2>3, <3>2 DEF Takes, SameCompletion, SameSeen, AfterConsume, AfterLogin, browsers, consents
    <3>3. CASE Opens(c)
      BY <2>2, <2>3, <3>3 DEF Opens, SameSeen, Kept, browsers
    <3>4. CASE Recalls(c) \/ Records(c) \/ Approves(c)
      BY <2>3, <3>4 DEF Recalls, Records, Approves, SameCompletion, SameSeen, browsers, consents, Entered
    <3>5. CASE Passes(c)
      BY <2>3, <3>5 DEF Passes, SameCompletion, SameSeen, consents, Entered
    <3>6. CASE Returns(c)
      BY <2>3, <3>6 DEF Returns, SameCompletion, SameSeen, consents, Entered
    <3>. QED BY <1>2, <3>1, <3>2, <3>3, <3>4, <3>5, <3>6 DEF CompletionMoves
  <2>5. \A d \in Completions : d # c => completion'[d] = completion[d]
    BY <2>1 DEF AloneC
  <2>. QED BY <2>1, <2>4, <2>5 DEF Entered, LoginSticks
<1>3. CASE Outside
  BY <1>3 DEF Outside, Entered, LoginSticks
<1>. QED BY <1>1, <1>2, <1>3, Steps

\* Counting a step of a visit: those past the approval of k, and the approval if it can be spent.
LEMMA CountedNext ==
  ASSUME TypeOK, Kept, Allowed, Counted, [Next]_vars
  PROVE  Counted'
<1>1. /\ now \in Nat /\ MaxTime \in Nat /\ Ttl \in Nat \ {0} /\ now <= MaxTime
      /\ approvals \in [Keys -> Nat \cup {None}] /\ spent \in [Keys -> Nat \cup {None}]
  BY AuthorizeAssumption DEF TypeOK
<1>2. Forever \in Nat /\ now + Ttl < Forever
  BY <1>1 DEF Forever
<1>3. ASSUME NEW k \in Keys
      PROVE  /\ Cardinality(Holders(k)) \in Nat /\ Cardinality(Votes(k)) \in Nat
             /\ IsFiniteSet(Holders(k)) /\ IsFiniteSet(Votes(k))
             /\ Cardinality(Holders(k)) <= Cardinality(Votes(k))
             /\ Standing(k) => Cardinality(Holders(k)) + 1 <= Cardinality(Votes(k))
  <2>1. /\ IsFiniteSet(Holders(k)) /\ IsFiniteSet(Votes(k))
        /\ Cardinality(Holders(k)) + (IF Standing(k) THEN 1 ELSE 0) <= Cardinality(Votes(k))
    BY DEF Counted
  <2>2. Cardinality(Holders(k)) \in Nat /\ Cardinality(Votes(k)) \in Nat
    BY <2>1, FS_CardinalityType
  <2>. QED BY <2>1, <2>2
<1>4. ASSUME NEW v \in Visits, VisitMoves(v) PROVE Counted'
  <2>1. AloneV(v) /\ UNCHANGED <<approvals, votes, completion, backend>>
    BY <1>4 DEF VisitMoves, Elsewhere, world, history
  <2>2. \A k \in Keys : Votes(k)' = Votes(k)
    BY <2>1 DEF Votes
  <2>3. CASE /\ spent' = spent
             /\ visit'[v].pc \in {"issue", "issued"} => \/ /\ visit[v].pc = "issue" /\ SameVisit(v)
                                                        \/ DetailsOf[visit'[v].url.request] = None
             /\ visit[v].pc # "issued" /\ (visit[v].pc = "issue" => visit'[v].pc = "issued" /\ SameVisit(v))
    <3>1. ASSUME NEW k \in Keys PROVE Holders(k)' = Holders(k) /\ Standing(k)' = Standing(k)
      <4>1. \A w \in Visits : w \in Holders(k)' <=> w \in Holders(k)
        BY <2>1, <2>3 DEF AloneV, SameVisit, SameUrl, Holders, RequestOf
      <4>2. Holders(k)' = Holders(k)
        BY <4>1 DEF Holders
      <4>3. Standing(k)' = Standing(k)
        BY <2>1, <2>3 DEF Standing
      <4>. QED BY <4>2, <4>3
    <3>. QED BY <2>1, <2>2, <3>1 DEF Counted, Forever
  <2>4. CASE Finishes(v) /\ visit[v].pc = "spend" /\ visit'[v].pc = "issue"
    <3> DEFINE key == KeyOf(visit[v].account, RequestOf(v))
    <3>1. /\ RequestOf(v) \in Requests /\ ClientOf[RequestOf(v)] \in Clients
          /\ visit[v].account \in Accounts /\ DetailsOf[RequestOf(v)] # None
          /\ DetailsOf[RequestOf(v)] \in Details \cup {None}
      BY <2>4, VisitKnows, AuthorizeAssumption DEF TypeOK, Kept
    <3>2. key \in Keys
      BY <3>1 DEF KeyOf, Keys
    <3>3. /\ Spendable(key) /\ SameVisit(v)
          /\ spent' = [spent EXCEPT ![key] = IF backend = "kv" THEN approvals[key] ELSE Forever]
      BY <2>4 DEF Finishes
    <3>4. SameVisit(v) /\ RequestOf(v)' = RequestOf(v)
      BY <3>3 DEF SameVisit, SameUrl, RequestOf
    <3>5. \A k \in Keys : Holders(k)' = IF k = key THEN Holders(k) \cup {v} ELSE Holders(k)
      <4> SUFFICES ASSUME NEW k \in Keys PROVE Holders(k)' = IF k = key THEN Holders(k) \cup {v} ELSE Holders(k)
        OBVIOUS
      <4>1. v \in Holders(k)' <=> k = key
        BY <2>4, <3>1, <3>4 DEF Holders, SameVisit, SameUrl
      <4>2. v \notin Holders(k)
        BY <2>4 DEF Holders
      <4>3. \A w \in Visits : w # v => (w \in Holders(k)' <=> w \in Holders(k))
        BY <2>1 DEF AloneV, Holders, RequestOf
      <4>4. Holders(k) \subseteq Visits /\ Holders(k)' \subseteq Visits
        BY DEF Holders
      <4> HIDE DEF key
      <4>. QED BY <4>1, <4>2, <4>3, <4>4
    <3>6. v \notin Holders(key)
      BY <2>4 DEF Holders
    <3> HIDE DEF key
    <3>7. approvals[key] \in Nat /\ approvals[key] < Forever /\ Standing(key)
      BY <1>1, <3>2, <3>3 DEF Spendable, Live, Standing, Counted
    <3>8. spent'[key] \in {approvals[key], Forever} /\ \A k \in Keys : k # key => spent'[k] = spent[k]
      BY <1>1, <3>2, <3>3
    <3>9. spent'[key] \in Nat /\ ~(spent'[key] < approvals[key])
      BY <1>2, <3>7, <3>8
    <3>10. \A k \in Keys : Standing(k)' <=> (k # key /\ Standing(k))
      BY <2>1, <3>8, <3>9, NoneAssumption DEF Standing
    <3>11. ASSUME NEW k \in Keys
           PROVE  /\ IsFiniteSet(Holders(k)') /\ Cardinality(Holders(k)') \in Nat
                  /\ Cardinality(Holders(k)') + (IF k # key /\ Standing(k) THEN 1 ELSE 0) <= Cardinality(Votes(k))
      <4>1. CASE k = key
        <5> DEFINE S == Holders(k)
        <5>1. Holders(k)' = S \cup {v} /\ v \notin S /\ IsFiniteSet(S)
          BY <1>3, <3>5, <3>6, <4>1
        <5>2. Cardinality(S) \in Nat /\ Cardinality(S) + 1 <= Cardinality(Votes(k)) /\ Cardinality(Votes(k)) \in Nat
          BY <1>3, <3>7, <4>1
        <5> HIDE DEF S
        <5>3. IsFiniteSet(S \cup {v}) /\ Cardinality(S \cup {v}) = Cardinality(S) + 1
          BY <5>1, FS_AddElement
        <5>. QED BY <4>1, <5>1, <5>2, <5>3
      <4>2. CASE k # key
        BY <1>3, <3>5, <4>2
      <4>. QED BY <4>1, <4>2
    <3>12. \A k \in Keys : /\ approvals'[k] # None => approvals'[k] < Forever
                           /\ Votes(k)' = Votes(k) /\ IsFiniteSet(Votes(k))
      BY <1>3, <2>1, <2>2 DEF Counted
    <3>13. \A vote \in votes' : completion'[vote[1]].pc \in {"destroy", "push", "done"}
      BY <2>1 DEF Counted
    <3>. QED BY <3>10, <3>11, <3>12, <3>13 DEF Counted, Forever
  <2>5. CASE Arrives(v) \/ Enters(v) \/ Signs(v)
    BY <2>3, <2>5 DEF Arrives, Enters, Signs, Quiet, Marks
  <2>6. CASE Consults(v)
    BY <2>3, <2>6 DEF Consults, SameUrl, Quiet, Marks, RequestOf
  <2>7. CASE Finishes(v) /\ ~(visit[v].pc = "spend" /\ visit'[v].pc = "issue")
    BY <2>3, <2>7 DEF Finishes, Marks
  <2>. QED BY <1>4, <2>4, <2>5, <2>6, <2>7 DEF VisitMoves
<1>5. ASSUME NEW c \in Completions, CompletionMoves(c) PROVE Counted'
  <2>1. AloneC(c) /\ UNCHANGED <<spent, visit>>
    BY <1>5 DEF CompletionMoves
  <2>2. \A k \in Keys : Holders(k)' = Holders(k)
    BY <2>1 DEF Holders, RequestOf
  <2>3. ASSUME NEW vote \in votes
        PROVE  completion'[vote[1]].pc \in {"destroy", "push", "done"} /\ vote[1] \in Completions
    <3>1. vote[1] \in Completions /\ completion[vote[1]].pc \in {"destroy", "push", "done"}
      BY DEF TypeOK, Counted
    <3>2. completion[c].pc \in {"destroy", "push", "done"} => completion'[c].pc \in {"destroy", "push", "done"}
      BY <1>5 DEF CompletionMoves, Loads, Takes, Opens, Recalls, Records, Approves, Passes, Returns
    <3>. QED BY <2>1, <3>1, <3>2 DEF AloneC
  <2>4. CASE UNCHANGED <<approvals, votes>>
    <3>1. \A k \in Keys : Votes(k)' = Votes(k) /\ Standing(k)' = Standing(k)
      BY <2>1, <2>4 DEF Votes, Standing
    <3>. QED BY <2>2, <2>3, <2>4, <3>1 DEF Counted, Forever
  <2>5. CASE Approves(c)
    <3> DEFINE key == KeyOf(completion[c].account, RequestAnswered(c))
    <3>1. /\ completion[c].pc = "approve" /\ completion'[c].pc = "destroy"
          /\ completion[c].account = Consenting(c)
      BY <2>5 DEF Approves, Allowed
    <3>2. /\ completion[c].account \in Accounts /\ ClientOf[RequestAnswered(c)] \in Clients
          /\ DetailsOf[RequestAnswered(c)] \in Details
      BY <3>1, CompletionKnows DEF Kept, CompletionState, DetailsAnswered
    <3>3. key \in Keys
      BY <3>2 DEF KeyOf, Keys
    <3>4. approvals' = [approvals EXCEPT ![key] = now + Ttl] /\ votes' = votes \cup {<<c, key>>}
      BY <2>5, <3>1 DEF Approves
    <3>5. <<c, key>> \notin votes
      BY <3>1 DEF Counted
    <3> HIDE DEF key
    <3>6. \A k \in Keys : Votes(k)' = IF k = key THEN Votes(k) \cup {<<c, key>>} ELSE Votes(k)
      BY <3>4 DEF Votes
    <3>7. \A k \in Keys : k # key => Standing(k)' = Standing(k)
      BY <1>1, <2>1, <3>4 DEF Standing
    <3>8. \A vote \in votes' : completion'[vote[1]].pc \in {"destroy", "push", "done"}
      BY <2>3, <3>1, <3>4
    <3>9. \A k \in Keys : approvals'[k] # None => approvals'[k] < Forever
      BY <1>1, <1>2, <3>4 DEF Counted
    <3>10. ASSUME NEW k \in Keys
           PROVE  /\ IsFiniteSet(Votes(k)') /\ IsFiniteSet(Holders(k)')
                  /\ Cardinality(Holders(k)') + (IF Standing(k)' THEN 1 ELSE 0) <= Cardinality(Votes(k)')
      <4>1. CASE k = key
        <5> DEFINE S == Votes(k)
        <5>1. Votes(k)' = S \cup {<<c, key>>} /\ <<c, key>> \notin S /\ IsFiniteSet(S)
          BY <1>3, <3>5, <3>6, <4>1 DEF Votes
        <5>2. Holders(k)' = Holders(k) /\ Cardinality(Holders(k)) \in Nat /\ Cardinality(S) \in Nat
              /\ Cardinality(Holders(k)) <= Cardinality(S) /\ IsFiniteSet(Holders(k))
          BY <1>3, <2>2
        <5> HIDE DEF S
        <5>3. IsFiniteSet(S \cup {<<c, key>>}) /\ Cardinality(S \cup {<<c, key>>}) = Cardinality(S) + 1
          BY <5>1, FS_AddElement
        <5>. QED BY <5>1, <5>2, <5>3
      <4>2. CASE k # key
        BY <1>3, <2>2, <3>6, <3>7, <4>2
      <4>. QED BY <4>1, <4>2
    <3>. QED BY <3>8, <3>9, <3>10 DEF Counted, Forever
  <2>6. CASE Loads(c) \/ Takes(c) \/ Opens(c) \/ Recalls(c) \/ Records(c) \/ Passes(c) \/ Returns(c)
    BY <2>4, <2>6 DEF Loads, Takes, Opens, Recalls, Records, Passes, Returns, history
  <2>. QED BY <1>5, <2>5, <2>6 DEF CompletionMoves
<1>6. CASE Outside
  <2>1. UNCHANGED <<votes, visit, completion>>
    BY <1>6 DEF Outside, history
  <2>2. \A k \in Keys : Votes(k)' = Votes(k) /\ Holders(k)' = Holders(k)
    BY <2>1 DEF Votes, Holders, RequestOf
  <2>3. CASE UNCHANGED details
    <3>1. \A k \in Keys : Standing(k)' = Standing(k)
      BY <2>3 DEF Standing, details
    <3>. QED BY <2>1, <2>2, <2>3, <3>1 DEF Counted, Forever, details
  <2>4. ASSUME NEW j \in Keys, approvals' = [approvals EXCEPT ![j] = None],
               spent' = [spent EXCEPT ![j] = None]
        PROVE  Counted'
    <3>1. \A k \in Keys : (Standing(k)' => Standing(k)) /\ (approvals'[k] # None => approvals'[k] < Forever)
      BY <1>1, <2>4 DEF Standing, Counted
    <3>2. ASSUME NEW k \in Keys
          PROVE  Cardinality(Holders(k)) + (IF Standing(k)' THEN 1 ELSE 0) <= Cardinality(Votes(k))
      BY <1>3, <3>1
    <3>. QED BY <1>3, <2>1, <2>2, <3>1, <3>2 DEF Counted, Forever
  <2>. QED BY <1>6, <2>3, <2>4 DEF Outside
<1>. QED BY <1>4, <1>5, <1>6, Steps

LEMMA TypeNext ==
  ASSUME TypeOK, Kept, Linked, Allowed, Kept', Allowed', [Next]_vars
  PROVE  TypeOK'
<1>1. /\ now \in Nat /\ MaxTime \in Nat /\ Ttl \in Nat /\ Forever \in Nat /\ now + Ttl \in Nat
      /\ approvals \in [Keys -> Nat \cup {None}] /\ spent \in [Keys -> Nat \cup {None}]
  BY AuthorizeAssumption DEF TypeOK, Forever
<1>2. /\ \A v \in Visits : /\ visit'[v].url \in links' \cup {None}
                           /\ visit'[v].pc \in {"grant", "approval", "spend", "issue"}
                                => visit'[v].account \in Accounts
                           /\ visit'[v].pc = "issue" => visit'[v].grant \in Grant
      /\ \A c \in Completions : /\ completion'[c].seen \in Interaction \cup {None}
                                /\ completion'[c].outcome \in Outcome \cup {None}
                                /\ completion'[c].grant \in Grant \cup {None}
  <2>1. ASSUME NEW v \in Visits
        PROVE  /\ visit'[v].url \in links' \cup {None}
               /\ visit'[v].pc \in {"grant", "approval", "spend", "issue"} => visit'[v].account \in Accounts
               /\ visit'[v].pc = "issue" => visit'[v].grant \in Grant
    <3>1. visit'[v] \in VisitState
      BY DEF Kept
    <3>2. visit'[v].account \in Accounts \cup {None} /\ visit'[v].grant \in Grant \cup {None}
      BY <3>1 DEF VisitState
    <3>3. visit'[v].pc = "issue" => visit'[v].grant # None
      BY DEF Allowed, Missing
    <3>. QED BY <3>2, <3>3 DEF Kept
  <2>2. ASSUME NEW c \in Completions
        PROVE  /\ completion'[c].seen \in Interaction \cup {None}
               /\ completion'[c].outcome \in Outcome \cup {None}
               /\ completion'[c].grant \in Grant \cup {None}
    BY DEF Kept, CompletionState
  <2>. QED BY <2>1, <2>2
<1>3. ASSUME NEW v \in Visits, VisitMoves(v) PROVE TypeOK'
  <2>1. /\ UNCHANGED <<backend, sent, now, links, handed, sessions, grants, pushes, responses,
                       approvals, given, votes>>
        /\ AloneV(v)
    BY <1>3 DEF VisitMoves, Elsewhere, world, browsers, consents, history
  <2>2. \A w \in Visits : visit'[w].cookie \in handed' \cup {None}
    <3>1. visit'[v].cookie \in handed \cup {None}
      BY <1>3 DEF VisitMoves, Arrives, Enters, Signs, Consults, Finishes, SameVisit, SameUrl, TypeOK
    <3>. QED BY <2>1, <3>1 DEF AloneV, TypeOK
  <2>3. consumed' \subseteq {"interaction"} \X Visits \cup {"push"} \X PushIds
                              \cup {"response"} \X Completions
    <3>1. CASE Enters(v)
      <4>1. visit[v].pc # "idle"
        BY <3>1 DEF Enters
      <4>2. /\ visit[v].url.push \in PushIds \cup {None}
            /\ visit[v].url.response \in Completions \cup {None}
        BY <4>1, VisitKnows, UrlFields
      <4>. QED BY <3>1, <4>2 DEF Enters, Consume, Kept, TypeOK
    <3>2. CASE Arrives(v) \/ Signs(v) \/ Consults(v) \/ Finishes(v)
      BY <3>2 DEF Arrives, Signs, Consults, Finishes, Quiet, TypeOK
    <3>. QED BY <1>3, <3>1, <3>2 DEF VisitMoves
  <2>4. /\ interactions' \in [Visits -> Interaction \cup {None}]
        /\ codes' \subseteq Code /\ spent' \in [Keys -> Nat \cup {None}]
    <3>1. CASE Arrives(v) \/ Enters(v) \/ Signs(v) \/ Consults(v)
      BY <3>1 DEF Arrives, Enters, Signs, Consults, Quiet, Marks, TypeOK
    <3>2. CASE Finishes(v)
      <4>1. /\ visit[v].url \in Url /\ visit[v].account \in Accounts \cup {None}
            /\ RequestOf(v) \in Requests /\ visit[v].grant \in Grant \cup {None}
        BY <3>2, VisitKnows DEF Finishes
      <4>2. [url |-> visit[v].url, account |-> visit[v].account, expires |-> now + Ttl] \in Interaction
        BY <1>1, <4>1 DEF Interaction
      <4>3. visit[v].pc = "issue" => CodeOf(v) \in Code
        <5>1. visit[v].pc = "issue" => visit[v].account \in Accounts /\ visit[v].grant.id \in Completions
          BY DEF TypeOK, Grant
        <5>. QED BY <4>1, <5>1 DEF CodeOf, Code
      <4>4. spent' \in [Keys -> Nat \cup {None}]
        BY <1>1, <3>2 DEF Finishes, Marks
      <4>5. interactions' \in [Visits -> Interaction \cup {None}]
        BY <3>2, <4>2 DEF Finishes, Marks, TypeOK
      <4>6. codes' \subseteq Code
        BY <3>2, <4>3 DEF Finishes, Marks, TypeOK
      <4>. QED BY <4>4, <4>5, <4>6
    <3>. QED BY <1>3, <3>1, <3>2 DEF VisitMoves
  <2>. QED BY <1>2, <2>1, <2>2, <2>3, <2>4 DEF TypeOK
<1>4. ASSUME NEW c \in Completions, CompletionMoves(c) PROVE TypeOK'
  <2>1. UNCHANGED <<backend, sent, now, spent, codes, visit>>
    BY <1>4 DEF CompletionMoves, world
  <2>2. completion[c].pc # "done" /\ (completion[c].pc = "idle" => Loads(c))
    BY <1>4 DEF CompletionMoves, Loads, Takes, Opens, Recalls, Records, Approves, Passes, Returns
  <2>3. c \in SessionIds /\ c \in PushIds
    BY DEF SessionIds, PushIds
  <2>4. links' \subseteq Url /\ handed' \subseteq SessionIds /\ handed \subseteq handed'
    <3>1. CASE UNCHANGED browsers
      BY <3>1 DEF browsers, TypeOK
    <3>2. CASE Passes(c)
      <4>1. completion[c].pc # "idle"
        BY <3>2 DEF Passes
      <4>2. [request |-> RequestAnswered(c), asks |-> {}, push |-> None,
             response |-> c, from |-> c] \in Url
        BY <4>1, CompletionKnows DEF Url
      <4>. QED BY <3>2, <4>2 DEF Passes, TypeOK
    <3>3. CASE Returns(c)
      <4>1. completion[c].pc # "idle"
        BY <3>3 DEF Returns
      <4>2. RequestAnswered(c) \in Requests /\ UrlOf(c).asks \in SUBSET Asks
        BY <4>1, CompletionKnows, UrlFields
      <4>3. Remaining(UrlOf(c).asks, completion[c].outcome.login # None) \in SUBSET Asks
        BY <4>2 DEF Remaining
      <4>4. Resumed(c) \in Url
        BY <2>3, <4>2, <4>3 DEF Resumed, Url
      <4>. QED BY <2>3, <3>3, <4>4 DEF Returns, TypeOK
    <3>4. CASE Loads(c) \/ Takes(c) \/ Opens(c) \/ Recalls(c) \/ Records(c) \/ Approves(c)
      BY <3>1, <3>4 DEF Loads, Takes, Opens, Recalls, Records, Approves
    <3>. QED BY <1>4, <3>2, <3>3, <3>4 DEF CompletionMoves
  <2>5. /\ sessions' \in [SessionIds -> Accounts \cup {None}]
        /\ grants' \subseteq Grant /\ given' \subseteq Accounts \X Clients \X Scopes
    <3>1. CASE Opens(c)
      <4>1. completion[c].outcome.login \in Accounts \cup {None}
        BY <3>1, CompletionKnows DEF Opens
      <4>. QED BY <2>3, <3>1, <4>1 DEF Opens, history, TypeOK
    <3>2. CASE Records(c)
      <4>1. Accumulated(c) \in Grant /\ Gives(c) \subseteq Accounts \X Clients \X Scopes
        BY <3>2, Accumulates DEF Records
      <4>. QED BY <3>2, <4>1 DEF Records, TypeOK
    <3>3. CASE Loads(c) \/ Takes(c) \/ Recalls(c) \/ Approves(c) \/ Passes(c) \/ Returns(c)
      BY <3>3 DEF Loads, Takes, Recalls, Approves, Passes, Returns, consents, history, TypeOK
    <3>. QED BY <1>4, <3>1, <3>2, <3>3 DEF CompletionMoves
  <2>6. /\ interactions' \in [Visits -> Interaction \cup {None}]
        /\ pushes' \in [PushIds -> Nat \cup {None}]
        /\ responses' \in [Completions -> Nat \cup {None}]
    <3>1. CASE Passes(c)
      BY <1>1, <3>1 DEF Passes, TypeOK
    <3>2. CASE Returns(c)
      BY <1>1, <2>3, <3>2 DEF Returns, TypeOK
    <3>3. CASE Loads(c) \/ Takes(c) \/ Opens(c) \/ Recalls(c) \/ Records(c) \/ Approves(c)
      BY <3>3 DEF Loads, Takes, Opens, Recalls, Records, Approves, artifacts, TypeOK
    <3>. QED BY <1>4, <3>1, <3>2, <3>3 DEF CompletionMoves
  <2>7. consumed' \subseteq {"interaction"} \X Visits \cup {"push"} \X PushIds
                              \cup {"response"} \X Completions
    <3>1. CASE Takes(c)
      <4>1. completion[c].interaction \in Visits
        BY <3>1, CompletionKnows DEF Takes
      <4>. QED BY <3>1, <4>1 DEF Takes, Consume, TypeOK
    <3>2. CASE Loads(c) \/ Opens(c) \/ Recalls(c) \/ Records(c) \/ Approves(c) \/ Passes(c) \/ Returns(c)
      BY <3>2 DEF Loads, Opens, Recalls, Records, Approves, Passes, Returns, artifacts, TypeOK
    <3>. QED BY <1>4, <3>1, <3>2 DEF CompletionMoves
  <2>8. approvals' \in [Keys -> Nat \cup {None}] /\ votes' \subseteq Completions \X Keys
    <3>1. CASE Approves(c)
      <4>1. completion[c].pc = "approve" /\ completion[c].account = Consenting(c)
        BY <3>1 DEF Approves, Allowed
      <4>2. /\ completion[c].account \in Accounts /\ ClientOf[RequestAnswered(c)] \in Clients
            /\ DetailsOf[RequestAnswered(c)] \in Details
        BY <4>1, CompletionKnows DEF Kept, CompletionState, DetailsAnswered
      <4>3. KeyOf(completion[c].account, RequestAnswered(c)) \in Keys
        BY <4>2 DEF KeyOf, Keys
      <4>. QED BY <1>1, <3>1, <4>1, <4>3 DEF Approves, TypeOK
    <3>2. CASE Loads(c) \/ Takes(c) \/ Opens(c) \/ Recalls(c) \/ Records(c) \/ Passes(c) \/ Returns(c)
      BY <3>2 DEF Loads, Takes, Opens, Recalls, Records, Passes, Returns, history, TypeOK
    <3>. QED BY <1>4, <3>1, <3>2 DEF CompletionMoves
  <2>9. \A v \in Visits : visit'[v].cookie \in handed' \cup {None}
    BY <2>1, <2>4 DEF TypeOK
  <2>. QED BY <1>2, <2>1, <2>4, <2>5, <2>6, <2>7, <2>8, <2>9, <1>1 DEF TypeOK
<1>5. CASE Outside
  <2>1. links' \subseteq Url
    <3>1. ASSUME NEW r \in Requests
          PROVE  [request |-> r, asks |-> AsksOf[r], push |-> r, response |-> None, from |-> None] \in Url
      BY AuthorizeAssumption DEF Url, PushIds
    <3>. QED BY <1>5, <3>1 DEF Outside, TypeOK
  <2>2. approvals' \in [Keys -> Nat \cup {None}] /\ spent' \in [Keys -> Nat \cup {None}]
    BY <1>1, <1>5 DEF Outside, details
  <2>3. /\ UNCHANGED <<backend, sent, handed, sessions, interactions, responses, consumed, codes,
                       given, votes, visit, completion>>
        /\ grants' \subseteq grants
        /\ pushes' \in [PushIds -> Nat \cup {None}] /\ now' \in 0..MaxTime
    BY <1>5 DEF Outside, history
  <2>. QED BY <1>2, <2>1, <2>2, <2>3 DEF TypeOK
<1>. QED BY <1>3, <1>4, <1>5, Steps

LEMMA InitInv == Init => IInv
<1> SUFFICES ASSUME Init PROVE IInv
  OBVIOUS
<1>1. \A v \in Visits : /\ visit[v].pc = "idle" /\ visit[v].url = None /\ visit[v].cookie = None
                        /\ visit[v].account = None /\ visit[v].grant = None
                        /\ visit[v] \in VisitState
  BY DEF Init, VisitState, VisitPcs
<1>2. \A c \in Completions : /\ completion[c].pc = "idle" /\ completion[c].interaction = None
                             /\ completion[c].seen = None /\ completion[c].outcome = None
                             /\ completion[c].account = None /\ completion[c].grant = None
                             /\ completion[c] \in CompletionState
  BY DEF Init, CompletionState, CompletionPcs
<1>3. \A u \in links : u \in Url /\ u.push = None /\ u.response = None /\ u.from = None
  <2> SUFFICES ASSUME NEW u \in links PROVE u \in Url /\ u.push = None /\ u.response = None /\ u.from = None
    OBVIOUS
  <2>1. PICK r \in sent \ Pushed :
          u = [request |-> r, asks |-> AsksOf[r], push |-> None, response |-> None, from |-> None]
    BY DEF Init
  <2>2. r \in Requests /\ AsksOf[r] \in SUBSET Asks
    BY <2>1, AuthorizeAssumption DEF Init
  <2>. QED BY <2>1, <2>2 DEF Url
<1>4. Kept
  BY <1>1, <1>2 DEF Init, Kept
<1>5. Linked
  BY <1>3 DEF Linked
<1>6. Taken
  BY <1>1, <1>2 DEF Taken, Past, Accepted
<1>7. Allowed
  BY <1>1, <1>2 DEF Init, Allowed
<1>8. Entered
  <2>1. \A c \in Completions : c \notin handed
    BY AuthorizeAssumption DEF Init
  <2>. QED BY <1>1, <1>2, <2>1 DEF Entered, LoginSticks
<1>9. Counted
  <2>1. ASSUME NEW k \in Keys
        PROVE  Votes(k) = {} /\ Holders(k) = {} /\ ~Standing(k) /\ approvals[k] = None
    BY <1>1 DEF Init, Votes, Holders, Standing
  <2>2. IsFiniteSet({}) /\ Cardinality({}) = 0
    BY FS_EmptySet
  <2>3. votes = {}
    BY DEF Init
  <2>. QED BY <2>1, <2>2, <2>3 DEF Counted
<1>10. TypeOK
  <2>1. sessions \in [SessionIds -> Accounts \cup {None}] /\ handed \subseteq SessionIds
    BY AuthorizeAssumption DEF Init, SessionIds
  <2>2. now \in 0..MaxTime
    BY AuthorizeAssumption DEF Init
  <2>. QED BY <1>1, <1>2, <1>3, <2>1, <2>2 DEF Init, TypeOK
<1>. QED BY <1>4, <1>5, <1>6, <1>7, <1>8, <1>9, <1>10 DEF IInv

-----------------------------------------------------------------------------
\* The invariant holds in every behaviour: what visits and completions remember agrees with what
\* is stored, consumed and allowed (authorization.ts, interactions.ts).
THEOREM Invariance == Spec => []IInv
<1>1. IInv /\ [Next]_vars => IInv'
  BY KeptNext, LinkedNext, TakenNext, AllowedNext, EnteredNext, CountedNext, TypeNext DEF IInv
<1>. QED BY InitInv, <1>1, PTL DEF Spec

\* What visits, interactions, grants and codes are in every behaviour, types and all: a consent
\* and a code are always somebody's (interactions.ts:101, authorization.ts:319).
THEOREM TypeCorrect == Spec => []TypeOK
<1>1. IInv => TypeOK
  BY DEF IInv
<1>. QED BY <1>1, Invariance, PTL

\* Codes are told apart by the visits that issued them, which are past the approval.
LEMMA CodesAreHeld ==
  ASSUME TypeOK, Allowed, Counted, NEW k \in Keys
  PROVE  Cardinality(DetailCodes(k)) <= Cardinality(Votes(k))
<1> DEFINE f == [code \in DetailCodes(k) |-> code.id]
<1>1. IsFiniteSet(Holders(k)) /\ Cardinality(Holders(k)) \in Nat /\ Cardinality(Votes(k)) \in Nat
      /\ Cardinality(Holders(k)) <= Cardinality(Votes(k))
  <2>1. /\ IsFiniteSet(Holders(k)) /\ IsFiniteSet(Votes(k))
        /\ Cardinality(Holders(k)) + (IF Standing(k) THEN 1 ELSE 0) <= Cardinality(Votes(k))
    BY DEF Counted
  <2>2. Cardinality(Holders(k)) \in Nat /\ Cardinality(Votes(k)) \in Nat
    BY <2>1, FS_CardinalityType
  <2>. QED BY <2>1, <2>2
<1>2. ASSUME NEW code \in DetailCodes(k)
      PROVE  code.id \in Holders(k) /\ code = CodeOf(code.id)
  <2>1. code \in codes /\ DetailsOf[code.request] # None /\ KeyOf(code.account, code.request) = k
    BY DEF DetailCodes
  <2>2. code.id \in Visits
    BY <2>1 DEF TypeOK, Code
  <2>3. visit[code.id].pc = "issued" /\ code = CodeOf(code.id)
    BY <2>1 DEF Allowed
  <2>4. code.account = visit[code.id].account /\ code.request = RequestOf(code.id)
    BY <2>3 DEF CodeOf
  <2>. QED BY <2>1, <2>2, <2>3, <2>4 DEF Holders
<1>3. f \in Injection(DetailCodes(k), Holders(k))
  <2>1. f \in [DetailCodes(k) -> Holders(k)]
    BY <1>2
  <2>2. \A x, y \in DetailCodes(k) : f[x] = f[y] => x = y
    <3> SUFFICES ASSUME NEW x \in DetailCodes(k), NEW y \in DetailCodes(k), x.id = y.id PROVE x = y
      OBVIOUS
    <3>. QED BY <1>2
  <2>. QED BY <2>1, <2>2 DEF Injection, IsInjective
<1>4. IsFiniteSet(DetailCodes(k)) /\ Cardinality(DetailCodes(k)) <= Cardinality(Holders(k))
  BY <1>1, <1>3, FS_Injection
<1>5. Cardinality(DetailCodes(k)) \in Nat
  BY <1>4, FS_CardinalityType
<1>. QED BY <1>1, <1>4, <1>5

\* What a URL, a form or an approval was handed out for is used once, however many present it at
\* the same time (interactions.ts:65, par.ts:93, provider.ts:74, authorization.ts:314).
THEOREM TakesOnce == Spec => []UsedOnce
<1>1. IInv => UsedOnce
  <2> SUFFICES ASSUME IInv PROVE UsedOnce
    OBVIOUS
  <2>1. TypeOK /\ Kept /\ Taken /\ Allowed /\ Counted
    BY DEF IInv
  <2>2. \A v \in Visits : Resolved(v) => Past(v)
    BY <2>1 DEF Kept, Resolved, Past
  <2>3. TakenOnce
    BY <2>1, <2>2 DEF Taken, TakenOnce
  <2>4. ApprovalSpentOnce
    BY <2>1, CodesAreHeld DEF ApprovalSpentOnce
  <2>. QED BY <2>3, <2>4 DEF UsedOnce
<1>. QED BY <1>1, Invariance, PTL

\* A code carries no scope its account did not allow its client (authorization.ts:260, 295).
THEOREM CodesAreCovered == Spec => []ConsentCovers
<1>1. IInv => ConsentCovers
  <2> SUFFICES ASSUME IInv, NEW code \in codes, NEW s \in ScopesOf[code.request]
               PROVE  <<code.account, ClientOf[code.request], s>> \in given
    BY DEF ConsentCovers
  <2> DEFINE v == code.id
  <2>1. v \in Visits
    BY DEF IInv, TypeOK, Code
  <2>2. visit[v].pc = "issued" /\ code = CodeOf(v)
    BY DEF IInv, Allowed
  <2>3. code.account = visit[v].account /\ code.request = RequestOf(v)
    BY <2>2 DEF CodeOf
  <2> HIDE DEF v
  <2>4. visit[v].grant # None /\ ScopesOf[RequestOf(v)] \subseteq visit[v].grant.scopes
    BY <2>1, <2>2 DEF IInv, Allowed, Missing
  <2>5. /\ visit[v].grant.account = visit[v].account
        /\ visit[v].grant.client = ClientOf[RequestOf(v)] /\ Covered(visit[v].grant)
    BY <2>1, <2>2, <2>4 DEF IInv, Allowed
  <2>. QED BY <2>3, <2>4, <2>5 DEF Covered
<1>. QED BY <1>1, Invariance, PTL

\* A login that has been answered is not asked for again (interactions.ts:198-208).
THEOREM LoginIsNotAskedAgain == Spec => []LoginSticks
<1>1. IInv => LoginSticks
  BY DEF IInv, Entered
<1>. QED BY <1>1, Invariance, PTL
=============================================================================
