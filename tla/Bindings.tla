------------------------------- MODULE Bindings -------------------------------
(***************************************************************************)
(* The framework bindings: packages/vue, packages/angular and              *)
(* packages/react, each one way of drawing the client library's token, and *)
(* the credential form all three wrap (packages/core/src/form.ts,          *)
(* packages/client/src/form.ts).                                           *)
(*                                                                         *)
(* A write of a store runs its listeners before it returns, and a listener *)
(* may write again: `cascade` holds the writes under way, the innermost    *)
(* first.  Nothing else on the page runs until it is empty.  What the      *)
(* instance does with its token beyond that is ClientLibrary's.            *)
(*                                                                         *)
(* On a server each request has an instance and a render of its own, and   *)
(* the renders interleave wherever one of them awaits.  They share the     *)
(* lookup of discovery documents (packages/core/src/discovery.ts).         *)
(***************************************************************************)
EXTENDS Naturals, Sequences, SequencesExt

CONSTANTS
  Frameworks, \* of "vue", "angular", "react"
  Attempts,   \* submissions of the form
  Names,      \* what is typed into its fields
  Tokens,     \* access tokens
  Errors,     \* error descriptions
  Renders,    \* requests a server renders
  Issuers,    \* issuerPath
  MaxFetches, \* requests for a discovery document
  Undefined

\* A request is not the absence of one.
ASSUME BindingsAssumption == Undefined \notin Renders

VARIABLES
  page,      \* the page's framework, or Undefined on a server
  held,      \* tokenStore's value
  lapsed,    \* the access tokens whose lifetime is over
  listeners, \* tokenStore's listeners, in the order they subscribed
  last,      \* what each of them last selected: watchStore's `previous`
  cascade,   \* the writes under way: the listeners each has yet to call
  drawn,     \* what the ref, the signal or the component's snapshot holds
  derived,   \* computed(() => tokenState(token)): Undefined until it is read again
  form,      \* the controller's store
  attempt,   \* [Attempts -> where a submission is, and what it sent]
  context,   \* the render whose injection context is open, or Undefined
  render,    \* [Renders -> a server render, and the instances it resolved]
  cache,     \* createDiscovery's Map: [Issuers -> a fetch, or 0]
  fetches    \* what each fetch of a document came to

view == <<page, held, lapsed, listeners, last, cascade, drawn, derived, form, attempt, context,
          render, cache, fetches>>
bound == <<listeners, last, drawn>>
lookup == <<cache, fetches>>
server == <<context, render, lookup>>

\* What the bindings read of a token.
TokenRead == [access : Tokens \cup {Undefined}, expires : BOOLEAN, error : Errors \cup {Undefined}]
Empty == [access |-> Undefined, expires |-> FALSE, error |-> Undefined]
Session(a) == [Empty EXCEPT !.access = a]
Refusal(e) == [Empty EXCEPT !.error = e]

Settled == cascade = <<>>
Listens(l) == Contains(listeners, l)

-----------------------------------------------------------------------------
(* The store and its listeners. *)

Expired(v) == v.expires /\ v.access \in lapsed

\* tokenState(v).status
TokenState(v) ==
  IF v.error # Undefined THEN "DENIED"
  ELSE IF v.access # Undefined /\ ~Expired(v) THEN "AUTHORIZED" ELSE "NOT_AUTHORIZED"

InstanceAuthorized == TokenState(held) = "AUTHORIZED"

\* setState, `rest` being the writes it is made inside of
SetStoreState(v, rest) ==
  /\ held' = v
  /\ cascade' = IF v = held THEN rest ELSE <<listeners>> \o rest

\* checkToken of a token that has not expired only works out its `expires`
Revalidate(rest) ==
  IF held.access # Undefined /\ ~held.expires
  THEN SetStoreState([held EXCEPT !.expires = TRUE], rest)
  ELSE held' = held /\ cascade' = rest

\* watchStore: the listener is given the state as it is now, not as the write left it.
Wakes(l, selected) ==
  /\ ~Settled /\ Head(cascade) # <<>> /\ Head(Head(cascade)) = l
  /\ last' = [last EXCEPT ![l] = selected]
Called == <<Tail(Head(cascade))>> \o Tail(cascade)

Draw ==
  /\ Wakes("drawn", held)
  /\ cascade' = Called
  /\ IF held = last["drawn"] THEN UNCHANGED <<drawn, derived>>
     ELSE drawn' = held /\ derived' = Undefined
  /\ UNCHANGED <<page, held, lapsed, listeners, form, attempt, server>>

Check ==
  /\ Wakes("check", held.access)
  /\ IF held.access = last["check"] THEN held' = held /\ cascade' = Called ELSE Revalidate(Called)
  /\ UNCHANGED <<page, lapsed, listeners, drawn, derived, form, attempt, server>>

Returned ==
  /\ ~Settled /\ Head(cascade) = <<>>
  /\ cascade' = Tail(cascade)
  /\ UNCHANGED <<page, held, lapsed, bound, derived, form, attempt, server>>

-----------------------------------------------------------------------------
(* A page.  Vue and Angular make their refs and signals first and start the  *)
(* instance then; a React component mounts over an instance already started. *)

InBrowser(doing) == page # Undefined /\ Settled /\ doing

EmptyForm == [name |-> "", secret |-> "", submitted |-> FALSE, submitting |-> FALSE,
              dismissed |-> Undefined]

\* Mutant: nothing is drawn before the first change.
SeedEmpty ==
  /\ InBrowser(~Listens("drawn"))
  /\ drawn' = Empty /\ derived' = Undefined
  /\ listeners' = Append(listeners, "drawn") /\ last' = [last EXCEPT !["drawn"] = held]
  /\ form' = EmptyForm
  /\ UNCHANGED <<page, held, lapsed, cascade, attempt, server>>

\* storeRef and its likes: seeded with what the store holds, then subscribed
Seed ==
  /\ InBrowser(~Listens("drawn"))
  /\ drawn' = held /\ derived' = Undefined
  /\ listeners' = Append(listeners, "drawn") /\ last' = [last EXCEPT !["drawn"] = held]
  /\ form' = EmptyForm
  /\ UNCHANGED <<page, held, lapsed, cascade, attempt, server>>

CreateOAuth == page = "vue" /\ ~Listens("check") /\ Seed
CreateNgxOAuth == page = "angular" /\ ~Listens("check") /\ Seed
UseStoreValue == page = "react" /\ Listens("check") /\ Seed

\* start(): the watcher of the access token, and a first check
Start ==
  /\ InBrowser(~Listens("check")) /\ (page = "react" \/ Listens("drawn"))
  /\ listeners' = Append(listeners, "check") /\ last' = [last EXCEPT !["check"] = held.access]
  /\ IF held.access # Undefined /\ ~held.expires
       THEN held' = [held EXCEPT !.expires = TRUE] /\ cascade' = <<listeners'>>
       ELSE UNCHANGED <<held, cascade>>
  /\ UNCHANGED <<page, lapsed, drawn, derived, form, attempt, server>>

\* Whoever draws is gone, and an attempt under way answers nobody.
Leaves(rest) ==
  /\ InBrowser(Listens("drawn")) /\ Listens("check")
  /\ listeners' = rest
  /\ attempt' = [a \in Attempts |-> [attempt[a] EXCEPT !.shown = FALSE]]
  /\ UNCHANGED <<page, held, lapsed, last, cascade, drawn, derived, form, server>>

Unmount ==
  /\ page = "react"
  /\ \E i \in DOMAIN listeners : listeners[i] = "drawn" /\ Leaves(RemoveAt(listeners, i))

\* The scope or the injector that owns the instance ends, and the instance with it.
DisposeScope == page \in {"vue", "angular"} /\ Leaves(<<>>)

\* The application writes the token: setToken, token.value = v, token.set(v).
SetToken ==
  /\ InBrowser(Listens("check"))
  /\ \E v \in {Empty} \cup {Session(a) : a \in Tokens \ lapsed} : v # held /\ SetStoreState(v, <<>>)
  /\ UNCHANGED <<page, lapsed, bound, derived, form, attempt, server>>

\* What is drawn of the status.  Vue and Angular work it out once for each token their ref is
\* given; a React component does whenever it renders.
Status == IF derived = Undefined \/ page = "react" THEN TokenState(drawn) ELSE derived

Read ==
  /\ InBrowser(Listens("drawn"))
  /\ derived' = Status
  /\ UNCHANGED <<page, held, lapsed, bound, cascade, form, attempt, server>>

Expire(a) ==
  /\ InBrowser(a \notin lapsed) /\ lapsed' = lapsed \cup {a}
  /\ UNCHANGED <<page, held, bound, cascade, derived, form, attempt, server>>

-----------------------------------------------------------------------------
(* The credential form. *)

Patch(fields) == form' = fields

\* oauthFieldError, "long" standing for what exceeds maxLength
FieldError(value) == CASE value = "" -> "required" [] value = "long" -> "tooLong" [] OTHER -> Undefined

\* oauthFormView, over the token the binding draws
Valid(f) == FieldError(f.name) = Undefined /\ FieldError(f.secret) = Undefined
ErrorShown == IF drawn.error = form.dismissed THEN Undefined ELSE drawn.error

Typing == InBrowser(Listens("drawn")) /\ UNCHANGED <<page, held, lapsed, bound, cascade, derived,
                                                attempt, server>>

SetUsername(n) == Typing /\ Patch([form EXCEPT !.name = n])
SetPassword(n) == Typing /\ Patch([form EXCEPT !.secret = n])
DismissError == Typing /\ ErrorShown # Undefined /\ Patch([form EXCEPT !.dismissed = held.error])

\* submit, up to the login: a form that is not valid says so and sends nothing
Submit(a) ==
  /\ InBrowser(Listens("drawn")) /\ Listens("check") /\ attempt[a].at = "new"
  /\ Patch([form EXCEPT !.submitted = TRUE, !.dismissed = Undefined, !.submitting = Valid(form) \/ @])
  /\ attempt' = [attempt EXCEPT ![a] = IF Valid(form)
       THEN [at |-> "sent", shown |-> TRUE]
       ELSE [@ EXCEPT !.at = "done"]]
  /\ UNCHANGED <<page, held, lapsed, bound, cascade, derived, server>>

\* The provider answers login with a token or an error, or it throws.
LoginAnswers(a) ==
  /\ InBrowser(attempt[a].at = "sent")
  /\ attempt' = [attempt EXCEPT ![a].at = "answered"]
  /\ \/ \E t \in Tokens \ lapsed : SetStoreState(Session(t), <<>>)
     \/ \E e \in Errors : SetStoreState(Refusal(e), <<>>)
     \/ UNCHANGED <<held, cascade>>
  /\ UNCHANGED <<page, lapsed, bound, derived, form, server>>

\* The instance the form was made for is signed in: React's form asks the instance, the
\* others ask what they draw.
SignedIn == IF page = "react" THEN InstanceAuthorized ELSE Status = "AUTHORIZED"

Rest(f) == [f EXCEPT !.name = IF SignedIn THEN "" ELSE @, !.secret = "", !.submitted = FALSE]

\* Mutant: the form is freed only by an attempt that signs in.
FinallyLocked(a) ==
  /\ InBrowser(attempt[a].at = "answered")
  /\ attempt' = [attempt EXCEPT ![a].at = "done"]
  /\ IF attempt[a].shown
       THEN Patch([Rest(form) EXCEPT !.submitting = @ /\ ~SignedIn]) /\ derived' = Status
       ELSE UNCHANGED <<form, derived>>
  /\ UNCHANGED <<page, held, lapsed, bound, cascade, server>>

\* submit's finally: a rejected attempt loses its password and keeps its name.  The form of
\* a component that has left is nobody's.
Finally(a) ==
  /\ InBrowser(attempt[a].at = "answered")
  /\ attempt' = [attempt EXCEPT ![a].at = "done"]
  /\ IF attempt[a].shown
       THEN Patch([Rest(form) EXCEPT !.submitting = FALSE]) /\ derived' = Status
       ELSE UNCHANGED <<form, derived>>
  /\ UNCHANGED <<page, held, lapsed, bound, cascade, server>>

-----------------------------------------------------------------------------
(* Server renders.  Each creates its instance and installs or provides it.   *)
(* A stretch of a render with nothing awaited has its injection context      *)
(* open, or none where the code runs after an await of its own.              *)

Unseen == <<page, held, lapsed, listeners, last, cascade, drawn, derived, form, attempt>>

RenderAt(r, at) == render' = [render EXCEPT ![r].at = at]
Running(r) == render[r].at = "rendering"

Begin(r) ==
  /\ page = Undefined /\ render[r].at = "new" /\ ~\E o \in Renders : Running(o)
  /\ RenderAt(r, "rendering") /\ context' = r
  /\ UNCHANGED <<Unseen, lookup>>

Await(r) ==
  /\ Running(r)
  /\ RenderAt(r, "waiting") /\ context' = Undefined
  /\ UNCHANGED <<Unseen, lookup>>

\* Another component's setup has the context, the rest of an async function has not.
Resume(r) ==
  /\ render[r].at = "waiting" /\ ~\E o \in Renders : Running(o)
  /\ RenderAt(r, "rendering") /\ context' \in {r, Undefined}
  /\ UNCHANGED <<Unseen, lookup>>

\* Mutant: with no context open any instance will do.
InstanceAmbient(r) ==
  IF context # Undefined THEN {context} ELSE {o \in Renders : render[o].at \notin {"new", "disposed"}}

\* getActiveOAuth, inject(OAUTH): the context's instance, or an error
Instance(r) == IF context = Undefined THEN {} ELSE {context}

\* useOAuthInstance
Resolve(r) ==
  /\ Running(r)
  /\ IF Instance(r) = {} THEN RenderAt(r, "failed")
     ELSE \E i \in Instance(r) : render' = [render EXCEPT ![r].got = @ \cup {i}]
  /\ context' = IF Instance(r) = {} THEN Undefined ELSE context
  /\ UNCHANGED <<Unseen, lookup>>

\* The lookup the renders share: a fetch under way is awaited, not repeated.
Discover(r) ==
  LET issuer == render[r].issuer
      known == IF cache[issuer] # 0 THEN cache[issuer] ELSE Len(fetches) + 1
  IN
  /\ Running(r) /\ render[r].endpoints = Undefined /\ known <= MaxFetches
  /\ cache' = [cache EXCEPT ![issuer] = known]
  /\ fetches' = IF known <= Len(fetches) THEN fetches ELSE Append(fetches, "pending")
  /\ render' = [render EXCEPT ![r].at = "looking", ![r].fetch = known]
  /\ context' = Undefined
  /\ UNCHANGED Unseen

\* The host serves a document, whichever issuer that asserts, or it fails.
Fetched(i) ==
  /\ fetches[i] = "pending"
  /\ \E answer \in Issuers \cup {"failed"} : fetches' = [fetches EXCEPT ![i] = answer]
  /\ UNCHANGED <<Unseen, context, render, cache>>

\* assertIssuer
Asserted(r, document) == document = render[r].issuer

\* What a render goes on with: a document's endpoints, an error, or nothing where the
\* fetch failed, which is then not remembered.
Looked(r) ==
  LET document == fetches[render[r].fetch] IN
  /\ render[r].at = "looking" /\ document # "pending"
  /\ cache' = IF document = "failed" THEN [cache EXCEPT ![render[r].issuer] = 0] ELSE cache
  /\ render' = [render EXCEPT ![r] =
       IF document = "failed" THEN [@ EXCEPT !.at = "waiting"]
       ELSE IF Asserted(r, document) THEN [@ EXCEPT !.at = "waiting", !.endpoints = document]
       ELSE [@ EXCEPT !.at = "failed"]]
  /\ UNCHANGED <<Unseen, context, fetches>>

\* disposeOAuth: in a `finally`, through the application the instance is installed in
DisposeOAuth(r) ==
  /\ Running(r) \/ render[r].at = "failed"
  /\ RenderAt(r, "disposed") /\ context' = IF Running(r) THEN Undefined ELSE context
  /\ UNCHANGED <<Unseen, lookup>>

-----------------------------------------------------------------------------
BindingsInit ==
  /\ page \in Frameworks \cup {Undefined}
  /\ held \in {Empty} \cup (IF page = Undefined THEN {} ELSE {Session(a) : a \in Tokens})
  /\ lapsed = {} /\ listeners = <<>> /\ cascade = <<>>
  /\ last = [drawn |-> Empty, check |-> Undefined]
  /\ drawn = Empty /\ derived = Undefined /\ form = EmptyForm
  /\ attempt = [a \in Attempts |-> [at |-> "new", shown |-> FALSE]]
  /\ context = Undefined
  /\ \E of \in [Renders -> Issuers] :
       /\ page # Undefined => of = [r \in Renders |-> CHOOSE i \in Issuers : TRUE]
       /\ render = [r \in Renders |-> [at |-> "new", got |-> {}, issuer |-> of[r],
                                       endpoints |-> Undefined, fetch |-> 0]]
  /\ cache = [i \in Issuers |-> 0] /\ fetches = <<>>

BindingsNext ==
  \/ Draw \/ Check \/ Returned
  \/ CreateOAuth \/ CreateNgxOAuth \/ UseStoreValue \/ Start \/ Unmount \/ DisposeScope
  \/ SetToken \/ Read
  \/ \E a \in Tokens : Expire(a)
  \/ \E n \in Names : SetUsername(n) \/ SetPassword(n)
  \/ DismissError
  \/ \E a \in Attempts : Submit(a) \/ LoginAnswers(a) \/ Finally(a)
  \/ \E r \in Renders : \/ Begin(r) \/ Await(r) \/ Resume(r) \/ Resolve(r)
                         \/ Discover(r) \/ Looked(r) \/ DisposeOAuth(r)
  \/ \E i \in DOMAIN fetches : Fetched(i)

BindingsSpec == BindingsInit /\ [][BindingsNext]_view

-----------------------------------------------------------------------------
(* Properties. *)

\* The types of the variables; a call of a listener is inside at most one other write.
BindingsTypeOK ==
  /\ page \in Frameworks \cup {Undefined} /\ lapsed \subseteq Tokens
  /\ held \in TokenRead /\ drawn \in TokenRead
  /\ Len(listeners) <= 2 /\ Len(cascade) <= 2
  /\ derived \in {Undefined, "DENIED", "AUTHORIZED", "NOT_AUTHORIZED"}
  /\ form \in [name : {""} \cup Names, secret : {""} \cup Names, submitted : BOOLEAN,
               submitting : BOOLEAN, dismissed : Errors \cup {Undefined}]
  /\ attempt \in [Attempts -> [at : {"new", "sent", "answered", "done"}, shown : BOOLEAN]]
  /\ context \in Renders \cup {Undefined}
  /\ render \in [Renders -> [at : {"new", "rendering", "waiting", "looking", "failed",
                                   "disposed"}, got : SUBSET Renders, issuer : Issuers,
                             endpoints : Issuers \cup {Undefined}, fetch : 0..MaxFetches]]
  /\ cache \in [Issuers -> 0..Len(fetches)]
  /\ fetches \in Seq(Issuers \cup {"pending", "failed"})

\* vue/src/refs.ts:9, angular/src/signals.ts:9: once a write and every write made inside
\* it have returned, what the view holds is what the store holds, in whichever order
\* the two listeners subscribed and whatever was stored before they did.
DrawsWhatIsHeld == Settled /\ Listens("drawn") => drawn = held

\* client/src/form.ts:62-64: a form that says it is submitting waits for an answer: the
\* button it disables comes back when login throws, when a component left in between,
\* and when one of two attempts has ended.
NeverStuck ==
  Settled /\ form.submitting /\ Listens("drawn") =>
    \E a \in Attempts : attempt[a].at \in {"sent", "answered"} /\ attempt[a].shown

\* react/src/provider.tsx:13, client/src/module.ts:14, core/src/discovery.ts:35: a render
\* resolves its own request's instance or none, wherever the renders await, and that
\* instance is pointed at its own issuer's endpoints, whichever render fetched them.
OwnInstance ==
  \A r \in Renders :
    render[r].got \subseteq {r} /\ render[r].endpoints \in {Undefined, render[r].issuer}

=============================================================================
