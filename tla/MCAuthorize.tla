----------------------------- MODULE MCAuthorize -----------------------------
(* Instances of Authorize small enough for TLC. *)
EXTENDS Authorize, TLC

CONSTANTS s1, a1, a2, c1, c2, d1, pay, quiet, pushed, astray, front, odd, openid, email

Owner == [s \in Earlier |-> a1]
Sender == [r \in Requests |-> IF r = front THEN c2 ELSE c1]
\* `pay` and `quiet` carry the same details, `quiet` with prompt=none; `pushed` asks for a
\* second scope and a fresh login.
Wants == [r \in Requests |-> IF r = pushed THEN {openid, email} ELSE {openid}]
Carries == [r \in Requests |-> IF r \in {pay, quiet} THEN d1 ELSE None]
Prompts == [r \in Requests |-> CASE r = quiet -> {"none"} [] r = pushed -> {"login", "measure"}
                                 [] OTHER -> {}]

\* A native app: `pay` returns to another port than the registered one, `astray` to another
\* place; `odd` comes without a challenge, `pay` with a dpop_jkt that nobody reads, and `front`
\* from a client that must push.
App == [place |-> "app", loopback |-> TRUE, port |-> 0]
Fields == [r \in Requests |->
  [redirect |-> CASE r = pay -> [App EXCEPT !.port = 1]
                  [] r = astray -> [App EXCEPT !.place = "elsewhere"] [] OTHER -> App,
   type |-> "code", nonce |-> TRUE, challenge |-> IF r = odd THEN None ELSE "S256",
   flaws |-> IF r = pay THEN {"dpop_jkt"} ELSE {}]]
Native == [redirects |-> {App}, types |-> {"code"}, scopes |-> {openid, email},
           secret |-> FALSE, requirePkce |-> FALSE, mustPush |-> FALSE]
Registrations == [c \in Clients |-> [Native EXCEPT !.mustPush = (c = c2)]]

Decline == [error |-> TRUE, login |-> None, consent |-> None, details |-> FALSE]
SignIn(a) == [Decline EXCEPT !.error = FALSE, !.login = a]
Allow(scopes) == [Decline EXCEPT !.error = FALSE, !.consent = scopes, !.details = TRUE]
\* One account signs in, another signs in and consents at once.
Mixed == {Decline, SignIn(a1), [Allow({openid}) EXCEPT !.login = a2], Allow({openid, email})}

Symmetry == Permutations(Visits) \cup Permutations(Completions)
=============================================================================
