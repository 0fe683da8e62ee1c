------------------------------- MODULE EndSession --------------------------------
(***************************************************************************)
(* Signing out: the end-session endpoint (session/end-session.ts), the     *)
(* interaction in which the person confirms (authorize/interactions.ts),   *)
(* the operator's own (session/management.ts), and what the session's      *)
(* clients are told (session/logout.ts, delivered by the host).            *)
(*                                                                         *)
(* A logout interaction is named by the request that asked for it.  A      *)
(* client that registered where the browser goes next registered one URI,  *)
(* and a client's logout URIs are "back", "front" or both.                 *)
(***************************************************************************)
EXTENDS Clients

ended == <<clients, document, tokens, grant, replay, nonces>>

\* An ID token presented as a hint: whom it was issued to, and whether this provider issued it.
Hints == {None} \cup {[aud |-> App, ours |-> FALSE], [aud |-> App, ours |-> TRUE]}

VerifyHint(hint) == hint # None => hint.ours

ClientFromHint(hint, who) ==
  IF who # None THEN clients[who] ELSE IF hint # None THEN clients[hint.aud] ELSE None

ResolveTarget(client, target, hint) ==
  target # None => client # None /\ hint # None /\ client.postLogoutRedirectUri = target

\* Mutant: a confirmation is one for whatever session the browser is in.
ConfirmsAnySession(i, session) == interactions[i] # None /\ interactions[i].consumed

Confirms(i, session) ==
  /\ interactions[i] # None /\ interactions[i].consumed
  /\ session # None /\ interactions[i].session = session

\* A session the cookie names is ended at once for whoever presents a hint, and else asked about.
Ask(c, cookie, hint, i) ==
  LET session == IF cookie # None /\ sessions[cookie] # None THEN cookie ELSE None
      given == [session |-> session, hint |-> hint, confirmation |-> i]
      seen == IF session = None THEN {} ELSE sessions[session]
  IN IF i # None THEN Confirms(i, session) /\ Begin(c, "end", given, "accept", seen, None)
     ELSE IF session = None THEN Begin(c, "end", given, "done", None, "signed out")
     ELSE Begin(c, "end", given, IF hint = None THEN "ask" ELSE "tell", seen, None)

\* A request that is refused leaves everything as it was.
EndSession(c) ==
  /\ Starts(c) /\ scenario = "logout"
  /\ \E cookie \in Sessions \cup {None}, hint \in Hints, who \in {None, App, Api}, target \in {None, App},
        i \in {i \in Interactions : interactions[i] # None} \cup {None} :
       /\ VerifyHint(hint) /\ ResolveTarget(ClientFromHint(hint, who), target, hint)
       /\ Ask(c, cookie, hint, i)
       /\ Keep /\ UNCHANGED past

\* Mutant: the confirmation is left where it is.
AcceptKept(c) ==
  /\ In(c, "end", "accept")
  /\ past' = [past EXCEPT !.accepted[c] = call[c].given.confirmation]
  /\ Go(c, "tell", call[c].seen) /\ UNCHANGED <<ended, sessions, interactions>>

AcceptConfirmation(c) ==
  /\ In(c, "end", "accept")
  /\ interactions' = [interactions EXCEPT ![call[c].given.confirmation] = None]
  /\ past' = [past EXCEPT !.accepted[c] = call[c].given.confirmation]
  /\ Go(c, "tell", call[c].seen) /\ UNCHANGED <<ended, sessions>>

AskToConfirm(c) ==
  /\ In(c, "end", "ask")
  /\ interactions' = [interactions EXCEPT ![c] = [session |-> call[c].given.session, consumed |-> FALSE]]
  /\ Answer(c, "asked") /\ UNCHANGED <<ended, sessions, past>>

\* The person confirms in the browser the interaction was made for; once.
ConfirmLogout(c) ==
  /\ Starts(c) /\ scenario = "logout"
  /\ \E i \in Interactions :
       /\ interactions[i] # None /\ ~interactions[i].consumed
       /\ interactions' = [interactions EXCEPT ![i].consumed = TRUE]
       /\ Begin(c, "confirm", i, "done", None, interactions[i].session)
       /\ UNCHANGED <<ended, sessions, past>>

\* sessions.destroy of the management API.
DestroySession(c) ==
  /\ Starts(c) /\ scenario = "logout"
  /\ \E s \in Sessions :
       /\ sessions[s] # None
       /\ Begin(c, "manage", [session |-> s], "tell", sessions[s], None)
       /\ Keep /\ UNCHANGED past

-----------------------------------------------------------------------------
(* Telling the clients. *)

\* Mutant: the client that asked is taken to know already.
LogoutTokensOthers(c, list) ==
  IF DefaultSigningAlg(config, None, keys) = None THEN {}
  ELSE {id \in list : clients[id] # None /\ "back" \in clients[id].logoutUris} 
    \ {IF call[c].op = "manage" \/ call[c].given.hint = None THEN None ELSE call[c].given.hint.aud}

LogoutTokens(c, list) ==
  IF DefaultSigningAlg(config, None, keys) = None THEN {}
  ELSE {id \in list : clients[id] # None /\ "back" \in clients[id].logoutUris}

FrontChannelLogouts(c, list) ==
  IF call[c].op = "manage" THEN {}
  ELSE {id \in list : clients[id] # None /\ "front" \in clients[id].logoutUris}

Nameless(list) == \E id \in list : SubjectFor(clients[id], Account) = Unresolved

\* The list was read with the session; the clients on it are read now.
Tell(c) ==
  /\ In(c, "end", "tell") \/ In(c, "manage", "tell")
  /\ LET back == LogoutTokens(c, call[c].seen) IN
     IF Nameless(back) THEN Throw(c)
     ELSE Go(c, "destroy", 
             [back |-> back, front |-> FrontChannelLogouts(c, call[c].seen), list |-> call[c].seen])
  /\ Keep /\ UNCHANGED past

EndOf(c) ==
  /\ In(c, "end", "destroy") \/ In(c, "manage", "destroy")
  /\ sessions' = [sessions EXCEPT ![call[c].given.session] = None]
  /\ past' = [past EXCEPT !.destroyed = @ \cup {c}]
  /\ Go(c, "deliver", call[c].seen) /\ UNCHANGED <<ended, interactions>>

\* The host delivers, or fails to: then the front-channel URLs are not handed to it either.
Deliver(c) == \E delivered \in BOOLEAN :
  /\ In(c, "end", "deliver") \/ In(c, "manage", "deliver")
  /\ ~delivered => call[c].seen.back # {}
  /\ IF delivered
     THEN /\ past' = [past EXCEPT !.notified =
                      @ \cup (call[c].seen.back \X {"back"}) \cup (call[c].seen.front \X {"front"})]
          /\ Answer(c, "signed out")
     ELSE call' = [call EXCEPT ![c].pc = "failed"] /\ UNCHANGED past
  /\ Keep

-----------------------------------------------------------------------------
(* A client not on the session's list is issued tokens under it: the session *)
(* was read when its code was redeemed, and the client joins the list unless *)
(* the session has ended.                                                    *)

Redeem(c) ==
  /\ Starts(c) /\ scenario = "logout"
  /\ \E s \in Sessions, id \in {App, Api} :
       /\ sessions[s] # None /\ id \notin sessions[s]
       /\ Begin(c, "redeem", [session |-> s, client |-> id], "join", sessions[s], None)
       /\ Keep /\ UNCHANGED past

\* Mutant: an ended session is written back with its new client.
JoinRevives(c) ==
  /\ In(c, "redeem", "join")
  /\ LET s == call[c].given.session IN
     sessions' = [sessions EXCEPT ![s] = call[c].seen \cup {call[c].given.client}]
  /\ Answer(c, "issued") /\ UNCHANGED <<ended, interactions, past>>

Join(c) ==
  /\ In(c, "redeem", "join")
  /\ LET s == call[c].given.session IN
     sessions' = [sessions EXCEPT ![s] = IF @ = None THEN None ELSE @ \cup {call[c].given.client}]
  /\ Answer(c, "issued") /\ UNCHANGED <<ended, interactions, past>>

LogoutSteps(c) ==
  \/ EndSession(c) \/ AcceptConfirmation(c) \/ AskToConfirm(c) \/ ConfirmLogout(c) \/ DestroySession(c)
  \/ Tell(c) \/ EndOf(c) \/ Deliver(c) \/ Redeem(c) \/ Join(c)
================================================================================
