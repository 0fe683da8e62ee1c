------------------------------ MODULE Service_proofs ------------------------------
(* Theorems about the endpoints together, for every value of the constants.  What a
   behaviour is about (scenario) is chosen at its start, and so the invariant has, beside
   what all requests share, a part for each scenario. *)
EXTENDS Service, TLAPS

-----------------------------------------------------------------------------
(* What all requests share. *)

Fields == {"op", "pc", "given", "seen", "answer", "after"}

\* A request that has not begun is nothing yet, they begin in order, and what one knows of those
\* that were over when it began stays true; it answers when it is over.
Requested ==
  /\ DOMAIN call = Calls /\ \A c \in Calls : DOMAIN call[c] = Fields
  /\ \A c \in Calls : call[c].pc = "idle" => call[c] = Idle
  /\ \A c \in Calls : call[c].pc # "idle" => call[c].op \in Ops /\ \A d \in 1..(c - 1) : call[d].pc # "idle"
  /\ \A c \in Calls : call[c].after \subseteq {d \in 1..(c - 1) : Ended(d)}
  /\ \A c \in Calls : ~Ended(c) => call[c].answer = None

\* Which requests there are in a scenario.
Fits(op) ==
  /\ op = "post" => scenario \in {"clients", "setup"}
  /\ op \in {"put", "delete", "create", "destroy", "visit"} => scenario = "clients"
  /\ op = "update" => scenario \in {"clients", "tokens", "logout"}
  /\ op = "assert" => scenario = "assertions"
  /\ op = "prove" => scenario = "proofs"
  /\ op \in {"credentials", "exchange", "introspect", "userinfo", "revoke"} => scenario = "tokens"
  /\ op \in {"end", "confirm", "manage", "redeem"} => scenario = "logout"
Scripted == \A c \in Calls : call[c].pc # "idle" => Fits(call[c].op)

Memory == {"used", "from", "told", "bound", "notified", "destroyed", "accepted"}

Common ==
  /\ scenario \in Scenarios /\ ResolveConfig(config) /\ StaticKeyStore(keys)
  /\ Requested /\ Scripted
  /\ now \in Nat /\ DOMAIN past = Memory

-----------------------------------------------------------------------------
\* Calls are numbered, and below one there are only others.
LEMMA CallNumbers ==
  /\ Calls \subseteq Nat \ {0}
  /\ \A c \in Calls : 1..(c - 1) \subseteq Calls \ {c}
  /\ \A c \in Calls : \A d \in Calls : d # c => d \in 1..(c - 1) \/ c \in 1..(d - 1)
<1>1. ASSUME NEW c \in Calls PROVE c \in Nat \ {0} /\ 1..(c - 1) \subseteq Calls \ {c}
  <2>1. PICK s \in Scenarios : c \in 1..Requests[s]
    BY DEF Calls
  <2>2. Requests[s] \in Nat
    BY NamesAssumption
  <2>3. 1..(c - 1) \subseteq 1..Requests[s]
    BY <2>1, <2>2
  <2>. QED BY <2>1, <2>2, <2>3 DEF Calls
<1>2. ASSUME NEW c \in Calls, NEW d \in Calls, d # c PROVE d \in 1..(c - 1) \/ c \in 1..(d - 1)
  BY <1>1, <1>2
<1>. QED BY <1>1, <1>2

\* Another request than c, and what it was.
Others(c) == \A d \in Calls \ {c} : call'[d] = call[d]

\* A request begins.
LEMMA Begun ==
  ASSUME Requested, NEW c, Starts(c), scenario \in Scenarios, NEW op, NEW given, NEW pc, NEW seen, NEW answer,
         Begin(c, op, given, pc, seen, answer), op \in Ops, pc # "idle",
         pc \in {"done", "failed", "dead"} \/ answer = None
  PROVE  /\ c \in Calls /\ call[c] = Idle /\ Others(c)
         /\ call'[c] = [op |-> op, pc |-> pc, given |-> given, seen |-> seen, answer |-> answer,
                        after |-> {d \in Calls : Ended(d)}]
         /\ Requested'
<1>1. c \in Calls /\ call[c].pc = "idle"
  BY DEF Starts, Calls
<1>2. /\ call[c] = Idle /\ Others(c)
      /\ call'[c] = [op |-> op, pc |-> pc, given |-> given, seen |-> seen, answer |-> answer,
                     after |-> {d \in Calls : Ended(d)}]
      /\ DOMAIN call' = Calls
  BY <1>1 DEF Requested, Begin, Others
<1>3. \A d \in Calls : Ended(d) => Ended(d)' /\ d \in 1..(c - 1)
  <2>1. \A d \in Calls : Ended(d) => d # c /\ call[d].pc # "idle"
    BY <1>1 DEF Ended
  <2>2. \A d \in Calls : Ended(d) => Ended(d)'
    BY <2>1, <1>2 DEF Ended, Others
  <2>3. \A d \in Calls : Ended(d) => c \notin 1..(d - 1)
    BY <2>1, <1>1 DEF Requested
  <2>. QED BY <2>1, <2>2, <2>3, <1>1, CallNumbers
<1>4. Requested'
  <2>1. \A d \in Calls : DOMAIN call'[d] = Fields
    BY <1>2 DEF Others, Requested, Fields
  <2>2. \A d \in Calls : call'[d].pc = "idle" => call'[d] = Idle
    BY <1>2 DEF Others, Requested
  <2>3. \A d \in Calls : call'[d].pc # "idle" =>
          call'[d].op \in Ops /\ \A e \in 1..(d - 1) : call'[e].pc # "idle"
    <3>1. \A e \in 1..(c - 1) : call[e].pc # "idle"
      BY DEF Starts
    <3>. QED BY <3>1, <1>1, <1>2, CallNumbers DEF Others, Requested
  <2>4. \A d \in Calls : call'[d].after \subseteq {e \in 1..(d - 1) : Ended(e)'}
    <3>1. call'[c].after \subseteq {e \in 1..(c - 1) : Ended(e)'}
      BY <1>2, <1>3
    <3>2. ASSUME NEW d \in Calls, d # c PROVE call'[d].after \subseteq {e \in 1..(d - 1) : Ended(e)'}
      <4>1. call'[d].after \subseteq {e \in 1..(d - 1) : Ended(e)}
        BY <1>2, <3>2 DEF Others, Requested
      <4>. QED BY <4>1, <1>3, CallNumbers
    <3>. QED BY <3>1, <3>2
  <2>5. \A d \in Calls : ~Ended(d)' => call'[d].answer = None
    BY <1>2 DEF Others, Requested, Ended
  <2>. QED BY <1>2, <2>1, <2>2, <2>3, <2>4, <2>5 DEF Requested
<1>. QED BY <1>1, <1>2, <1>4

\* A request under way takes a step.
LEMMA Proceeded ==
  ASSUME Requested, NEW c \in Calls, InFlight(c), DOMAIN call' = Calls, Others(c),
         DOMAIN call'[c] = Fields, call'[c].op = call[c].op, call'[c].after = call[c].after,
         call'[c].pc # "idle", Ended(c)' \/ call'[c].answer = None
  PROVE  Requested'
<1>1. call[c].pc # "idle" /\ ~Ended(c)
  BY DEF InFlight
<1>2. \A d \in Calls : Ended(d) => Ended(d)'
  BY <1>1 DEF Ended, Others
<1>3. \A d \in Calls : call[d].pc # "idle" => call'[d].pc # "idle"
  BY DEF Others
<1>4. \A d \in Calls : call'[d].pc # "idle" =>
          call'[d].op \in Ops /\ \A e \in 1..(d - 1) : call'[e].pc # "idle"
  BY <1>1, <1>3, CallNumbers DEF Others, Requested
<1>5. \A d \in Calls : call'[d].after \subseteq {e \in 1..(d - 1) : Ended(e)'}
  <2>1. \A d \in Calls : call'[d].after \subseteq {e \in 1..(d - 1) : Ended(e)}
    BY DEF Others, Requested
  <2>. QED BY <2>1, <1>2, CallNumbers
<1>6. \A d \in Calls : DOMAIN call'[d] = Fields
  BY DEF Others, Requested
<1>7. \A d \in Calls : call'[d].pc = "idle" => call'[d] = Idle
  BY DEF Others, Requested
<1>8. \A d \in Calls : ~Ended(d)' => call'[d].answer = None
  BY DEF Others, Requested, Ended
<1>. QED BY <1>4, <1>5, <1>6, <1>7, <1>8 DEF Requested

-----------------------------------------------------------------------------
(* A step begins a request, or goes on with one. *)

Opened(c) ==
  /\ c \in Calls /\ Starts(c) /\ call[c] = Idle /\ Others(c)
  /\ call'[c].pc # "idle" /\ call'[c].after = {d \in Calls : Ended(d)}
Kept(c) == call'[c].op = call[c].op /\ call'[c].after = call[c].after /\ Others(c)
Continued(c) == c \in Calls /\ InFlight(c) /\ Kept(c) /\ call'[c].pc # "idle"

\* Whatever the steps of a scenario do, one request moves.
Moves(c) == Requested' /\ (Opened(c) \/ Continued(c))

\* A request begins.
LEMMA Opens ==
  ASSUME Requested, NEW c, Starts(c), scenario \in Scenarios, NEW op, NEW given, NEW pc, NEW seen, NEW answer,
         Begin(c, op, given, pc, seen, answer), op \in Ops, pc # "idle",
         pc \in {"done", "failed", "dead"} \/ answer = None
  PROVE  /\ Moves(c) /\ Opened(c) /\ call'[c].op = op /\ call'[c].pc = pc
         /\ call'[c].given = given /\ call'[c].seen = seen /\ call'[c].answer = answer
<1>1. /\ c \in Calls /\ call[c] = Idle /\ Others(c)
      /\ call'[c] = [op |-> op, pc |-> pc, given |-> given, seen |-> seen, answer |-> answer,
                     after |-> {d \in Calls : Ended(d)}]
      /\ Requested'
  BY Begun
<1>. QED BY <1>1 DEF Moves, Opened

\* A request goes on.
LEMMA Goes ==
  ASSUME Requested, NEW c \in Calls, InFlight(c), NEW pc, NEW seen, Go(c, pc, seen), pc # "idle"
  PROVE  /\ Moves(c) /\ Kept(c) /\ call'[c].pc = pc /\ call'[c].seen = seen
         /\ call'[c].given = call[c].given /\ call'[c].answer = call[c].answer
<1>1. /\ DOMAIN call' = Calls /\ Kept(c) /\ call'[c].pc = pc /\ call'[c].seen = seen
      /\ call'[c].given = call[c].given /\ call'[c].answer = call[c].answer /\ DOMAIN call'[c] = Fields
  BY DEF Go, Requested, Kept, Others, Fields
<1>2. call[c].answer = None
  BY DEF InFlight, Requested
<1>. QED BY <1>1, <1>2, Proceeded DEF Moves, Continued, Kept

\* A request answers.
LEMMA Answers ==
  ASSUME Requested, NEW c \in Calls, InFlight(c), NEW value, Answer(c, value)
  PROVE  /\ Moves(c) /\ Kept(c) /\ call'[c].pc = "done" /\ call'[c].seen = None
         /\ call'[c].given = call[c].given /\ call'[c].answer = value
<1>1. /\ DOMAIN call' = Calls /\ Kept(c) /\ call'[c].pc = "done" /\ call'[c].seen = None
      /\ call'[c].given = call[c].given /\ call'[c].answer = value /\ DOMAIN call'[c] = Fields
  BY DEF Answer, Requested, Kept, Others, Fields
<1>. QED BY <1>1, Proceeded DEF Moves, Continued, Kept, Ended

\* A request is over, and what it saw is kept.
LEMMA Leaves ==
  ASSUME Requested, NEW c \in Calls, InFlight(c), NEW seen, NEW value, Leave(c, seen, value)
  PROVE  /\ Moves(c) /\ Kept(c) /\ call'[c].pc = "done" /\ call'[c].seen = seen
         /\ call'[c].given = call[c].given /\ call'[c].answer = value
<1>1. /\ DOMAIN call' = Calls /\ Kept(c) /\ call'[c].pc = "done" /\ call'[c].seen = seen
      /\ call'[c].given = call[c].given /\ call'[c].answer = value /\ DOMAIN call'[c] = Fields
  BY DEF Leave, Requested, Kept, Others, Fields
<1>. QED BY <1>1, Proceeded DEF Moves, Continued, Kept, Ended

\* A request fails.
LEMMA Throws ==
  ASSUME Requested, NEW c \in Calls, InFlight(c), Throw(c)
  PROVE  /\ Moves(c) /\ Kept(c) /\ call'[c].pc = "failed" /\ call'[c].seen = None
         /\ call'[c].given = None /\ call'[c].answer = None
<1>1. /\ DOMAIN call' = Calls /\ Kept(c) /\ call'[c].pc = "failed" /\ call'[c].seen = None
      /\ call'[c].given = None /\ call'[c].answer = call[c].answer /\ DOMAIN call'[c] = Fields
  BY DEF Throw, Requested, Kept, Others, Fields
<1>2. call[c].answer = None
  BY DEF InFlight, Requested
<1>. QED BY <1>1, <1>2, Proceeded DEF Moves, Continued, Kept, Ended

\* A request that stops where it is, at the host's failure or its own process's.
LEMMA Stops ==
  ASSUME Requested, NEW c \in Calls, InFlight(c), NEW pc \in {"failed", "dead"},
         call' = [call EXCEPT ![c].pc = pc]
  PROVE  /\ Moves(c) /\ Kept(c) /\ call'[c].pc = pc /\ call'[c].seen = call[c].seen
         /\ call'[c].given = call[c].given /\ call'[c].answer = None
<1>1. /\ DOMAIN call' = Calls /\ Kept(c) /\ call'[c].pc = pc /\ call'[c].seen = call[c].seen
      /\ call'[c].given = call[c].given /\ call'[c].answer = call[c].answer /\ DOMAIN call'[c] = Fields
  BY DEF Requested, Kept, Others, Fields
<1>2. call[c].answer = None
  BY DEF InFlight, Requested
<1>. QED BY <1>1, <1>2, Proceeded DEF Moves, Continued, Kept, Ended

\* A request at a place of its own is under way.
LEMMA InIsInFlight ==
  ASSUME NEW c, NEW op, NEW pc, In(c, op, pc), pc \notin {"idle", "done", "failed", "dead"}
  PROVE  InFlight(c)
BY DEF In, InFlight, Ended

\* Only requests of the scenario begin, and they stay what they are.
LEMMA ScriptKept ==
  ASSUME Common, UNCHANGED setup, NEW c, Moves(c), Opened(c) => Fits(call'[c].op)
  PROVE  Scripted'
<1>1. \A op : Fits(op)' <=> Fits(op)
  BY DEF Fits, setup
<1>2. CASE Opened(c)
  BY <1>1, <1>2 DEF Opened, Others, Common, Scripted
<1>3. CASE Continued(c)
  BY <1>1, <1>3 DEF Continued, Kept, Others, Common, Scripted, InFlight
<1>. QED BY <1>2, <1>3 DEF Moves

\* A request of the scenario begins.
LEMMA Enters ==
  ASSUME Common, UNCHANGED setup, NEW c, Starts(c), NEW op \in Ops, NEW given, NEW pc, NEW seen, NEW answer,
         Begin(c, op, given, pc, seen, answer), pc # "idle", pc \in {"done", "failed", "dead"} \/ answer = None,
         Fits(op)
  PROVE  /\ Moves(c) /\ Scripted' /\ Opened(c) /\ call'[c].op = op /\ call'[c].pc = pc
         /\ call'[c].given = given /\ call'[c].seen = seen /\ call'[c].answer = answer
<1>1. Requested /\ scenario \in Scenarios
  BY DEF Common
<1>2. /\ Moves(c) /\ Opened(c) /\ call'[c].op = op /\ call'[c].pc = pc
      /\ call'[c].given = given /\ call'[c].seen = seen /\ call'[c].answer = answer
  BY <1>1, Opens
<1>. QED BY <1>2, ScriptKept

\* Whoever is over stays as it was, and whoever has begun is the same request.
LEMMA Frozen ==
  ASSUME Requested, NEW c, Moves(c)
  PROVE  /\ \A d \in Calls : Ended(d) => d # c /\ call'[d] = call[d] /\ Ended(d)'
         /\ \A d \in Calls : call[d].pc # "idle" =>
              call'[d].op = call[d].op /\ call'[d].after = call[d].after /\ call'[d].pc # "idle"
         /\ \A d \in Calls : ~Ended(d) => call[d].answer = None
         /\ Others(c)
<1>1. CASE Opened(c)
  BY <1>1 DEF Opened, Others, Ended, Starts, Moves, Requested, Idle
<1>2. CASE Continued(c)
  BY <1>2 DEF Continued, Kept, Others, Ended, InFlight, Moves, Requested
<1>. QED BY <1>1, <1>2 DEF Moves

-----------------------------------------------------------------------------
(* Every step keeps what is common. *)

\* A step of a request's is a move, whatever it does to the stores.
LEMMA ClientMoves ==
  ASSUME Common, UNCHANGED setup, NEW c \in Calls, ClientSteps(c)
  PROVE  Moves(c) /\ Scripted' /\ UNCHANGED past
<1>0. Requested
  BY DEF Common
<1>1. ASSUME NEW op \in Ops, NEW given, NEW pc \in {"store", "destroy", "upsert", "done"}, NEW seen, NEW answer,
             Begin(c, op, given, pc, seen, answer), pc = "done" \/ answer = None, Starts(c), Fits(op), past' = past
      PROVE  Moves(c) /\ Scripted' /\ UNCHANGED past
  BY <1>1, Enters
<1>2. ASSUME c \in Calls, InFlight(c), NEW seen, NEW value, Leave(c, seen, value), past' = past
      PROVE  Moves(c) /\ Scripted' /\ UNCHANGED past
  <2>1. Moves(c) /\ Kept(c)
    BY <1>0, <1>2, Leaves
  <2>2. ~Opened(c)
    BY <1>2 DEF Opened, InFlight, Idle
  <2>. QED BY <1>2, <2>1, <2>2, ScriptKept
<1>. USE DEF Ops
<1>3. CASE Post(c)
  BY <1>3, <1>1 DEF Post, Fits
<1>4. CASE Put(c)
  BY <1>4, <1>1 DEF Put, Fits
<1>5. CASE Delete(c)
  BY <1>5, <1>1 DEF Delete, Fits
<1>6. CASE Create(c)
  BY <1>6, <1>1 DEF Create, Fits
<1>7. CASE Update(c)
  BY <1>7, <1>1 DEF Update, Fits
<1>8. CASE Destroy(c)
  BY <1>8, <1>1 DEF Destroy, Fits
<1>9. CASE Visit(c)
  BY <1>9, <1>1 DEF Visit, Fits
<1>10. CASE StoreMetadata(c)
  BY <1>10, <1>2, InIsInFlight DEF StoreMetadata, Written
<1>11. CASE Upsert(c)
  BY <1>11, <1>2, InIsInFlight DEF Upsert, Written
<1>12. CASE Destroyed(c)
  BY <1>12, <1>2, InIsInFlight DEF Destroyed
<1>. QED BY <1>3, <1>4, <1>5, <1>6, <1>7, <1>8, <1>9, <1>10, <1>11, <1>12 DEF ClientSteps

\* So is a step on assertions and proofs,
LEMMA ProofMoves ==
  ASSUME Common, UNCHANGED setup, NEW c \in Calls, ProofSteps(c)
  PROVE  Moves(c) /\ Scripted' /\ DOMAIN past' = Memory
<1>0. Requested /\ DOMAIN past = Memory
  BY DEF Common
<1>1. CASE PresentAssertion(c)
  <2>1. PICK pc, answer : Begin(c, "assert", None, pc, None, answer) /\ pc \in {"failed", "done"}
    BY <1>1 DEF PresentAssertion
  <2>2. Starts(c) /\ "assert" \in Ops /\ Fits("assert")
    BY <1>1 DEF PresentAssertion, Ops, Fits
  <2>3. DOMAIN past' = Memory
    BY <1>0, <1>1 DEF PresentAssertion, Use
  <2>. QED BY <2>1, <2>2, <2>3, Enters
<1>2. CASE Prove(c)
  <2>1. PICK given, pc, seen : Begin(c, "prove", given, pc, seen, None) /\ pc \in {"failed", "nonce"}
    BY <1>2 DEF Prove
  <2>2. Starts(c) /\ "prove" \in Ops /\ Fits("prove") /\ past' = past
    BY <1>2 DEF Prove, Ops, Fits
  <2>. QED BY <1>0, <2>1, <2>2, Enters
<1>3. CASE CheckNonce(c)
  <2>1. InFlight(c) /\ ~Opened(c)
    BY <1>3, InIsInFlight DEF CheckNonce, Opened, Idle, InFlight
  <2>2. Moves(c)
    BY <1>0, <1>3, <2>1, Throws, Answers DEF CheckNonce
  <2>3. DOMAIN past' = Memory
    BY <1>0, <1>3 DEF CheckNonce, Use
  <2>. QED BY <2>1, <2>2, <2>3, ScriptKept
<1>. QED BY <1>1, <1>2, <1>3 DEF ProofSteps

TokenOps == {"credentials", "exchange", "introspect", "userinfo", "revoke"}
LogoutOps == {"end", "confirm", "manage", "redeem"}

\* one on tokens,
LEMMA TokenMoves ==
  ASSUME Common, UNCHANGED setup, NEW c \in Calls, TokenSteps(c)
  PROVE  Moves(c) /\ Scripted' /\ DOMAIN past' = Memory /\ call'[c].op \in TokenOps
<1>0. Requested /\ DOMAIN past = Memory
  BY DEF Common
<1>1. ASSUME NEW op \in TokenOps, NEW given, NEW pc \in {"done", "failed", "policy", "owner", "claims", "tokens", "destroy"},
             NEW seen, NEW answer,
             Begin(c, op, given, pc, seen, answer), pc = "done" \/ answer = None, Starts(c), Fits(op), past' = past
      PROVE  Moves(c) /\ Scripted' /\ DOMAIN past' = Memory /\ call'[c].op \in TokenOps
  BY <1>0, <1>1, Enters DEF TokenOps, Ops
<1>2. ASSUME InFlight(c), call[c].op \in TokenOps, NEW pc, NEW value, DOMAIN past' = Memory, pc # "idle",
             Throw(c) \/ Answer(c, value) \/ Go(c, pc, value)
      PROVE  Moves(c) /\ Scripted' /\ DOMAIN past' = Memory /\ call'[c].op \in TokenOps
  <2>1. Moves(c) /\ Kept(c)
    BY <1>0, <1>2, Throws, Answers, Goes
  <2>2. ~Opened(c)
    BY <1>2 DEF Opened, InFlight, Idle
  <2>. QED BY <1>2, <2>1, <2>2, ScriptKept DEF Kept
<1>. USE DEF Ops, TokenOps
<1>3. CASE ClientCredentials(c)
  BY <1>3, <1>1 DEF ClientCredentials, Fits
<1>4. CASE Exchange(c)
  BY <1>4, <1>1 DEF Exchange, Fits
<1>5. CASE Introspect(c)
  BY <1>5, <1>1 DEF Introspect, Fits
<1>6. CASE UserInfo(c)
  BY <1>6, <1>1 DEF UserInfo, Fits
<1>7. CASE Revoke(c)
  BY <1>7, <1>1 DEF Revoke, Fits
<1>8. CASE Exchanged(c)
  <2>1. PICK token, subject : IssueAccessToken(c, token, subject)
    BY <1>8 DEF Exchanged
  <2>2. DOMAIN past' = Memory /\ Answer(c, "issued")
    BY <1>0, <2>1 DEF IssueAccessToken
  <2>. QED BY <1>8, <2>2, <1>2, InIsInFlight DEF Exchanged, In
<1>9. CASE Declined(c)
  BY <1>0, <1>9, <1>2, InIsInFlight DEF Declined, In
<1>10. CASE Describe(c)
  BY <1>0, <1>10, <1>2, InIsInFlight DEF Describe, In
<1>11. CASE Claims(c)
  BY <1>0, <1>11, <1>2, InIsInFlight DEF Claims, In
<1>12. CASE RevokeOne(c)
  BY <1>0, <1>12, <1>2, InIsInFlight DEF RevokeOne, In
<1>13. CASE RevokeByGrantId(c)
  BY <1>0, <1>13, <1>2, InIsInFlight DEF RevokeByGrantId, In
<1>14. CASE DestroyGrant(c)
  BY <1>0, <1>14, <1>2, InIsInFlight DEF DestroyGrant, In
<1>. QED BY <1>3, <1>4, <1>5, <1>6, <1>7, <1>8, <1>9, <1>10, <1>11, <1>12, <1>13, <1>14 DEF TokenSteps

\* one on sessions,
LEMMA LogoutMoves ==
  ASSUME Common, UNCHANGED setup, NEW c \in Calls, LogoutSteps(c)
  PROVE  Moves(c) /\ Scripted' /\ DOMAIN past' = Memory /\ call'[c].op \in LogoutOps
<1>0. Requested /\ DOMAIN past = Memory
  BY DEF Common
<1>1. ASSUME NEW op \in LogoutOps, NEW given, NEW pc \in {"done", "accept", "ask", "tell", "join"}, NEW seen, NEW answer,
             Begin(c, op, given, pc, seen, answer), pc = "done" \/ answer = None, Starts(c), Fits(op), past' = past
      PROVE  Moves(c) /\ Scripted' /\ DOMAIN past' = Memory /\ call'[c].op \in LogoutOps
  BY <1>0, <1>1, Enters DEF LogoutOps, Ops
<1>2. ASSUME InFlight(c), call[c].op \in LogoutOps, NEW pc, NEW value, DOMAIN past' = Memory, pc # "idle",
             Throw(c) \/ Answer(c, value) \/ Go(c, pc, value) \/ call' = [call EXCEPT ![c].pc = "failed"]
      PROVE  Moves(c) /\ Scripted' /\ DOMAIN past' = Memory /\ call'[c].op \in LogoutOps
  <2>1. Moves(c) /\ Kept(c)
    BY <1>0, <1>2, Throws, Answers, Goes, Stops
  <2>2. ~Opened(c)
    BY <1>2 DEF Opened, InFlight, Idle
  <2>. QED BY <1>2, <2>1, <2>2, ScriptKept DEF Kept
<1>. USE DEF Ops, LogoutOps
<1>3. CASE EndSession(c)
  <2>1. PICK cookie, hint, i : Ask(c, cookie, hint, i)
    BY <1>3 DEF EndSession
  <2>2. Starts(c) /\ Fits("end") /\ past' = past
    BY <1>3 DEF EndSession, Fits
  <2>3. CASE i # None
    BY <2>1, <2>2, <2>3, <1>1 DEF Ask
  <2>4. CASE i = None
    BY <2>1, <2>2, <2>4, <1>1 DEF Ask
  <2>. QED BY <2>3, <2>4
<1>4. CASE ConfirmLogout(c)
  <2>1. PICK given, answer : Begin(c, "confirm", given, "done", None, answer)
    BY <1>4 DEF ConfirmLogout
  <2>. QED BY <1>4, <2>1, <1>1 DEF ConfirmLogout, Fits
<1>5. CASE DestroySession(c)
  <2>1. PICK given, seen : Begin(c, "manage", given, "tell", seen, None)
    BY <1>5 DEF DestroySession
  <2>. QED BY <1>5, <2>1, <1>1 DEF DestroySession, Fits
<1>6. CASE Redeem(c)
  <2>1. PICK given, seen : Begin(c, "redeem", given, "join", seen, None)
    BY <1>6 DEF Redeem
  <2>. QED BY <1>6, <2>1, <1>1 DEF Redeem, Fits
<1>7. CASE AcceptConfirmation(c)
  BY <1>0, <1>7, <1>2, InIsInFlight DEF AcceptConfirmation, In
<1>8. CASE AskToConfirm(c)
  BY <1>0, <1>8, <1>2, InIsInFlight DEF AskToConfirm, In
<1>9. CASE Tell(c)
  BY <1>0, <1>9, <1>2, InIsInFlight DEF Tell, In
<1>10. CASE EndOf(c)
  BY <1>0, <1>10, <1>2, InIsInFlight DEF EndOf, In
<1>11. CASE Deliver(c)
  <2>1. \/ Answer(c, "signed out") /\ DOMAIN past' = Memory
        \/ call' = [call EXCEPT ![c].pc = "failed"] /\ past' = past
    BY <1>0, <1>11 DEF Deliver
  <2>2. InFlight(c) /\ call[c].op \in LogoutOps
    BY <1>11, InIsInFlight DEF Deliver, In
  <2>3. Moves(c) /\ Kept(c)
    <3>1. "failed" \in {"failed", "dead"}
      OBVIOUS
    <3>. QED BY <1>0, <2>1, <2>2, <3>1, Answers, Stops
  <2>4. ~Opened(c)
    BY <2>2 DEF Opened, InFlight, Idle
  <2>. QED BY <1>0, <2>1, <2>2, <2>3, <2>4, ScriptKept DEF Kept
<1>12. CASE Join(c)
  BY <1>0, <1>12, <1>2, InIsInFlight DEF Join, In
<1>. QED BY <1>3, <1>4, <1>5, <1>6, <1>7, <1>8, <1>9, <1>10, <1>11, <1>12 DEF LogoutSteps

\* and the end of its process, which stores nothing.
LEMMA CrashMoves ==
  ASSUME Common, UNCHANGED setup, NEW c \in Calls, Crash(c)
  PROVE  Moves(c) /\ Scripted' /\ UNCHANGED <<stores, past>>
<1>1. Requested /\ InFlight(c) /\ call' = [call EXCEPT ![c].pc = "dead"] /\ "dead" \in {"failed", "dead"}
  BY DEF Common, Crash
<1>2. Moves(c)
  BY <1>1, Stops
<1>3. ~Opened(c)
  BY <1>1 DEF Opened, InFlight, Idle
<1>. QED BY <1>2, <1>3, ScriptKept DEF Crash

\* What is common holds at first.
LEMMA CommonInit == Init => Common
<1>1. ASSUME Init PROVE Common
  <2>1. Requested
    BY <1>1, CallNumbers DEF Init, Requested, Idle, Fields, Ended
  <2>2. Scripted
    BY <1>1 DEF Init, Scripted, Idle
  <2>3. scenario \in Scenarios /\ ResolveConfig(config) /\ StaticKeyStore(keys) /\ now \in Nat
    BY <1>1 DEF Init
  <2>4. DOMAIN past = Memory
    BY <1>1 DEF Init, Memory
  <2>. QED BY <2>1, <2>2, <2>3, <2>4 DEF Common
<1>. QED BY <1>1

\* Every step keeps what is common.
LEMMA CommonNext == Common /\ [Next]_all => Common'
<1>. SUFFICES ASSUME Common, [Next]_all PROVE Common'
  OBVIOUS
<1>1. ASSUME UNCHANGED <<setup, call, past>>, now' \in Nat PROVE Common'
  BY <1>1 DEF Common, setup, Requested, Scripted, Fits, Ended
<1>2. CASE UNCHANGED all
  BY <1>1, <1>2 DEF all, Common
<1>3. ASSUME Next, UNCHANGED setup PROVE Common'
  <2>1. now' \in Nat
    BY <1>3 DEF Next, Tick, Common
  <2>2. ASSUME NEW c \in Calls,
               ClientSteps(c) \/ ProofSteps(c) \/ TokenSteps(c) \/ LogoutSteps(c) \/ Crash(c)
        PROVE  Requested' /\ Scripted' /\ DOMAIN past' = Memory
    BY <1>3, <2>2, ClientMoves, ProofMoves, TokenMoves, LogoutMoves, CrashMoves DEF Moves, Common
  <2>3. CASE Publish \/ Tick
    BY <1>1, <1>3, <2>1, <2>3 DEF Publish, Tick
  <2>4. ASSUME NEW c \in Calls,
               ClientSteps(c) \/ ProofSteps(c) \/ TokenSteps(c) \/ LogoutSteps(c) \/ Crash(c)
        PROVE  Common'
    BY <1>3, <2>1, <2>2, <2>4 DEF Common, setup
  <2>. QED BY <1>3, <2>3, <2>4 DEF Next
<1>. QED BY <1>2, <1>3 DEF Next

-----------------------------------------------------------------------------
(* Which steps there are in a scenario. *)

\* A request under way is one of the scenario's.
LEMMA Scene ==
  ASSUME Common, NEW c \in Calls, NEW op, NEW pc, In(c, op, pc), pc # "idle"
  PROVE  Fits(op)
BY DEF Common, Scripted, In

\* What a step on clients may be outside their own scenario.
Registers(c) == Post(c) \/ (In(c, "post", "store") /\ Written(c))
Revises(c) == Update(c) \/ (In(c, "update", "upsert") /\ Written(c))

\* Clients are registered in one other scenario, and changed by the operator in two.
LEMMA ClientScene ==
  ASSUME Common, NEW c \in Calls, ClientSteps(c)
  PROVE  \/ scenario = "clients"
         \/ scenario = "setup" /\ Registers(c)
         \/ scenario \in {"tokens", "logout"} /\ Revises(c)
<1>1. CASE Put(c) \/ Delete(c) \/ Create(c) \/ Destroy(c) \/ Visit(c)
  BY <1>1 DEF Put, Delete, Create, Destroy, Visit
<1>2. CASE Post(c) \/ Update(c)
  BY <1>2 DEF Post, Update, Registers, Revises
<1>3. CASE StoreMetadata(c)
  BY <1>3, Scene DEF StoreMetadata, Fits, Registers
<1>4. CASE Upsert(c)
  BY <1>4, Scene DEF Upsert, Fits, Revises
<1>5. CASE Destroyed(c)
  BY <1>5, Scene DEF Destroyed, Fits
<1>. QED BY <1>1, <1>2, <1>3, <1>4, <1>5 DEF ClientSteps

\* Assertions and proofs have a scenario each,
LEMMA ProofScene ==
  ASSUME Common, NEW c \in Calls, ProofSteps(c)
  PROVE  \/ scenario = "assertions" /\ PresentAssertion(c)
         \/ scenario = "proofs" /\ (Prove(c) \/ CheckNonce(c))
<1>1. CASE CheckNonce(c)
  BY <1>1, Scene DEF CheckNonce, Fits
<1>. QED BY <1>1 DEF ProofSteps, PresentAssertion, Prove

\* tokens have one,
LEMMA TokenScene ==
  ASSUME Common, NEW c \in Calls, TokenSteps(c)
  PROVE  scenario = "tokens"
<1>1. CASE ClientCredentials(c) \/ Exchange(c) \/ Introspect(c) \/ UserInfo(c) \/ Revoke(c)
  BY <1>1 DEF ClientCredentials, Exchange, Introspect, UserInfo, Revoke
<1>2. CASE Exchanged(c) \/ Declined(c) \/ Describe(c) \/ Claims(c)
  BY <1>2, Scene DEF Exchanged, Declined, Describe, Claims, Fits
<1>3. CASE RevokeOne(c) \/ RevokeByGrantId(c) \/ DestroyGrant(c)
  BY <1>3, Scene DEF RevokeOne, RevokeByGrantId, DestroyGrant, Fits
<1>. QED BY <1>1, <1>2, <1>3 DEF TokenSteps

\* and sessions have one.
LEMMA LogoutScene ==
  ASSUME Common, NEW c \in Calls, LogoutSteps(c)
  PROVE  scenario = "logout"
<1>1. CASE EndSession(c) \/ ConfirmLogout(c) \/ DestroySession(c) \/ Redeem(c)
  BY <1>1 DEF EndSession, ConfirmLogout, DestroySession, Redeem
<1>2. CASE AcceptConfirmation(c) \/ AskToConfirm(c) \/ Join(c)
  BY <1>2, Scene DEF AcceptConfirmation, AskToConfirm, Join, Fits
<1>3. CASE Tell(c) \/ EndOf(c) \/ Deliver(c)
  BY <1>3, Scene DEF Tell, EndOf, Deliver, Fits
<1>. QED BY <1>1, <1>2, <1>3 DEF LogoutSteps

\* A process ends where what it leaves undone is about tokens or sessions.
LEMMA CrashScene ==
  ASSUME Common, NEW c \in Calls, Crash(c)
  PROVE  \/ scenario = "tokens" /\ call[c].op = "revoke"
         \/ scenario = "logout" /\ call[c].op \in {"end", "manage"}
BY DEF Crash, Common, Scripted, Fits, InFlight

\* What may happen next.
LEMMA Scenes ==
  ASSUME Common, Next
  PROVE  /\ UNCHANGED setup
         /\ \/ Tick
            \/ scenario = "clients" /\ UNCHANGED now /\ (Publish \/ \E c \in Calls : ClientSteps(c))
            \/ scenario = "setup" /\ UNCHANGED now /\ \E c \in Calls : Registers(c)
            \/ scenario = "assertions" /\ UNCHANGED now /\ \E c \in Calls : PresentAssertion(c)
            \/ scenario = "proofs" /\ UNCHANGED now /\ \E c \in Calls : Prove(c) \/ CheckNonce(c)
            \/ scenario = "tokens" /\ UNCHANGED now
               /\ \E c \in Calls : Revises(c) \/ TokenSteps(c) \/ (Crash(c) /\ call[c].op = "revoke")
            \/ scenario = "logout" /\ UNCHANGED now
               /\ \E c \in Calls : Revises(c) \/ LogoutSteps(c) \/ Crash(c)
<1>1. ASSUME NEW c \in Calls, ClientSteps(c)
      PROVE  \/ scenario = "clients"
             \/ scenario = "setup" /\ Registers(c)
             \/ scenario \in {"tokens", "logout"} /\ Revises(c)
  BY <1>1, ClientScene
<1>2. ASSUME NEW c \in Calls, ProofSteps(c)
      PROVE  \/ scenario = "assertions" /\ PresentAssertion(c)
             \/ scenario = "proofs" /\ (Prove(c) \/ CheckNonce(c))
  BY <1>2, ProofScene
<1>3. ASSUME NEW c \in Calls, TokenSteps(c) PROVE scenario = "tokens"
  BY <1>3, TokenScene
<1>4. ASSUME NEW c \in Calls, LogoutSteps(c) PROVE scenario = "logout"
  BY <1>4, LogoutScene
<1>5. ASSUME NEW c \in Calls, Crash(c)
      PROVE  \/ scenario = "tokens" /\ call[c].op = "revoke"
             \/ scenario = "logout"
  BY <1>5, CrashScene
<1>6. Publish => scenario = "clients"
  BY DEF Publish
<1>. QED BY <1>1, <1>2, <1>3, <1>4, <1>5, <1>6 DEF Next

-----------------------------------------------------------------------------
(* What a client signed is believed once. *)

Namespaces == Jtis \cup {"client-assertion"}

\* A proof whose jti is claimed, before its nonce is looked at.
Pending(jti) == {c \in Calls : In(c, "prove", "nonce") /\ call[c].seen.jti = jti}

\* A time at which it was believed, or may be yet, is within the window, and remembered until it
\* cannot come back; two of them are as far apart as the window is wide.
Believable(jti, at) ==
  at \in Nat /\ Iat - ProofSkew <= at /\ at <= Iat + MaxAge /\ 2 * (at + ProofTtl) <= replay[jti]
Gap(a, b) == a + ProofTtl <= b \/ b + ProofTtl <= a
BelievedOf(jti, used) ==
  /\ \A i \in DOMAIN used : Believable(jti, used[i])
  /\ \A c \in Pending(jti) : Believable(jti, call[c].seen.at)
  /\ \A i, j \in DOMAIN used : i # j => Gap(used[i], used[j])
  /\ \A i \in DOMAIN used : \A c \in Pending(jti) : Gap(used[i], call[c].seen.at)
  /\ \A c, d \in Pending(jti) : c # d => Gap(call[c].seen.at, call[d].seen.at)
Believed ==
  /\ \A c \in Calls : In(c, "prove", "nonce") => call[c].seen.jti \in Jtis
  /\ \A jti \in Jtis : BelievedOf(jti, past.used[jti])

\* An assertion that was believed is remembered until Skew after it expires.
Asserted ==
  /\ past.used["client-assertion"] # <<>> => 2 * (Exp + Skew) <= replay["client-assertion"]
  /\ Len(past.used["client-assertion"]) > 1 =>
       fapi /\ past.used["client-assertion"][2] >= Exp + Skew

Signed ==
  /\ DOMAIN past.used = Namespaces /\ DOMAIN replay = Namespaces
  /\ \A what \in Namespaces : replay[what] \in Int /\ past.used[what] \in Seq(Nat)
  /\ IF scenario = "assertions" THEN Asserted ELSE past.used["client-assertion"] = <<>>
  /\ IF scenario = "proofs" THEN Believed ELSE \A jti \in Jtis : past.used[jti] = <<>>

\* Times are whole numbers, and the clock ticks in halves.
LEMMA Times ==
  /\ Exp \in Nat /\ Iat \in Nat /\ MaxAge \in Nat /\ Skew \in Nat /\ FapiIatSkew \in Nat
  /\ ProofSkew \in Nat /\ ProofTtl \in Nat /\ ProofTtl = MaxAge + ProofSkew
  /\ now \in Nat => Seconds \in Nat /\ 2 * Seconds <= now /\ now < 2 * Seconds + 2
BY TimesAssumption DEF ProofSkew, ProofTtl, Seconds

\* At first nothing was believed.
LEMMA SignedInit == Init => Signed
<1>. SUFFICES ASSUME Init PROVE Signed
  OBVIOUS
<1>1. /\ past.used = [what \in Namespaces |-> <<>>] /\ replay = [what \in Namespaces |-> 0]
      /\ \A c \in Calls : call[c] = Idle
  BY DEF Init, Namespaces
<1>2. \A jti : Pending(jti) = {}
  BY <1>1 DEF Pending, In, Idle
<1>3. <<>> \in Seq(Nat) /\ Len(<<>>) = 0
  OBVIOUS
<1>. QED BY <1>1, <1>2, <1>3 DEF Signed, Asserted, Believed, BelievedOf, Namespaces, In, Idle

\* Nothing of it changes.
LEMMA SignedStays ==
  ASSUME Signed, Common, UNCHANGED <<setup, replay>>, past'.used = past.used,
         scenario = "proofs" => UNCHANGED <<clients, call>>,
         scenario = "assertions" => UNCHANGED clients
  PROVE  Signed'
<1>1. scenario = "assertions" /\ Asserted => Asserted'
  BY DEF Asserted, fapi, setup
<1>2. scenario = "proofs" /\ Believed => Believed'
  <2>. SUFFICES ASSUME scenario = "proofs", Believed PROVE Believed'
    OBVIOUS
  <2>1. ProofSkew' = ProofSkew /\ ProofTtl' = ProofTtl
    BY DEF ProofSkew, ProofTtl, fapi, setup
  <2>2. \A jti : Pending(jti)' = Pending(jti)
    BY DEF Pending, In
  <2>. QED BY <2>1, <2>2 DEF Believed, BelievedOf, Believable, Gap, In
<1>. QED BY <1>1, <1>2 DEF Signed, setup

\* An assertion is believed only when the one before it is forgotten.
LEMMA AssertedNext ==
  ASSUME Signed, Common, UNCHANGED <<setup, now>>, scenario = "assertions", NEW c \in Calls, PresentAssertion(c)
  PROVE  Signed'
<1>1. CASE Claimed("client-assertion")
  BY <1>1, SignedStays DEF PresentAssertion, unproved
<1>2. CASE ~Claimed("client-assertion")
  <2>. DEFINE used == past.used["client-assertion"]
  <2>1. /\ replay' = [replay EXCEPT !["client-assertion"] = now + 2 * (Exp - Seconds + Skew)]
        /\ past' = [past EXCEPT !.used["client-assertion"] = Append(@, Seconds)]
        /\ AssertionVerifies /\ UNCHANGED clients
    BY <1>2 DEF PresentAssertion, Claim, Remembered, Use, unproved
  <2>2. /\ used \in Seq(Nat) /\ replay["client-assertion"] \in Int /\ replay["client-assertion"] <= now
        /\ DOMAIN past.used = Namespaces /\ DOMAIN replay = Namespaces /\ now \in Nat /\ DOMAIN past = Memory
    BY <1>2 DEF Signed, Namespaces, Claimed, Common
  <2>3. /\ past'.used["client-assertion"] = Append(used, Seconds) /\ DOMAIN past'.used = Namespaces
        /\ \A jti \in Jtis : past'.used[jti] = past.used[jti]
    BY <2>1, <2>2 DEF Namespaces, Memory, Jtis
  <2>4. /\ Append(used, Seconds) \in Seq(Nat) /\ Len(Append(used, Seconds)) = Len(used) + 1
        /\ \A i \in 1..Len(used) : Append(used, Seconds)[i] = used[i]
        /\ Append(used, Seconds)[Len(used) + 1] = Seconds
    BY <2>2, Times
  <2>5. /\ replay'["client-assertion"] = now + 2 * (Exp - Seconds + Skew)
        /\ replay'["client-assertion"] \in Int /\ 2 * (Exp + Skew) <= replay'["client-assertion"]
    <3>1. replay'["client-assertion"] = now + 2 * (Exp - Seconds + Skew)
      BY <2>1, <2>2 DEF Namespaces
    <3>2. now \in Nat /\ Seconds \in Nat /\ Exp \in Nat /\ Skew \in Nat /\ 2 * Seconds <= now
      BY <2>2, Times
    <3>. QED BY <3>1, <3>2
  <2>6. fapi' = fapi
    BY <2>1 DEF fapi, setup
  <2>7. ASSUME Len(used) = 1 PROVE fapi /\ Seconds >= Exp + Skew
    <3>1. 2 * (Exp + Skew) <= replay["client-assertion"]
      <4>1. used # <<>>
        <5>1. Len(<<>>) # 1
          OBVIOUS
        <5>. QED BY <2>7, <5>1, Zenon
      <4>. QED BY <4>1 DEF Signed, Asserted
    <3>2. Seconds >= Exp + Skew
      BY <2>2, <3>1, Times
    <3>3. Exp > Seconds - (IF fapi THEN FapiIatSkew ELSE 0)
      BY <2>1 DEF AssertionVerifies
    <3>. QED BY <2>2, <3>2, <3>3, Times
  <2>8. Asserted'
    <3>1. Len(used) \in Nat /\ (Len(used) > 1 => fapi /\ used[2] >= Exp + Skew)
      BY <2>2 DEF Signed, Asserted
    <3>2. Len(Append(used, Seconds)) > 1 => fapi' /\ Append(used, Seconds)[2] >= Exp + Skew
      <4>1. CASE Len(used) = 0
        BY <2>4, <4>1
      <4>2. CASE Len(used) = 1
        BY <2>4, <2>6, <2>7, <4>2
      <4>3. CASE Len(used) > 1
        <5>1. Append(used, Seconds)[2] = used[2]
          BY <2>4, <3>1, <4>3
        <5>. QED BY <5>1, <2>6, <3>1, <4>3
      <4>4. Len(used) = 0 \/ Len(used) = 1 \/ Len(used) > 1
        <5>1. \A n \in Nat : n = 0 \/ n = 1 \/ n > 1
          OBVIOUS
        <5>. QED BY <3>1, <5>1, Zenon
      <4>. QED BY <4>1, <4>2, <4>3, <4>4, Zenon
    <3>. QED BY <2>3, <2>5, <3>2, Zenon DEF Asserted
  <2>9. \A what \in Namespaces : replay'[what] \in Int /\ past'.used[what] \in Seq(Nat)
    BY <2>1, <2>2, <2>3, <2>4, <2>5 DEF Signed, Namespaces
  <2>. QED BY <2>1, <2>2, <2>3, <2>8, <2>9 DEF Signed, setup
<1>. QED BY <1>1, <1>2

\* A proof is claimed only when the ones before it are forgotten.
LEMMA ProvedNext ==
  ASSUME Signed, Common, UNCHANGED <<setup, now>>, scenario = "proofs", NEW c \in Calls, Prove(c)
  PROVE  Signed'
<1>1. PICK jti, nonce :
        /\ jti \in Jtis /\ ProofVerifies
        /\ IF Claimed(jti)
           THEN Begin(c, "prove", nonce, "failed", None, None) /\ UNCHANGED replay
           ELSE /\ Claim(jti, ProofTtl)
                /\ Begin(c, "prove", nonce, "nonce", [jti |-> jti, at |-> Seconds], None)
        /\ UNCHANGED <<unproved, nonces, past>>
  BY DEF Prove
<1>. jti \in Jtis
  BY <1>1
<1>2. /\ Requested /\ Starts(c) /\ "prove" \in Ops /\ Fits("prove") /\ Believed
      /\ now \in Nat /\ UNCHANGED clients
  BY <1>1 DEF Common, Prove, Ops, Fits, Signed, unproved
<1>3. ProofSkew' = ProofSkew /\ ProofTtl' = ProofTtl
  BY <1>2 DEF ProofSkew, ProofTtl, fapi, setup
<1>4. CASE Claimed(jti)
  <2>1. Opened(c) /\ call'[c].pc = "failed" /\ UNCHANGED <<replay, past>>
    BY <1>1, <1>2, <1>4, Enters
  <2>2. \A j : Pending(j)' = Pending(j)
    BY <2>1 DEF Pending, In, Opened, Others, Idle
  <2>3. \A d \in Calls : In(d, "prove", "nonce") => call'[d] = call[d]
    BY <2>1 DEF In, Opened, Others, Idle
  <2>4. \A j : \A d \in Pending(j) : call'[d] = call[d]
    BY <2>3 DEF Pending
  <2>5. Believed'
    <3>1. \A j \in Jtis : BelievedOf(j, past.used[j])'
      BY <1>2, <1>3, <2>1, <2>2, <2>4 DEF Believed, BelievedOf, Believable, Gap
    <3>2. \A d \in Calls : In(d, "prove", "nonce")' => call'[d].seen.jti \in Jtis
      BY <1>2, <2>1 DEF Believed, In, Opened, Others
    <3>. QED BY <3>1, <3>2 DEF Believed
  <2>. QED BY <2>1, <2>5 DEF Signed, setup
<1>5. CASE ~Claimed(jti)
  <2>1. /\ Opened(c) /\ call'[c].pc = "nonce" /\ call'[c].op = "prove"
        /\ call'[c].seen = [jti |-> jti, at |-> Seconds] /\ UNCHANGED past
    BY <1>1, <1>2, <1>5, Enters
  <2>2. /\ replay[jti] \in Int /\ replay[jti] <= now /\ DOMAIN replay' = Namespaces
        /\ replay'[jti] = now + 2 * ProofTtl /\ \A n \in Namespaces \ {jti} : replay'[n] = replay[n]
    BY <1>1, <1>2, <1>5 DEF Claimed, Claim, Signed, Namespaces
  <2>3. c \notin Pending(jti) /\ Pending(jti)' = Pending(jti) \cup {c}
    BY <2>1 DEF Pending, In, Opened, Others, Idle
  <2>4. \A j \in Jtis \ {jti} : Pending(j)' = Pending(j)
    BY <2>1 DEF Pending, In, Opened, Others, Idle
  <2>5. \A j \in Jtis : \A d \in Pending(j) : call'[d] = call[d]
    BY <2>1 DEF Pending, In, Opened, Others, Idle
  <2>6. Believable(jti, Seconds)'
    <3>1. Seconds' = Seconds /\ Seconds \in Nat /\ 2 * Seconds <= now
      BY <1>2, Times DEF Seconds
    <3>2. Iat - ProofSkew <= Seconds /\ Seconds <= Iat + MaxAge
      BY <1>1, <3>1, Times DEF ProofVerifies
    <3>3. 2 * (Seconds + ProofTtl) <= now + 2 * ProofTtl
      BY <3>1, <1>2, Times
    <3>. QED BY <1>3, <2>2, <3>1, <3>2, <3>3 DEF Believable
  <2>7. ASSUME NEW at, Believable(jti, at) PROVE Believable(jti, at)' /\ Gap(at, Seconds) /\ Gap(Seconds, at)
    <3>1. /\ at \in Nat /\ Seconds \in Nat /\ now < 2 * Seconds + 2 /\ ProofTtl \in Nat
          /\ 2 * (at + ProofTtl) <= replay[jti]
      BY <1>2, <2>7, Times DEF Believable
    <3>2. at + ProofTtl <= Seconds
      BY <1>2, <2>2, <3>1
    <3>3. 2 * (at + ProofTtl) <= replay'[jti]
      BY <1>2, <2>2, <3>1
    <3>. QED BY <1>3, <2>7, <3>2, <3>3 DEF Believable, Gap
  <2>8. Gap(1, 2) = Gap(1, 2) /\ \A a, b : Gap(a, b)' = Gap(a, b)
    BY <1>3 DEF Gap
  <2>9. Believed'
    <3>1. BelievedOf(jti, past.used[jti])'
      <4>1. BelievedOf(jti, past.used[jti])
        BY <1>2 DEF Believed
      <4>2. call'[c].seen.at = Seconds /\ \A d \in Pending(jti) : call'[d] = call[d] /\ d # c
        BY <2>1, <2>3, <2>5
      <4>3. \A i \in DOMAIN past.used[jti] : Believable(jti, past.used[jti][i])'
        BY <2>1, <2>7, <4>1 DEF BelievedOf
      <4>4. \A d \in Pending(jti)' : Believable(jti, call[d].seen.at)'
        <5>1. ASSUME NEW d \in Pending(jti)', NEW at, at = call'[d].seen.at PROVE Believable(jti, at)'
          <6>1. CASE d = c
            <7>1. at = Seconds
              BY <4>2, <5>1, <6>1
            <7>. QED BY <2>6, <7>1 DEF Believable, Seconds
          <6>2. CASE d # c
            <7>1. Believable(jti, at)
              BY <2>3, <4>1, <4>2, <5>1, <6>2 DEF BelievedOf
            <7>. QED BY <2>7, <7>1
          <6>. QED BY <6>1, <6>2
        <5>. QED BY <5>1 DEF Believable
      <4>5. \A i, j \in DOMAIN past.used[jti] : i # j => Gap(past.used[jti][i], past.used[jti][j])'
        BY <2>1, <2>8, <4>1 DEF BelievedOf
      <4>6. \A i \in DOMAIN past.used[jti] : \A d \in Pending(jti)' : Gap(past.used[jti][i], call[d].seen.at)'
        BY <2>1, <2>3, <2>7, <2>8, <4>1, <4>2 DEF BelievedOf
      <4>7. \A d, e \in Pending(jti)' : d # e => Gap(call[d].seen.at, call[e].seen.at)'
        BY <2>3, <2>7, <2>8, <4>1, <4>2 DEF BelievedOf
      <4>. QED BY <2>1, <4>3, <4>4, <4>5, <4>6, <4>7 DEF BelievedOf
    <3>2. ASSUME NEW j \in Jtis \ {jti} PROVE BelievedOf(j, past.used[j])'
      <4>1. BelievedOf(j, past.used[j]) /\ replay'[j] = replay[j]
        BY <1>2, <2>2 DEF Believed, Namespaces
      <4>2. \A at : Believable(j, at)' = Believable(j, at)
        BY <1>3, <4>1 DEF Believable
      <4>. QED BY <2>1, <2>4, <2>5, <2>8, <4>1, <4>2 DEF BelievedOf
    <3>3. \A d \in Calls : In(d, "prove", "nonce")' => call'[d].seen.jti \in Jtis
      BY <1>2, <2>1 DEF Believed, In, Opened, Others
    <3>. QED BY <3>1, <3>2, <3>3 DEF Believed
  <2>10. \A what \in Namespaces : replay'[what] \in Int
    BY <1>2, <2>2, Times DEF Signed
  <2>. QED BY <2>1, <2>2, <2>9, <2>10 DEF Signed, setup
<1>. QED BY <1>4, <1>5

\* A proof is believed, or thrown away, once its nonce is looked at.
LEMMA CheckedNext ==
  ASSUME Signed, Common, UNCHANGED <<setup, now>>, scenario = "proofs", NEW c \in Calls, CheckNonce(c)
  PROVE  Signed'
<1>1. Requested /\ InFlight(c) /\ Believed /\ UNCHANGED <<clients, replay>> /\ In(c, "prove", "nonce")
  BY InIsInFlight DEF Common, CheckNonce, Signed, unproved
<1>2. ProofSkew' = ProofSkew /\ ProofTtl' = ProofTtl
  BY <1>1 DEF ProofSkew, ProofTtl, fapi, setup
<1>3. /\ \A at : \A j : Believable(j, at)' = Believable(j, at)
      /\ \A a, b : Gap(a, b)' = Gap(a, b)
  BY <1>1, <1>2 DEF Believable, Gap
<1>4. Others(c) /\ call'[c].pc # "nonce"
  BY <1>1, Answers, Throws DEF CheckNonce, Kept
<1>5. /\ \A j : Pending(j)' = Pending(j) \ {c}
      /\ \A j : \A d \in Pending(j)' : call'[d] = call[d] /\ d \in Pending(j) /\ d # c
  BY <1>4 DEF Pending, In, Others
<1>6. CASE UNCHANGED past
  <2>1. Believed'
    <3>1. \A j \in Jtis : BelievedOf(j, past.used[j])'
      BY <1>1, <1>2, <1>5, <1>6 DEF Believed, BelievedOf, Believable, Gap
    <3>2. \A d \in Calls : In(d, "prove", "nonce")' => call'[d].seen.jti \in Jtis
      BY <1>1, <1>4 DEF Believed, In, Others
    <3>. QED BY <3>1, <3>2 DEF Believed
  <2>. QED BY <1>1, <1>6, <2>1 DEF Signed, setup
<1>7. CASE Use(call[c].seen.jti, call[c].seen.at)
  <2>1. PICK jti, at : jti \in Jtis /\ call[c].seen.jti = jti /\ call[c].seen.at = at /\ c \in Pending(jti)
    BY <1>1 DEF Believed, Pending
  <2>. jti \in Jtis
    BY <2>1
  <2>2. /\ BelievedOf(jti, past.used[jti]) /\ past.used[jti] \in Seq(Nat) /\ Believable(jti, at) /\ at \in Nat
        /\ DOMAIN past.used = Namespaces /\ DOMAIN past = Memory
    BY <1>1, <2>1 DEF Believed, BelievedOf, Believable, Signed, Namespaces, Common
  <2>3. /\ past'.used[jti] = Append(past.used[jti], at) /\ DOMAIN past'.used = Namespaces
        /\ \A what \in Namespaces \ {jti} : past'.used[what] = past.used[what]
    BY <1>7, <2>1, <2>2 DEF Use, Memory, Namespaces
  <2>4. PICK used, new : used = past.used[jti] /\ new = past'.used[jti]
    OBVIOUS
  <2>5. /\ new \in Seq(Nat) /\ DOMAIN new = DOMAIN used \cup {Len(used) + 1}
        /\ Len(used) + 1 \notin DOMAIN used
        /\ new[Len(used) + 1] = at /\ \A i \in DOMAIN used : new[i] = used[i]
    BY <2>2, <2>3, <2>4
  <2>6. /\ \A i \in DOMAIN used : Gap(used[i], at) /\ Gap(at, used[i]) /\ Believable(jti, used[i])
        /\ \A i, j \in DOMAIN used : i # j => Gap(used[i], used[j])
    BY <2>1, <2>2, <2>4 DEF BelievedOf, Gap
  <2>7. BelievedOf(jti, past.used[jti])'
    <3>2. \A i \in DOMAIN new : Believable(jti, new[i])
      BY <2>2, <2>5, <2>6
    <3>3. \A d \in Pending(jti)' : Believable(jti, call'[d].seen.at)
      BY <1>5, <2>2 DEF BelievedOf
    <3>4. \A i, j \in DOMAIN new : i # j => Gap(new[i], new[j])
      BY <2>5, <2>6
    <3>5. \A i \in DOMAIN new : \A d \in Pending(jti)' : Gap(new[i], call'[d].seen.at)
      <4>1. \A d \in Pending(jti)' : Gap(at, call'[d].seen.at)
        BY <1>5, <2>1, <2>2 DEF BelievedOf
      <4>2. \A i \in DOMAIN used : \A d \in Pending(jti)' : Gap(used[i], call'[d].seen.at)
        BY <1>5, <2>2, <2>4 DEF BelievedOf
      <4>. QED BY <2>5, <4>1, <4>2
    <3>6. \A d, e \in Pending(jti)' : d # e => Gap(call'[d].seen.at, call'[e].seen.at)
      BY <1>5, <2>2 DEF BelievedOf
    <3>. QED BY <1>1, <1>2, <2>4, <3>2, <3>3, <3>4, <3>5, <3>6 DEF BelievedOf, Believable, Gap
  <2>8. Believed'
    <3>1. ASSUME NEW j \in Jtis \ {jti} PROVE BelievedOf(j, past.used[j])'
      <4>1. BelievedOf(j, past.used[j]) /\ past'.used[j] = past.used[j]
        BY <1>1, <2>3 DEF Believed, Namespaces
      <4>. QED BY <1>1, <1>2, <1>5, <4>1 DEF BelievedOf, Believable, Gap
    <3>2. \A d \in Calls : In(d, "prove", "nonce")' => call'[d].seen.jti \in Jtis
      BY <1>1, <1>4 DEF Believed, In, Others
    <3>. QED BY <2>7, <3>1, <3>2 DEF Believed
  <2>9. \A what \in Namespaces : past'.used[what] \in Seq(Nat)
    BY <2>3, <2>4, <2>5 DEF Signed
  <2>10. past'.used["client-assertion"] = past.used["client-assertion"]
    BY <2>3 DEF Namespaces, Jtis
  <2>. QED BY <1>1, <2>3, <2>8, <2>9, <2>10 DEF Signed, setup
<1>. QED BY <1>1, <1>6, <1>7 DEF CheckNonce

\* What the steps of a kind leave as it is.
LEMMA ClientsKeep ==
  ASSUME NEW c, ClientSteps(c) \/ Registers(c) \/ Revises(c) \/ Publish
  PROVE  UNCHANGED <<others, past>>
<1>1. CASE Post(c) \/ Put(c) \/ Delete(c) \/ Create(c) \/ Update(c) \/ Visit(c)
  BY <1>1 DEF Post, Put, Delete, Create, Update, Visit, Keep, stores, others
<1>2. CASE Written(c) \/ StoreMetadata(c) \/ Upsert(c)
  BY <1>2 DEF StoreMetadata, Upsert, Written, Store
<1>3. CASE Destroyed(c) \/ Destroy(c)
  BY <1>3 DEF Destroyed, Destroy, Store
<1>4. CASE Publish
  BY <1>4 DEF Publish
<1>. QED BY <1>1, <1>2, <1>3, <1>4 DEF ClientSteps, Registers, Revises

\* A step on tokens leaves the other stores.
LEMMA TokensKeep ==
  ASSUME NEW c, TokenSteps(c), DOMAIN past = Memory
  PROVE  /\ UNCHANGED unused
         /\ \A part \in Memory \ {"from", "told"} : past'[part] = past[part]
<1>1. CASE Exchange(c) \/ Declined(c) \/ Introspect(c) \/ Describe(c) \/ UserInfo(c) \/ Claims(c) \/ Revoke(c)
  BY <1>1 DEF Exchange, Declined, Introspect, Describe, UserInfo, Claims, Revoke, Keep, stores, unused
<1>2. CASE ClientCredentials(c) \/ RevokeOne(c) \/ RevokeByGrantId(c) \/ DestroyGrant(c)
  BY <1>2 DEF ClientCredentials, RevokeOne, RevokeByGrantId, DestroyGrant, unused
<1>3. CASE Exchanged(c)
  <2>1. PICK token, subject : IssueAccessToken(c, token, subject)
    BY <1>3 DEF Exchanged
  <2>. QED BY <2>1 DEF IssueAccessToken, Memory
<1>. QED BY <1>1, <1>2, <1>3 DEF TokenSteps

\* A step on sessions leaves tokens and what was believed.
LEMMA LogoutKeeps ==
  ASSUME NEW c, LogoutSteps(c), DOMAIN past = Memory
  PROVE  /\ UNCHANGED ended
         /\ \A part \in Memory \ {"notified", "destroyed", "accepted"} : past'[part] = past[part]
<1>1. CASE EndSession(c) \/ DestroySession(c) \/ Tell(c) \/ Redeem(c)
  BY <1>1 DEF EndSession, DestroySession, Tell, Redeem, Keep, stores, ended
<1>2. CASE AskToConfirm(c) \/ ConfirmLogout(c) \/ Join(c)
  BY <1>2 DEF AskToConfirm, ConfirmLogout, Join
<1>3. CASE AcceptConfirmation(c) \/ EndOf(c)
  BY <1>3 DEF AcceptConfirmation, EndOf, Memory
<1>4. CASE Deliver(c)
  <2>1. UNCHANGED ended
    BY <1>4 DEF Deliver, Keep, stores, ended
  <2>2. \/ past' = past
        \/ past' = [past EXCEPT !.notified =
                      @ \cup (call[c].seen.back \X {"back"}) \cup (call[c].seen.front \X {"front"})]
    BY <1>4 DEF Deliver
  <2>. QED BY <2>1, <2>2 DEF Memory
<1>. QED BY <1>1, <1>2, <1>3, <1>4 DEF LogoutSteps

\* Every step keeps what was believed.
LEMMA SignedNext == Common /\ Signed /\ [Next]_all => Signed'
<1>. SUFFICES ASSUME Common, Signed, [Next]_all PROVE Signed'
  OBVIOUS
<1>1. CASE UNCHANGED all
  BY <1>1, SignedStays DEF all, stores
<1>2. ASSUME Next PROVE Signed'
  <2>1. UNCHANGED setup /\ DOMAIN past = Memory /\ "used" \in Memory
    BY <1>2 DEF Next, Common, Memory
  <2>2. CASE Tick
    BY <2>1, <2>2, SignedStays DEF Tick, stores
  <2>3. CASE scenario = "clients" /\ (Publish \/ \E c \in Calls : ClientSteps(c))
    BY <2>1, <2>3, SignedStays, ClientsKeep DEF others
  <2>4. CASE scenario = "setup" /\ \E c \in Calls : Registers(c)
    BY <2>1, <2>4, SignedStays, ClientsKeep DEF others
  <2>5. CASE scenario = "assertions" /\ UNCHANGED now /\ \E c \in Calls : PresentAssertion(c)
    BY <2>1, <2>5, AssertedNext
  <2>6. CASE scenario = "proofs" /\ UNCHANGED now /\ \E c \in Calls : Prove(c) \/ CheckNonce(c)
    BY <2>1, <2>6, ProvedNext, CheckedNext
  <2>7. ASSUME NEW c \in Calls, scenario = "tokens",
               Revises(c) \/ TokenSteps(c) \/ (Crash(c) /\ call[c].op = "revoke")
        PROVE  Signed'
    <3>1. UNCHANGED replay /\ past'.used = past.used
      BY <2>1, <2>7, ClientsKeep, TokensKeep DEF others, unused, Memory, Crash, stores
    <3>. QED BY <2>1, <2>7, <3>1, SignedStays
  <2>8. ASSUME NEW c \in Calls, scenario = "logout",
               Revises(c) \/ LogoutSteps(c) \/ Crash(c)
        PROVE  Signed'
    <3>1. UNCHANGED replay /\ past'.used = past.used
      BY <2>1, <2>8, ClientsKeep, LogoutKeeps DEF others, ended, Memory, Crash, stores
    <3>. QED BY <2>1, <2>8, <3>1, SignedStays
  <2>. QED BY <1>2, <2>2, <2>3, <2>4, <2>5, <2>6, <2>7, <2>8, Scenes
<1>. QED BY <1>1, <1>2

\* What was believed twice was believed at the two ends of its window.
LEMMA SignedHolds == Common /\ Signed => UsedOnceInside
<1>. SUFFICES ASSUME Common, Signed, NEW what \in Namespaces, Len(past.used[what]) > 1
              PROVE  IF what = "client-assertion"
                     THEN fapi /\ past.used[what][2] >= Exp + Skew
                     ELSE ToSet(past.used[what]) = {Iat - ProofSkew, Iat + MaxAge}
  BY DEF UsedOnceInside, Signed
<1>1. CASE what = "client-assertion"
  <2>1. Len(<<>>) = 0
    OBVIOUS
  <2>2. scenario = "assertions"
    BY <1>1, <2>1 DEF Signed
  <2>. QED BY <1>1, <2>2 DEF Signed, Asserted
<1>2. CASE what \in Jtis
  <2>0. what # "client-assertion"
    BY <1>2 DEF Jtis
  <2>1. PICK used \in Seq(Nat) : used = past.used[what]
    BY DEF Signed
  <2>2. Len(<<>>) = 0
    OBVIOUS
  <2>3. BelievedOf(what, used)
    BY <1>2, <2>1, <2>2 DEF Signed, Believed
  <2>4. Iat \in Nat /\ MaxAge \in Nat /\ ProofSkew \in Nat /\ ProofTtl = MaxAge + ProofSkew
    BY Times
  <2>5. \A i \in DOMAIN used : used[i] \in Nat /\ Iat - ProofSkew <= used[i] /\ used[i] <= Iat + MaxAge
    BY <2>1, <2>3 DEF BelievedOf, Believable
  <2>6. \A i, j \in DOMAIN used : i # j =>
          used[i] + (MaxAge + ProofSkew) <= used[j] \/ used[j] + (MaxAge + ProofSkew) <= used[i]
    BY <2>3, <2>4 DEF BelievedOf, Gap
  <2>7. \A i, j \in DOMAIN used : i # j => {used[i], used[j]} = {Iat - ProofSkew, Iat + MaxAge}
    <3>1. ASSUME NEW i \in DOMAIN used, NEW j \in DOMAIN used, used[i] + (MaxAge + ProofSkew) <= used[j]
          PROVE  used[i] = Iat - ProofSkew /\ used[j] = Iat + MaxAge
      <4>1. \A a, b, iat, age, skew \in Nat :
              iat - skew <= a /\ b <= iat + age /\ a + (age + skew) <= b => a = iat - skew /\ b = iat + age
        OBVIOUS
      <4>2. /\ used[i] \in Nat /\ used[j] \in Nat /\ Iat - ProofSkew <= used[i] /\ used[j] <= Iat + MaxAge
            /\ used[i] + (MaxAge + ProofSkew) <= used[j]
        BY <2>5, <3>1, Zenon
      <4>3. PICK a \in Nat, b \in Nat : a = used[i] /\ b = used[j]
        BY <4>2
      <4>4. Iat - ProofSkew <= a /\ b <= Iat + MaxAge /\ a + (MaxAge + ProofSkew) <= b
        BY <4>2, <4>3, Zenon
      <4>5. a = Iat - ProofSkew /\ b = Iat + MaxAge
        BY <2>4, <4>4
      <4>. QED BY <4>3, <4>5, Zenon
    <3>. QED BY <2>6, <3>1
  <2>8. 1 \in DOMAIN used /\ 2 \in DOMAIN used /\ \A i \in DOMAIN used : i # 1 \/ i # 2
    BY <2>1
  <2>9. {used[i] : i \in DOMAIN used} = {Iat - ProofSkew, Iat + MaxAge}
    <3>1. \A i \in DOMAIN used : used[i] \in {Iat - ProofSkew, Iat + MaxAge}
      BY <2>7, <2>8
    <3>2. {used[1], used[2]} = {Iat - ProofSkew, Iat + MaxAge}
      BY <2>7, <2>8
    <3>. QED BY <2>8, <3>1, <3>2
  <2>. QED BY <2>0, <2>1, <2>9 DEF ToSet
<1>. QED BY <1>1, <1>2 DEF Namespaces

-----------------------------------------------------------------------------
(* Clients are clients. *)

Field == {"method", "grantTypes", "redirectUri", "host", "native", "sector", "subjectType", "alg", "requirePkce",
          "vouched", "profile", "logoutUris", "postLogoutRedirectUri", "resourceServer", "keys", "subjectDn",
          "secret", "access", "createdAt"}

\* A client has every field.
LEMMA ClientFields ==
  ASSUME NEW client \in Client
  PROVE  DOMAIN client = Field /\ client # None
BY NamesAssumption DEF Client, Field

\* A client that is patched is a client.
LEMMA PatchedClient ==
  ASSUME NEW patch, Speaks(patch), NEW client \in Client
  PROVE  /\ Patched(patch, client) \in Client
         /\ \A f \in Field : f \notin DOMAIN patch => Patched(patch, client)[f] = client[f]
<1>. DEFINE typed == Patched(patch, Operated(App))
            new == Patched(patch, client)
<1>1. DOMAIN client = Field /\ DOMAIN Operated(App) = Field
  BY DEF Client, Field, Operated
<1>2. \A f \in Field : new[f] = typed[f] \/ new[f] = client[f]
  BY <1>1 DEF Patched
<1>3. typed \in Client
  BY DEF Speaks
<1>4. new = [f \in Field |-> new[f]]
  BY <1>1 DEF Patched
<1>5. new \in Client
  <2>. HIDE DEF new, typed
  <2>. QED BY <1>2, <1>3, <1>4 DEF Client, Field
<1>. QED BY <1>1, <1>5 DEF Patched

\* What the operator registers with no more than a name is a client.
LEMMA OperatedClient ==
  ASSUME NEW id \in ClientIds \cup {None}
  PROVE  Operated(id) \in Client
BY DEF Operated, Client, Methods, GrantTypes, Uris, Hosts

\* The fields of what a registration stores.
LEMMA Registration ==
  ASSUME NEW c, NEW body, NEW decision, NEW client, client = MetadataFrom(c, body, decision)
  PROVE  /\ client.method = body.method /\ client.redirectUri = body.redirectUri /\ client.host = body.host
         /\ client.native = body.native /\ client.sector = (body.sector # None)
         /\ client.subjectType = body.subjectType /\ client.profile = None /\ client.keys = body.keys
         /\ client.alg = (IF body.alg = None THEN "RS256" ELSE body.alg)
         /\ client.secret = (IF body.method = "none" THEN None ELSE c)
BY DEF MetadataFrom, Operated

\* What a registration stores is a client.
LEMMA RegisteredClient ==
  ASSUME scenario \in Scenarios, NEW body \in Bodies[scenario], NEW decision, NEW c \in ClientIds
  PROVE  MetadataFrom(c, body, decision) \in Client
<1>1. MetadataFrom(App, body, "none") \in Client
  BY BodiesAssumption
<1>. DEFINE base == MetadataFrom(App, body, "none")
            new == MetadataFrom(c, body, decision)
<1>2. /\ new.method = base.method /\ new.grantTypes = base.grantTypes /\ new.redirectUri = base.redirectUri
      /\ new.host = base.host /\ new.native = base.native /\ new.sector = base.sector
      /\ new.subjectType = base.subjectType /\ new.alg = base.alg /\ new.profile = base.profile
      /\ new.logoutUris = base.logoutUris /\ new.resourceServer = base.resourceServer
      /\ new.keys = base.keys /\ new.subjectDn = base.subjectDn
  BY DEF MetadataFrom, Operated
<1>3. /\ new.requirePkce \in BOOLEAN /\ new.vouched \in BOOLEAN /\ new.postLogoutRedirectUri = c
      /\ new.secret \in {None, c} /\ new.access = c /\ new.createdAt = c
  BY DEF MetadataFrom, Operated
<1>4. new = [f \in Field |-> new[f]]
  <2>1. DOMAIN Operated(c) = Field
    BY DEF Operated, Field
  <2>2. new = [f \in DOMAIN Operated(c) |-> new[f]]
    BY DEF MetadataFrom
  <2>. QED BY <2>1, <2>2
<1>. HIDE DEF base, new
<1>. QED BY <1>1, <1>2, <1>3, <1>4 DEF Client, Field, base, new

\* Whoever is known is a client, and so is what a request is about to store; the two the
\* operator registered are known but where they can be removed.
Storing(c) == call[c].op \in {"post", "put", "create", "update"} /\ call[c].pc \in {"store", "upsert"}
Clientele ==
  /\ clients \in [ClientIds -> Client \cup {None}]
  /\ document # None => document \in Bodies[scenario]
  /\ \A c \in Calls : Storing(c) => call[c].seen.id \in ClientIds /\ call[c].seen.record \in Client
  /\ scenario # "clients" => document = None /\ clients[App] \in Client /\ clients[Api] \in Client

\* At first two are known, the operator's.
LEMMA ClienteleInit == Init => Clientele
<1>. SUFFICES ASSUME Init PROVE Clientele
  OBVIOUS
<1>1. PICK registered \in Registered[scenario] :
        clients = [id \in ClientIds |-> IF id \in {App, Api} THEN Patched(registered[id], Operated(id)) ELSE None]
  BY DEF Init
<1>2. \A id \in {App, Api} : Patched(registered[id], Operated(id)) \in Client /\ id \in ClientIds
  <2>1. \A id \in {App, Api} : Speaks(registered[id]) /\ id \in ClientIds
    BY RegisteredAssumption DEF Init, ClientIds
  <2>. QED BY <2>1, PatchedClient, OperatedClient
<1>3. document = None /\ \A c \in Calls : ~Storing(c)
  BY NamesAssumption DEF Init, Storing, Idle, Ops
<1>. QED BY <1>1, <1>2, <1>3 DEF Clientele

\* A step that stores nothing, or a client.
LEMMA ClienteleKept ==
  ASSUME Clientele, UNCHANGED setup, NEW c \in Calls, Others(c),
         Storing(c)' => call'[c].seen.id \in ClientIds /\ call'[c].seen.record \in Client,
         clients' = clients
           \/ \E id : \E record \in Client : clients' = [clients EXCEPT ![id] = record],
         UNCHANGED document
  PROVE  Clientele'
<1>1. /\ clients' \in [ClientIds -> Client \cup {None}]
      /\ scenario # "clients" => clients'[App] \in Client /\ clients'[Api] \in Client
  BY DEF Clientele, ClientIds
<1>2. \A d \in Calls : Storing(d)' => call'[d].seen.id \in ClientIds /\ call'[d].seen.record \in Client
  BY DEF Clientele, Storing, Others
<1>. QED BY <1>1, <1>2 DEF Clientele, setup

\* Whoever is found is a client.
LEMMA Found ==
  ASSUME Common, Clientele, NEW id \in ClientIds, FindClient(id) # None
  PROVE  FindClient(id) \in Client
<1>1. CASE id = Document /\ clients[id] = None
  <2>1. FindClient(id) = ClientFrom(document)
    BY <1>1 DEF FindClient
  <2>2. /\ document # None /\ document.method \in Methods
        /\ ClientFrom(document) = [Operated(None) EXCEPT !.method = document.method, !.native = TRUE, !.keys = document.keys]
    BY <2>1 DEF ClientFrom, Methods
  <2>3. document \in Bodies[scenario]
    BY <2>2 DEF Clientele
  <2>4. MetadataFrom(App, document, "none") \in Client
    BY <2>3, BodiesAssumption DEF Common
  <2>5. document.keys \in {None, "jwks", "jwks_uri"}
    <3>1. \A client \in Client : client.keys \in {None, "jwks", "jwks_uri"}
      BY DEF Client
    <3>. QED BY <2>4, <3>1, Registration
  <2>6. PICK operated \in Client : operated = Operated(None)
    BY OperatedClient
  <2>7. PICK method \in Methods, published \in {None, "jwks", "jwks_uri"} :
          FindClient(id) = [operated EXCEPT !.method = method, !.native = TRUE, !.keys = published]
    BY <2>1, <2>2, <2>5, <2>6, Zenon
  <2>. QED BY <2>6, <2>7 DEF Client
<1>2. CASE ~(id = Document /\ clients[id] = None)
  BY <1>2 DEF FindClient, Clientele
<1>. QED BY <1>1, <1>2

\* What an update found, and what it is about to store.
LEMMA UpdateBegins ==
  ASSUME Common, Clientele, UNCHANGED setup, NEW c \in Calls, Update(c)
  PROVE  \E id \in ClientIds, patch \in Patches[scenario] :
           /\ FindClient(id) \in Client /\ Patched(patch, FindClient(id)) \in Client /\ Speaks(patch)
           /\ Opened(c) /\ call'[c].op = "update" /\ call'[c].pc = "upsert" /\ call'[c].given = patch
           /\ call'[c].seen = [id |-> id, found |-> FindClient(id).secret, record |-> Patched(patch, FindClient(id))]
           /\ call'[c].answer = None /\ UNCHANGED <<stores, past>>
<1>1. PICK id \in ClientIds, patch \in Patches[scenario] :
        /\ FindClient(id) # None
        /\ Begin(c, "update", patch, "upsert",
                 [id |-> id, found |-> FindClient(id).secret, record |-> Patched(patch, FindClient(id))], None)
        /\ Keep /\ UNCHANGED past
  BY DEF Update
<1>2. Starts(c) /\ "update" \in Ops /\ Fits("update")
  BY DEF Update, Ops, Fits
<1>3. /\ Opened(c) /\ call'[c].op = "update" /\ call'[c].pc = "upsert" /\ call'[c].given = patch
      /\ call'[c].seen = [id |-> id, found |-> FindClient(id).secret, record |-> Patched(patch, FindClient(id))]
      /\ call'[c].answer = None
  BY <1>1, <1>2, Enters
<1>4. FindClient(id) \in Client
  BY <1>1, Found
<1>5. Speaks(patch)
  BY PatchesAssumption DEF Common
<1>6. Patched(patch, FindClient(id)) \in Client
  BY <1>4, <1>5, PatchedClient
<1>. QED BY <1>1, <1>3, <1>4, <1>5, <1>6 DEF Keep

\* A request stores what it made up.
LEMMA WriteEnds ==
  ASSUME Requested, NEW c \in Calls, InFlight(c), Written(c)
  PROVE  /\ Kept(c) /\ call'[c].pc = "done" /\ call'[c].given = call[c].given /\ call'[c].answer = "stored"
         /\ call'[c].seen = [id |-> call[c].seen.id, found |-> call[c].seen.found]
         /\ clients' = [clients EXCEPT ![call[c].seen.id] = call[c].seen.record]
         /\ UNCHANGED <<document, others, past>>
BY Leaves DEF Written, Store

\* What an update makes of two clients is one.
LEMMA UpdatedClient ==
  ASSUME NEW existing \in Client, NEW replacement \in Client
  PROVE  Updated(existing, replacement) \in Client
<1>1. PICK secret, access, createdAt \in ClientIds \cup {None} :
        Updated(existing, replacement) =
          [replacement EXCEPT !.secret = secret, !.access = access, !.createdAt = createdAt]
  BY DEF Updated, Client
<1>. QED BY <1>1 DEF Client

\* What the host creates is a client.
LEMMA CreatedClient ==
  ASSUME NEW c \in Calls, NEW exempt \in BOOLEAN
  PROVE  [Operated(c) EXCEPT !.requirePkce = ~exempt, !.vouched = exempt] \in Client
<1>1. PICK operated \in Client : operated = Operated(c)
  BY OperatedClient DEF ClientIds
<1>2. PICK spared \in BOOLEAN : spared = ~exempt
  OBVIOUS
<1>3. [operated EXCEPT !.requirePkce = spared, !.vouched = exempt] \in Client
  BY DEF Client
<1>. QED BY <1>1, <1>2, <1>3, Zenon

\* A step on clients stores a client, or removes one.
LEMMA ClienteleClients ==
  ASSUME Common, Clientele, UNCHANGED setup, NEW c \in Calls, ClientSteps(c) \/ Registers(c) \/ Revises(c)
  PROVE  Clientele'
<1>0. Requested
  BY DEF Common
<1>1. CASE Post(c)
  <2>1. PICK body \in Bodies[scenario], decision \in Decisions :
          /\ \/ Begin(c, "post", [body |-> body, decision |-> decision], "store",
                        [id |-> c, found |-> None, record |-> MetadataFrom(c, body, decision)], None)
             \/ Begin(c, "post", [body |-> body, decision |-> decision], "done", None, "refused")
          /\ Keep
    BY <1>1 DEF Post
  <2>2. Starts(c) /\ "post" \in Ops /\ Fits("post")
    BY <1>1 DEF Post, Ops, Fits
  <2>3. CASE Begin(c, "post", [body |-> body, decision |-> decision], "store",
                   [id |-> c, found |-> None, record |-> MetadataFrom(c, body, decision)], None)
    <3>1. Others(c) /\ call'[c].seen = [id |-> c, found |-> None, record |-> MetadataFrom(c, body, decision)]
      BY <2>2, <2>3, Enters DEF Opened
    <3>2. MetadataFrom(c, body, decision) \in Client /\ c \in ClientIds
      BY RegisteredClient DEF Common, ClientIds
    <3>. QED BY <2>1, <3>1, <3>2, ClienteleKept DEF Keep, stores
  <2>4. CASE Begin(c, "post", [body |-> body, decision |-> decision], "done", None, "refused")
    <3>1. Others(c) /\ call'[c].pc = "done"
      BY <2>2, <2>4, Enters DEF Opened
    <3>. QED BY <2>1, <3>1, ClienteleKept DEF Keep, stores, Storing
  <2>. QED BY <2>1, <2>3, <2>4
<1>2. CASE Put(c)
  <2>1. PICK id \in Named, body \in Bodies[scenario], decision \in Decisions :
          /\ Begin(c, "put", body, "store",
                   [id |-> id, found |-> clients[id].secret,
                    record |-> Updated(clients[id], MetadataFrom(c, body, decision))], None)
          /\ Keep
    BY <1>2 DEF Put
  <2>2. Starts(c) /\ "put" \in Ops /\ Fits("put")
    BY <1>2 DEF Put, Ops, Fits
  <2>3. Others(c) /\ call'[c].seen = [id |-> id, found |-> clients[id].secret,
                                     record |-> Updated(clients[id], MetadataFrom(c, body, decision))]
    BY <2>1, <2>2, Enters DEF Opened
  <2>4. id \in ClientIds /\ clients[id] \in Client /\ MetadataFrom(c, body, decision) \in Client
    BY RegisteredClient DEF Common, ClientIds, Named, Clientele
  <2>5. Updated(clients[id], MetadataFrom(c, body, decision)) \in Client
    BY <2>4, UpdatedClient
  <2>. QED BY <2>1, <2>3, <2>4, <2>5, ClienteleKept DEF Keep, stores
<1>3. ASSUME NEW op \in {"delete", "visit"}, NEW given, NEW pc \in {"destroy", "done"}, NEW seen, NEW answer,
             Begin(c, op, given, pc, seen, answer), pc = "done" \/ answer = None, Starts(c), Fits(op), Keep
      PROVE  Clientele'
  <2>1. Others(c) /\ call'[c].pc = pc
    BY <1>3, Enters DEF Opened, Ops
  <2>. QED BY <1>3, <2>1, ClienteleKept DEF Keep, stores, Storing
<1>9. CASE Delete(c)
  <2>1. PICK seen : Begin(c, "delete", None, "destroy", seen, None)
    BY <1>9 DEF Delete
  <2>. QED BY <1>3, <1>9, <2>1 DEF Delete, Fits
<1>10. CASE Visit(c)
  <2>1. PICK given, seen, answer : Begin(c, "visit", given, "done", seen, answer)
    BY <1>10 DEF Visit
  <2>. QED BY <1>3, <1>10, <2>1 DEF Visit, Fits
<1>4. CASE Create(c)
  <2>1. PICK id \in {App, Document}, exempt \in BOOLEAN :
          /\ Begin(c, "create", None, "upsert",
                   [id |-> id, found |-> None,
                    record |-> [Operated(c) EXCEPT !.requirePkce = ~exempt, !.vouched = exempt]], None)
          /\ Keep
    BY <1>4 DEF Create
  <2>2. Starts(c) /\ "create" \in Ops /\ Fits("create")
    BY <1>4 DEF Create, Ops, Fits
  <2>3. Others(c) /\ call'[c].seen = [id |-> id, found |-> None,
                    record |-> [Operated(c) EXCEPT !.requirePkce = ~exempt, !.vouched = exempt]]
    BY <2>1, <2>2, Enters DEF Opened
  <2>4. [Operated(c) EXCEPT !.requirePkce = ~exempt, !.vouched = exempt] \in Client /\ id \in ClientIds
    BY CreatedClient DEF ClientIds
  <2>. QED BY <2>1, <2>3, <2>4, ClienteleKept DEF Keep, stores
<1>5. CASE Update(c)
  <2>1. PICK id, patch :
           /\ id \in ClientIds /\ Patched(patch, FindClient(id)) \in Client /\ Opened(c)
           /\ call'[c].seen = [id |-> id, found |-> FindClient(id).secret, record |-> Patched(patch, FindClient(id))]
           /\ UNCHANGED stores
    BY <1>5, UpdateBegins
  <2>. QED BY <2>1, ClienteleKept DEF stores, Opened
<1>6. CASE Storing(c) /\ InFlight(c) /\ Written(c)
  <2>1. /\ Kept(c) /\ call'[c].pc = "done" /\ UNCHANGED document
        /\ clients' = [clients EXCEPT ![call[c].seen.id] = call[c].seen.record]
    BY <1>0, <1>6, WriteEnds
  <2>2. call[c].seen.record \in Client
    BY <1>6 DEF Clientele
  <2>3. Others(c) /\ ~Storing(c)'
    BY <2>1 DEF Kept, Storing
  <2>. QED BY <2>1, <2>2, <2>3, ClienteleKept
<1>7. CASE StoreMetadata(c) \/ Upsert(c) \/ (In(c, "post", "store") /\ Written(c)) \/ (In(c, "update", "upsert") /\ Written(c))
  <2>1. Storing(c) /\ InFlight(c) /\ Written(c)
    BY <1>7, InIsInFlight DEF StoreMetadata, Upsert, Storing, In
  <2>. QED BY <1>6, <2>1
<1>8. CASE Destroyed(c) \/ Destroy(c)
  <2>1. PICK id : clients' = [clients EXCEPT ![id] = None] /\ UNCHANGED document
    BY <1>8 DEF Destroyed, Destroy, Store
  <2>2. Others(c) /\ call'[c].pc = "done"
    <3>1. CASE Destroyed(c)
      BY <1>0, <3>1, InIsInFlight, Leaves DEF Destroyed, Kept
    <3>2. CASE Destroy(c)
      <4>1. PICK seen : Begin(c, "destroy", None, "done", seen, "gone")
        BY <3>2 DEF Destroy
      <4>2. Starts(c) /\ "destroy" \in Ops /\ Fits("destroy")
        BY <3>2 DEF Destroy, Ops, Fits
      <4>. QED BY <4>1, <4>2, Enters DEF Opened
    <3>. QED BY <1>8, <3>1, <3>2
  <2>3. scenario = "clients"
    <3>1. CASE Destroyed(c)
      BY <3>1, Scene DEF Destroyed, Fits
    <3>. QED BY <1>8, <3>1 DEF Destroy
  <2>4. clients' \in [ClientIds -> Client \cup {None}]
    BY <2>1 DEF Clientele
  <2>5. \A d \in Calls : Storing(d)' => call'[d].seen.id \in ClientIds /\ call'[d].seen.record \in Client
    BY <2>2 DEF Clientele, Storing, Others
  <2>6. (document' # None => document' \in Bodies[scenario']) /\ scenario' = "clients"
    BY <2>1, <2>3 DEF Clientele, setup
  <2>. QED BY <2>4, <2>5, <2>6 DEF Clientele
<1>. QED BY <1>1, <1>2, <1>4, <1>5, <1>7, <1>8, <1>9, <1>10 DEF ClientSteps, Registers, Revises

\* Every step leaves clients clients.
LEMMA ClienteleNext == Common /\ Clientele /\ [Next]_all => Clientele'
<1>. SUFFICES ASSUME Common, Clientele, [Next]_all PROVE Clientele'
  OBVIOUS
<1>1. ASSUME UNCHANGED <<setup, clients, document, call>> PROVE Clientele'
  BY <1>1 DEF Clientele, setup, Storing
<1>2. CASE UNCHANGED all
  BY <1>1, <1>2 DEF all, stores
<1>3. ASSUME Next PROVE Clientele'
  <2>1. UNCHANGED setup /\ DOMAIN past = Memory /\ Requested
    BY <1>3 DEF Next, Common
  <2>2. CASE Tick
    BY <1>1, <2>1, <2>2 DEF Tick, stores
  <2>3. CASE Publish
    <3>1. UNCHANGED <<clients, call>> /\ (document' # None => document' \in Bodies[scenario]) /\ scenario = "clients"
      BY <2>3 DEF Publish
    <3>. QED BY <2>1, <3>1 DEF Clientele, setup, Storing
  <2>4. ASSUME NEW c \in Calls, ClientSteps(c) \/ Registers(c) \/ Revises(c) PROVE Clientele'
    BY <2>1, <2>4, ClienteleClients
  <2>5. ASSUME NEW c \in Calls, UNCHANGED <<clients, document>>, Others(c), ~Storing(c)' PROVE Clientele'
    BY <2>1, <2>5, ClienteleKept
  <2>6. ASSUME NEW c \in Calls, PresentAssertion(c) PROVE Clientele'
    <3>1. PICK pc, answer : Begin(c, "assert", None, pc, None, answer) /\ pc \in {"failed", "done"}
      BY <2>6 DEF PresentAssertion
    <3>2. Starts(c) /\ "assert" \in Ops /\ Fits("assert") /\ UNCHANGED <<clients, document>>
      BY <2>6 DEF PresentAssertion, Ops, Fits, unproved
    <3>3. Others(c) /\ call'[c].op = "assert"
      BY <2>1, <3>1, <3>2, Enters DEF Opened
    <3>. QED BY <2>5, <3>2, <3>3 DEF Storing
  <2>7. ASSUME NEW c \in Calls, Prove(c) PROVE Clientele'
    <3>1. PICK given, pc, seen : Begin(c, "prove", given, pc, seen, None) /\ pc \in {"failed", "nonce"}
      BY <2>7 DEF Prove
    <3>2. Starts(c) /\ "prove" \in Ops /\ Fits("prove") /\ UNCHANGED <<clients, document>>
      BY <2>7 DEF Prove, Ops, Fits, unproved
    <3>3. Others(c) /\ call'[c].op = "prove"
      BY <2>1, <3>1, <3>2, Enters DEF Opened
    <3>. QED BY <2>5, <3>2, <3>3 DEF Storing
  <2>8. ASSUME NEW c \in Calls, CheckNonce(c) PROVE Clientele'
    <3>1. Kept(c) /\ call[c].op = "prove" /\ UNCHANGED <<clients, document>>
      BY <2>1, <2>8, InIsInFlight, Throws, Answers DEF CheckNonce, In, unproved
    <3>. QED BY <2>5, <3>1 DEF Storing, Kept
  <2>9. ASSUME NEW c \in Calls, TokenSteps(c) PROVE Clientele'
    <3>1. Moves(c) /\ call'[c].op \in TokenOps /\ UNCHANGED <<clients, document>>
      BY <2>1, <2>9, TokenMoves, TokensKeep DEF unused
    <3>2. Others(c)
      BY <2>1, <3>1, Frozen
    <3>. QED BY <2>5, <3>1, <3>2 DEF Storing, TokenOps
  <2>10. ASSUME NEW c \in Calls, LogoutSteps(c) PROVE Clientele'
    <3>1. Moves(c) /\ call'[c].op \in LogoutOps /\ UNCHANGED <<clients, document>>
      BY <2>1, <2>10, LogoutMoves, LogoutKeeps DEF ended
    <3>2. Others(c)
      BY <2>1, <3>1, Frozen
    <3>. QED BY <2>5, <3>1, <3>2 DEF Storing, LogoutOps
  <2>11. ASSUME NEW c \in Calls, Crash(c) PROVE Clientele'
    <3>1. Kept(c) /\ call'[c].pc = "dead" /\ UNCHANGED <<clients, document>>
      <4>1. InFlight(c) /\ call' = [call EXCEPT ![c].pc = "dead"] /\ "dead" \in {"failed", "dead"}
        BY <2>11 DEF Crash
      <4>. QED BY <2>1, <2>11, <4>1, Stops DEF Crash, stores
    <3>. QED BY <2>5, <3>1 DEF Storing, Kept
  <2>. QED BY <1>3, <2>2, <2>3, <2>4, <2>6, <2>7, <2>8, <2>9, <2>10, <2>11, Scenes
<1>. QED BY <1>2, <1>3
-----------------------------------------------------------------------------
(* What is registered is what discovery advertises, and can be served. *)

\* What a registration answered is what its metadata deserved, and what it stores is made of it.
PostedOf(c) ==
  LET body == call[c].given.body
      decision == call[c].given.decision IN
  /\ body \in Bodies[scenario]
  /\ call[c].answer # "refused" <=> Registrable(c, body, decision)
  /\ call[c].pc = "store" => call[c].seen.id = c /\ call[c].seen.record = MetadataFrom(c, body, decision)
Posted ==
  /\ DOMAIN clients = ClientIds
  /\ \A c \in Calls : call[c].op = "post" => PostedOf(c)
  /\ \A c \in Calls : clients[c] # None =>
       /\ call[c].op = "post" /\ call[c].answer # "refused"
       /\ clients[c] = MetadataFrom(c, call[c].given.body, call[c].given.decision)

\* What a registration is measured by does not change.
LEMMA Measured ==
  ASSUME UNCHANGED setup
  PROVE  /\ \A c, body, decision : MetadataFrom(c, body, decision)' = MetadataFrom(c, body, decision)
         /\ \A c, body, decision : Registrable(c, body, decision)' = Registrable(c, body, decision)
<1>1. \A c, body, decision : MetadataFrom(c, body, decision)' = MetadataFrom(c, body, decision)
  BY DEF MetadataFrom, Operated
<1>2. config' = config /\ keys' = keys
  BY DEF setup
<1>. QED BY <1>1, <1>2 DEF Registrable, GrantsFrom, SubjectTypeFrom, Signable, Sector

\* At first nothing is registered but the operator's.
LEMMA PostedInit == Init /\ scenario = "setup" => Posted
<1>. SUFFICES ASSUME Init PROVE Posted
  OBVIOUS
<1>1. \A c \in Calls : call[c] = Idle /\ clients[c] = None
  BY NamesAssumption DEF Init, ClientIds
<1>2. Idle.op # "post"
  BY NamesAssumption DEF Idle, Ops
<1>3. DOMAIN clients = ClientIds
  BY DEF Init
<1>. QED BY <1>1, <1>2, <1>3 DEF Posted

\* What is not touched stays as registered.
LEMMA PostedStays ==
  ASSUME Posted, UNCHANGED <<setup, clients, call>>
  PROVE  Posted'
BY Measured DEF Posted, PostedOf, setup

\* A registration is answered, and stored as it was answered.
LEMMA PostedNext ==
  ASSUME Common, Posted, scenario = "setup", UNCHANGED setup, NEW c \in Calls, Registers(c)
  PROVE  Posted'
<1>0. Requested /\ scenario' = scenario /\ None # "refused" /\ "stored" # "refused"
  BY NamesAssumption DEF Common, setup, Outcomes
<1>1. CASE Post(c)
  <2>1. PICK body \in Bodies[scenario], decision \in Decisions :
          /\ IF Registrable(c, body, decision)
             THEN Begin(c, "post", [body |-> body, decision |-> decision], "store",
                        [id |-> c, found |-> None, record |-> MetadataFrom(c, body, decision)], None)
             ELSE Begin(c, "post", [body |-> body, decision |-> decision], "done", None, "refused")
          /\ Keep
    BY <1>1 DEF Post
  <2>2. Starts(c) /\ "post" \in Ops /\ Fits("post") /\ UNCHANGED clients
    BY <1>1, <2>1 DEF Post, Ops, Fits, Keep, stores
  <2>3. /\ Opened(c) /\ call'[c].given = [body |-> body, decision |-> decision] /\ call'[c].op = "post"
        /\ \/ /\ Registrable(c, body, decision) /\ call'[c].pc = "store" /\ call'[c].answer = None
              /\ call'[c].seen = [id |-> c, found |-> None, record |-> MetadataFrom(c, body, decision)]
           \/ ~Registrable(c, body, decision) /\ call'[c].pc = "done" /\ call'[c].answer = "refused"
    <3>1. CASE Registrable(c, body, decision)
      BY <2>1, <2>2, <3>1, Enters
    <3>2. CASE ~Registrable(c, body, decision)
      BY <2>1, <2>2, <3>2, Enters
    <3>. QED BY <3>1, <3>2
  <2>4. PostedOf(c)'
    BY <1>0, <2>3, Measured DEF PostedOf
  <2>5. ASSUME NEW d \in Calls, d # c, call[d].op = "post" PROVE PostedOf(d)'
    <3>1. PostedOf(d) /\ call'[d] = call[d]
      BY <2>3, <2>5 DEF Posted, Opened, Others
    <3>. QED BY <1>0, <3>1, Measured DEF PostedOf
  <2>6. clients[c] = None
    <3>1. call[c].op # "post"
      BY <2>3, NamesAssumption DEF Opened, Idle, Ops
    <3>. QED BY <3>1 DEF Posted
  <2>. QED BY <2>2, <2>3, <2>4, <2>5, <2>6, Measured DEF Posted, Opened, Others
<1>2. CASE In(c, "post", "store") /\ Written(c)
  <2>1. /\ clients' = [clients EXCEPT ![c] = call[c].seen.record] /\ PostedOf(c) /\ call[c].op = "post"
        /\ call[c].pc = "store"
    BY <1>2 DEF Written, Store, Posted, In, PostedOf
  <2>2. InFlight(c) /\ Kept(c) /\ call'[c].given = call[c].given /\ call'[c].answer = "stored" /\ call'[c].pc = "done"
    BY <1>0, <1>2, InIsInFlight, Leaves DEF Written
  <2>3. call[c].answer = None
    BY <1>0, <2>2 DEF Requested, InFlight
  <2>4. PostedOf(c)'
    BY <1>0, <2>1, <2>2, <2>3, Measured DEF PostedOf
  <2>5. ASSUME NEW d \in Calls, d # c, call[d].op = "post" PROVE PostedOf(d)'
    <3>1. PostedOf(d) /\ call'[d] = call[d]
      BY <2>2, <2>5 DEF Posted, Kept, Others
    <3>. QED BY <1>0, <3>1, Measured DEF PostedOf
  <2>6. DOMAIN clients = ClientIds /\ c \in ClientIds
    BY DEF Posted, ClientIds
  <2>7. clients'[c] = MetadataFrom(c, call[c].given.body, call[c].given.decision) /\ call'[c].op = "post"
    BY <2>1, <2>2, <2>6 DEF PostedOf, Kept
  <2>8. DOMAIN clients' = ClientIds /\ \A d \in Calls \ {c} : clients'[d] = clients[d] /\ call'[d] = call[d]
    BY <2>1, <2>2, <2>6 DEF Kept, Others
  <2>. QED BY <1>0, <2>2, <2>4, <2>5, <2>7, <2>8, Measured DEF Posted
<1>. QED BY <1>1, <1>2 DEF Registers

\* A well-formed registration is accepted exactly if it is advertised.
LEMMA AcceptedIsAdvertised ==
  ASSUME Common, scenario = "setup", NEW c \in Calls, NEW body \in Bodies[scenario], WellFormed(body)
  PROVE  Registrable(c, body, "none") <=> Advertised(body)
<1>. DEFINE client == MetadataFrom(c, body, "none")
<1>1. /\ client.method = body.method /\ client.redirectUri = "https" /\ client.profile = None
      /\ client.alg = body.alg
  BY Registration DEF WellFormed
<1>. HIDE DEF client
<1>2. BrowserUri(body.redirectUri, body.native) /\ Sector(body) /\ CibaMetadataFrom(body)
  BY DEF WellFormed, BrowserUri, Sector, CibaMetadataFrom
<1>3. GrantsFrom(body) <=> body.grantTypes \subseteq SupportedGrantTypes(config)
  BY DEF WellFormed, GrantsFrom
<1>4. SubjectTypeFrom(body) <=>
        (body.subjectType # None => body.subjectType \in (IF config.pairwiseSalt THEN {"public", "pairwise"} ELSE {"public"}))
  <2>1. client.subjectType = body.subjectType
    BY Registration DEF client
  <2>2. client \in Client
    BY RegisteredClient DEF Common, ClientIds, client
  <2>3. body.subjectType \in {None, "public", "pairwise"}
    BY <2>1, <2>2 DEF Client
  <2>. QED BY <2>3, NamesAssumption DEF SubjectTypeFrom
<1>5. FapiClient(config, client) <=>
        (config.profile = "fapi2" => body.method \in FapiMethods /\ body.alg \in FapiAlgs)
  BY <1>1, NamesAssumption DEF FapiClient, UnderFapi, WellFormed
<1>6. body.method \in config.clientAuthMethods => config.clientCertificate \/ body.method \notin MtlsMethods
  BY DEF Common, ResolveConfig
<1>7. Registrable(c, body, "none") <=>
        /\ body.method \in config.clientAuthMethods /\ body.grantTypes \subseteq SupportedGrantTypes(config)
        /\ SubjectTypeFrom(body) /\ body.alg \in ToSet(keys) /\ FapiClient(config, client)
  BY <1>1, <1>2, <1>3 DEF Registrable, Signable, SigningAlgorithms, client
<1>8. Advertised(body) <=>
        /\ body.method \in config.clientAuthMethods
        /\ config.clientCertificate \/ body.method \notin MtlsMethods
        /\ config.profile = "fapi2" => body.method \in FapiMethods
        /\ body.grantTypes \subseteq SupportedGrantTypes(config)
        /\ body.alg \in ToSet(keys) /\ (config.profile = "fapi2" => body.alg \in FapiAlgs)
        /\ body.subjectType # None => body.subjectType \in (IF config.pairwiseSalt THEN {"public", "pairwise"} ELSE {"public"})
  BY DEF Advertised, Metadata, SigningAlgorithms
<1>. QED BY <1>4, <1>5, <1>6, <1>7, <1>8

\* A registration that was accepted can be served.
LEMMA AcceptedIsServed ==
  ASSUME Common, scenario = "setup", NEW c \in Calls, NEW body \in Bodies[scenario], NEW decision,
         Registrable(c, body, decision), NEW client, client = MetadataFrom(c, body, decision), client # None
  PROVE  Serves(client) \/ Excused(client)
<1>1. /\ client.method = body.method /\ client.host = body.host /\ client.sector = (body.sector # None)
      /\ client.subjectType = body.subjectType /\ client.keys = body.keys
      /\ client.alg = (IF body.alg = None THEN "RS256" ELSE body.alg)
      /\ client.secret = (IF body.method = "none" THEN None ELSE c)
  BY Registration
<1>2. /\ body.method \in config.clientAuthMethods /\ SubjectTypeFrom(body) /\ Sector(body)
      /\ Signable(client.alg) /\ FapiClient(config, client)
  BY DEF Registrable
<1>3. /\ body.method \in Methods /\ body.host \in Hosts /\ body.subjectType \in {None, "public", "pairwise"}
      /\ c # None /\ "RS256" # None /\ None \notin {"public", "pairwise"} /\ Unresolved \notin Subjects
  <2>1. client \in Client
    BY RegisteredClient DEF Common, ClientIds
  <2>. QED BY <1>1, <2>1, NamesAssumption DEF Client, ClientIds
<1>4. SubjectFor(client, Account) # Unresolved \/ Excused(client)
  <2>1. Account \in Subjects /\ <<"declared", Account>> \in Subjects /\ <<"one", Account>> \in Subjects
    BY DEF Subjects
  <2>2. config.subjectType = "pairwise" => config.pairwiseSalt
    BY DEF Common, ResolveConfig
  <2>. QED BY <1>1, <1>2, <1>3, <2>1, <2>2
          DEF SubjectFor, Excused, SubjectTypeFrom, Sector, HasSector, SectorOf, Hosts
<1>5. CanSign(keys, IdTokenAlg(client))
  BY <1>1, <1>2, <1>3 DEF CanSign, IdTokenAlg, Signable, SigningAlgorithms
<1>6. AuthenticateClient(client, CredentialsOf(client)) \/ Excused(client)
  <2>1. CASE body.method = "none"
    BY <1>1, <1>2, <2>1 DEF AuthenticateClient, CredentialsOf, MtlsMethods
  <2>2. CASE body.method = "client_secret_basic"
    BY <1>1, <1>2, <1>3, <2>2 DEF AuthenticateClient, CredentialsOf, MtlsMethods
  <2>3. CASE body.method = "client_secret_post"
    BY <1>1, <1>2, <1>3, <2>3 DEF AuthenticateClient, CredentialsOf, MtlsMethods
  <2>4. CASE body.method \in {"client_secret_jwt", "private_key_jwt"}
    BY <1>1, <1>2, <1>3, <2>4 DEF AuthenticateClient, CredentialsOf, MtlsMethods, KeysFor, Excused
  <2>5. CASE body.method \in MtlsMethods
    BY <1>1, <1>2, <1>3, <2>5 DEF AuthenticateClient, CredentialsOf, MtlsMethods, Matches, Excused
  <2>. QED BY <1>3, <2>1, <2>2, <2>3, <2>4, <2>5 DEF Methods, MtlsMethods
<1>. QED BY <1>4, <1>5, <1>6 DEF Serves

\* What was accepted is advertised, and served.
LEMMA PostedHolds == Common /\ (scenario = "setup" => Posted) => ServableAsAdvertised
<1>. SUFFICES ASSUME Common, scenario = "setup" => Posted PROVE ServableAsAdvertised
  OBVIOUS
<1>1. ASSUME NEW c \in Calls, call[c].op = "post", scenario = "setup", WellFormed(call[c].given.body),
             call[c].given.decision = "none"
      PROVE  (call[c].answer # "refused") = Advertised(call[c].given.body)
  <2>1. call[c].answer # "refused" <=> Advertised(call[c].given.body)
    BY <1>1, AcceptedIsAdvertised DEF Posted, PostedOf
  <2>2. Advertised(call[c].given.body) \in BOOLEAN
    BY DEF Advertised
  <2>. QED BY <2>1, <2>2
<1>2. ASSUME NEW c \in Calls, scenario = "setup", clients[c] # None
      PROVE  Serves(clients[c]) \/ Excused(clients[c])
  BY <1>2, AcceptedIsServed DEF Posted, PostedOf
<1>. QED BY <1>1, <1>2 DEF ServableAsAdvertised, DiscoveryMeansIt, RegisteredIsServed

-----------------------------------------------------------------------------
(* Sessions end because someone asked. *)

LogoutUris == {"logoutUris"}

\* A request that is about to end a session, or has, was asked to, for one that there is.
Ending(c) ==
  call[c].op \in {"end", "manage"}
    /\ (call[c].pc \in {"accept", "ask", "tell", "destroy", "deliver"} \/ c \in past.destroyed)
AskedFor(c) ==
  \/ call[c].op = "manage"
  \/ call[c].given.hint # None /\ call[c].given.hint.ours
  \/ Confirmed(c)
EndingOf(c) ==
  /\ call[c].given.session \in Sessions
  /\ call[c].pc # "ask" => AskedFor(c)
  /\ c \in past.destroyed =>
       call[c].pc \notin {"accept", "ask", "tell", "destroy"} /\ sessions[call[c].given.session] = None
EndingsStand ==
  /\ \A c \in past.destroyed : c \in Calls /\ call[c].op \in {"end", "manage"}
  /\ \A c \in Calls : Ending(c) => EndingOf(c)

\* An interaction the person has answered is one of a request that confirmed it.
Standing(i) ==
  /\ interactions[i] \in [session : Sessions, consumed : BOOLEAN]
  /\ i \in Calls => Ended(i)
  /\ interactions[i].consumed =>
       \E k \in Calls : Done(k, "confirm") /\ call[k].given = i /\ call[k].answer = interactions[i].session
InteractionsStand ==
  /\ DOMAIN interactions = Interactions
  /\ \A i \in Interactions : interactions[i] # None => Standing(i)

\* A confirmation accepted is gone for good; one that a request has found was accepted by none
\* that was over when it began.
Unaccepted(d, i) ==
  i \in Interactions /\ (i \in Calls => Ended(i)) /\ \A c \in call[d].after : past.accepted[c] # i
AcceptedStand ==
  /\ DOMAIN past.accepted = Calls
  /\ \A d \in Calls : In(d, "end", "accept") => Unaccepted(d, call[d].given.confirmation)
  /\ \A d \in Calls : past.accepted[d] # None =>
       call[d].op = "end" /\ Unaccepted(d, past.accepted[d]) /\ interactions[past.accepted[d]] = None

\* A session there is has on its list whoever is signed in under it.
ListsStand ==
  /\ DOMAIN sessions = Sessions
  /\ \A s \in Sessions : sessions[s] # None => App \in sessions[s] /\ sessions[s] \subseteq {App, Api}
  /\ \A j \in Calls : call[j].op = "redeem" =>
       /\ call[j].given.session \in Sessions /\ call[j].given.client \in {App, Api}
       /\ call[j].answer = "issued" =>
            sessions[call[j].given.session] = None \/ call[j].given.client \in sessions[call[j].given.session]

\* Whoever was signed in when a request began is on the list it read, and in what it will tell.
Listed(c) ==
  /\ call[c].op \in {"end", "manage"} /\ call[c].pc \in {"accept", "ask", "tell"} => SignedIn(c) \subseteq call[c].seen
  /\ call[c].op \in {"end", "manage"} /\ call[c].pc \in {"destroy", "deliver"} =>
       \A id \in SignedIn(c) : Left(id, LogoutUris) =>
         /\ "back" \in Channels(c) \cap clients[id].logoutUris => id \in call[c].seen.back
         /\ "front" \in Channels(c) \cap clients[id].logoutUris => id \in call[c].seen.front
Told(c) == c \in past.destroyed /\ call[c].answer = "signed out" =>
  \A id \in SignedIn(c) : Left(id, LogoutUris) =>
    \A channel \in Channels(c) \cap clients[id].logoutUris : <<id, channel>> \in past.notified
ToldStand == \A c \in Calls : Listed(c) /\ Told(c)

\* An update that leaves a client's logout URIs alone is about to store what they are.
RevisedStand == \A u \in Calls :
  In(u, "update", "upsert") /\ call[u].seen.id \in {App, Api} /\ Left(call[u].seen.id, LogoutUris)
  => call[u].seen.record.logoutUris = clients[call[u].seen.id].logoutUris

Logout == EndingsStand /\ InteractionsStand /\ AcceptedStand /\ ListsStand /\ ToldStand /\ RevisedStand

\* At first nobody asked.
LEMMA LogoutInit == Init /\ scenario = "logout" => Logout
<1>. SUFFICES ASSUME Init, scenario = "logout" PROVE Logout
  OBVIOUS
<1>1. /\ \A c \in Calls : call[c] = Idle
      /\ past.destroyed = {} /\ past.accepted = [c \in Calls |-> None] /\ sessions = [s \in Sessions |-> {App}]
      /\ interactions = [i \in Interactions |->
           IF i = Before THEN [session |-> AskedAbout, consumed |-> FALSE] ELSE None]
  BY DEF Init
<1>2. None \notin {"end", "manage", "redeem", "update"}
  BY NamesAssumption DEF Ops
<1>3. AskedAbout \in Sessions
  BY NamesAssumption DEF AskedAbout
<1>4. EndingsStand
  BY <1>1, <1>2 DEF EndingsStand, Ending, Idle
<1>5. InteractionsStand
  BY <1>1, <1>3, NamesAssumption DEF InteractionsStand, Standing
<1>6. AcceptedStand
  BY <1>1, <1>2 DEF AcceptedStand, In, Idle
<1>7. ListsStand
  BY <1>1, <1>2 DEF ListsStand, Idle
<1>8. ToldStand
  BY <1>1, <1>2 DEF ToldStand, Listed, Told, Idle
<1>9. RevisedStand
  BY <1>1, <1>2 DEF RevisedStand, In, Idle
<1>. QED BY <1>4, <1>5, <1>6, <1>7, <1>8, <1>9 DEF Logout

\* The parts give SessionsEnd.
LEMMA LogoutHolds == Common /\ Logout => SessionsEnd
<1>. SUFFICES ASSUME Common, Logout PROVE SessionsEnd
  OBVIOUS
<1>1. EndedWasAsked /\ EndedStays
  BY DEF Logout, EndingsStand, Ending, EndingOf, AskedFor, EndedWasAsked, EndedStays
<1>2. ConfirmedNotLater
  BY DEF Logout, AcceptedStand, Unaccepted, ConfirmedNotLater
<1>3. EveryoneTold
  BY DEF Logout, EndingsStand, ToldStand, Told, EveryoneTold, LogoutUris
<1>. QED BY <1>1, <1>2, <1>3 DEF SessionsEnd

\* What a request knows of others does not change but by its own step.
LEMMA KnownStays ==
  ASSUME Common, UNCHANGED setup, NEW c, Moves(c), NEW d \in Calls, call[d].pc # "idle",
         d # c \/ UNCHANGED <<call[d].op, call[d].given, call[d].after>>
  PROVE  Confirmed(d)' = Confirmed(d) /\ SignedIn(d)' = SignedIn(d) /\ Channels(d)' = Channels(d)
<1>1. /\ call'[d].op = call[d].op /\ call'[d].given = call[d].given /\ call'[d].after = call[d].after
  BY Frozen DEF Common, Others
<1>2. \A k \in call[d].after : call'[k] = call[k]
  BY Frozen, CallNumbers DEF Common, Requested
<1>3. Confirmed(d)' = Confirmed(d)
  BY <1>1, <1>2 DEF Confirmed
<1>4. SignedIn(d)' = SignedIn(d)
  BY <1>1, <1>2 DEF SignedIn
<1>. QED BY <1>1, <1>3, <1>4 DEF Channels, setup

\* An update goes on saying what it says.
LEMMA LeftBefore ==
  ASSUME \A u \in Calls : call[u].op = "update" =>
           call'[u].op = "update" /\ call'[u].given = call[u].given /\ call'[u].seen.id = call[u].seen.id,
         NEW id, NEW fields, Left(id, fields)'
  PROVE  Left(id, fields)
BY DEF Left

\* What stays of the requests that are about to end a session.
LEMMA EndingsKept ==
  ASSUME Common, EndingsStand, UNCHANGED setup, NEW c \in Calls, Moves(c),
         \A s \in Sessions : sessions[s] = None => sessions'[s] = None,
         past.destroyed \subseteq past'.destroyed, past'.destroyed \subseteq past.destroyed \cup {c},
         c \in past'.destroyed => call'[c].op \in {"end", "manage"},
         Ending(c)' => EndingOf(c)'
  PROVE  EndingsStand'
<1>1. Requested /\ Others(c)
  BY Frozen DEF Common
<1>2. \A d \in past'.destroyed : d \in Calls /\ call'[d].op \in {"end", "manage"}
  BY <1>1 DEF EndingsStand, Others
<1>3. ASSUME NEW d \in Calls, d # c, Ending(d)' PROVE EndingOf(d)'
  <2>1. call'[d] = call[d]
    BY <1>1, <1>3 DEF Others
  <2>2. Ending(d)
    BY <1>3, <2>1 DEF Ending
  <2>3. EndingOf(d) /\ (d \in past'.destroyed => d \in past.destroyed)
    BY <1>3, <2>2 DEF EndingsStand
  <2>4. call[d].pc # "idle"
    BY <1>1, <2>2, NamesAssumption DEF Ending, Requested, Idle, Ops
  <2>5. Confirmed(d)' = Confirmed(d)
    BY <1>3, <2>4, KnownStays
  <2>. QED BY <2>1, <2>3, <2>5 DEF EndingOf, AskedFor
<1>. QED BY <1>2, <1>3 DEF EndingsStand

\* Of interactions.
LEMMA InteractionsKept ==
  ASSUME Common, InteractionsStand, NEW c \in Calls, Moves(c), DOMAIN interactions' = Interactions,
         \A i \in Interactions : interactions'[i] \in {interactions[i], None} \/ Standing(i)'
  PROVE  InteractionsStand'
<1>. SUFFICES ASSUME NEW i \in Interactions, interactions'[i] = interactions[i], interactions[i] # None PROVE Standing(i)'
  BY DEF InteractionsStand
<1>1. Standing(i)
  BY DEF InteractionsStand
<1>2. \A k \in Calls : Ended(k) => call'[k] = call[k] /\ Ended(k)'
  BY Frozen DEF Common
<1>3. \A k \in Calls : Done(k, "confirm") => Done(k, "confirm")' /\ call'[k] = call[k]
  BY <1>2 DEF Done, In, Ended
<1>. QED BY <1>1, <1>2, <1>3 DEF Standing

\* Of what was accepted.
LEMMA AcceptedKept ==
  ASSUME Common, AcceptedStand, NEW c \in Calls, Moves(c), UNCHANGED past.accepted,
         \A i \in Interactions : interactions[i] = None /\ interactions'[i] # None => i \in Calls /\ ~Ended(i),
         In(c, "end", "accept")' => Unaccepted(c, call[c].given.confirmation)'
  PROVE  AcceptedStand'
<1>1. /\ \A k \in Calls : Ended(k) => call'[k] = call[k] /\ Ended(k)'
      /\ Others(c)
      /\ \A d \in Calls : call[d].pc # "idle" => call'[d].after = call[d].after /\ call'[d].op = call[d].op
      /\ \A d \in Calls : call[d].op = "end" => call[d].pc # "idle"
  BY Frozen, NamesAssumption DEF Common, Requested, Idle, Ops
<1>2. \A d \in Calls, i \in Interactions :
        call[d].pc # "idle" /\ Unaccepted(d, i) => Unaccepted(d, i)'
  BY <1>1 DEF Unaccepted
<1>3. ASSUME NEW d \in Calls, In(d, "end", "accept")' PROVE Unaccepted(d, call[d].given.confirmation)'
  <2>1. CASE d = c
    BY <1>3, <2>1
  <2>2. CASE d # c
    <3>1. call'[d] = call[d] /\ In(d, "end", "accept") /\ call[d].pc # "idle"
      BY <1>1, <1>3, <2>2 DEF In, Others
    <3>2. PICK i \in Interactions : i = call[d].given.confirmation /\ Unaccepted(d, i)
      BY <3>1 DEF AcceptedStand, Unaccepted
    <3>3. Unaccepted(d, i)'
      BY <1>2, <3>1, <3>2
    <3>. QED BY <3>1, <3>2, <3>3 DEF Unaccepted
  <2>. QED BY <2>1, <2>2
<1>4. ASSUME NEW d \in Calls, past'.accepted[d] # None
      PROVE  call'[d].op = "end" /\ Unaccepted(d, past.accepted[d])' /\ interactions'[past'.accepted[d]] = None
  <2>1. PICK i \in Interactions : i = past.accepted[d] /\ Unaccepted(d, i) /\ interactions[i] = None
    BY <1>4 DEF AcceptedStand, Unaccepted
  <2>2. call[d].pc # "idle" /\ call'[d].op = "end"
    BY <1>1, <1>4 DEF AcceptedStand
  <2>3. interactions'[i] = None
    BY <2>1 DEF Unaccepted
  <2>4. Unaccepted(d, i)'
    BY <1>2, <2>1, <2>2
  <2>. QED BY <2>1, <2>2, <2>3, <2>4 DEF Unaccepted
<1>5. DOMAIN past'.accepted = Calls
  BY DEF AcceptedStand
<1>. QED BY <1>3, <1>4, <1>5 DEF AcceptedStand

\* Of the sessions' lists, when requests to redeem stay what they are.
LEMMA ListsKept ==
  ASSUME Common, ListsStand, NEW c \in Calls, Moves(c), DOMAIN sessions' = Sessions,
         \A s \in Sessions : sessions'[s] \in {None, sessions[s]},
         call'[c].op # "redeem"
  PROVE  ListsStand'
<1>1. Others(c)
  BY Frozen DEF Common
<1>2. \A j \in Calls : call'[j].op = "redeem" => call'[j] = call[j]
  BY <1>1 DEF Others
<1>. QED BY <1>2 DEF ListsStand

\* Of what is told.
LEMMA ToldKept ==
  ASSUME Common, ListsStand, ToldStand, UNCHANGED setup, NEW c \in Calls, Moves(c),
         \A id \in {App, Api} : Left(id, LogoutUris)' => Left(id, LogoutUris) /\ clients'[id].logoutUris = clients[id].logoutUris,
         past.notified \subseteq past'.notified, past'.destroyed \subseteq past.destroyed \cup {c},
         Listed(c)', Told(c)'
  PROVE  ToldStand'
<1>. SUFFICES ASSUME NEW d \in Calls, d # c PROVE Listed(d)' /\ Told(d)'
  BY DEF ToldStand
<1>1. call'[d] = call[d]
  BY Frozen DEF Common, Others
<1>2. CASE call[d].pc # "idle"
  <2>1. SignedIn(d)' = SignedIn(d) /\ Channels(d)' = Channels(d)
    BY <1>2, KnownStays
  <2>2. SignedIn(d) \subseteq {App, Api}
    <3>1. call[d].after \subseteq Calls
      BY CallNumbers DEF Common, Requested
    <3>. QED BY <3>1 DEF SignedIn, ListsStand
  <2>3. Listed(d) /\ Told(d)
    BY DEF ToldStand
  <2>4. Listed(d)'
    BY <1>1, <2>1, <2>2, <2>3 DEF Listed
  <2>5. Told(d)'
    <3>. SUFFICES ASSUME d \in past'.destroyed, call[d].answer = "signed out",
                         NEW id \in SignedIn(d), Left(id, LogoutUris)',
                         NEW channel \in Channels(d) \cap clients'[id].logoutUris
                  PROVE  <<id, channel>> \in past'.notified
      BY <1>1, <2>1 DEF Told
    <3>1. d \in past.destroyed
      OBVIOUS
    <3>2. Left(id, LogoutUris) /\ clients'[id].logoutUris = clients[id].logoutUris
      BY <2>2
    <3>3. <<id, channel>> \in past.notified
      BY <2>3, <3>1, <3>2 DEF Told
    <3>. QED BY <3>3
  <2>. QED BY <2>4, <2>5
<1>3. CASE call[d].pc = "idle"
  <2>1. call'[d] = Idle /\ Idle.op = None /\ Idle.answer = None
    BY <1>1, <1>3 DEF Common, Requested, Idle
  <2>2. None \notin {"end", "manage", "signed out"}
    BY NamesAssumption DEF Ops, Outcomes
  <2>. QED BY <2>1, <2>2 DEF Listed, Told
<1>. QED BY <1>2, <1>3

\* A step that changes no client leaves its URIs alone.
LEMMA UrisKept ==
  ASSUME Common, NEW c \in Calls, Moves(c), UNCHANGED clients, call'[c].op # "update"
  PROVE  \A id : Left(id, LogoutUris)' => Left(id, LogoutUris) /\ clients'[id].logoutUris = clients[id].logoutUris
<1>1. \A u \in Calls : call[u].op = "update" =>
        call'[u].op = "update" /\ call'[u].given = call[u].given /\ call'[u].seen.id = call[u].seen.id
  <2>1. Others(c) /\ \A d \in Calls : call[d].pc # "idle" => call'[d].op = call[d].op
    BY Frozen DEF Common
  <2>2. \A d \in Calls : call[d].op = "update" => call[d].pc # "idle"
    BY NamesAssumption DEF Common, Requested, Idle, Ops
  <2>. QED BY <2>1, <2>2 DEF Others
<1>. QED BY <1>1, LeftBefore

\* Of what an update is about to store.
LEMMA RevisedKept ==
  ASSUME Common, RevisedStand, NEW c \in Calls, Moves(c), UNCHANGED clients, call'[c].op # "update"
  PROVE  RevisedStand'
<1>1. Others(c)
  BY Frozen DEF Common
<1>2. \A id : Left(id, LogoutUris)' => Left(id, LogoutUris)
  BY UrisKept
<1>. QED BY <1>1, <1>2 DEF RevisedStand, In, Others

\* A request that had not begun ended nothing.
LEMMA NotYet ==
  ASSUME Common, EndingsStand, NEW c \in Calls, call[c] = Idle \/ call[c].op \notin {"end", "manage"}
  PROVE  c \notin past.destroyed
BY NamesAssumption DEF EndingsStand, Idle, Ops

\* A request to end a session begins: it reads the session and what was confirmed.
LEMMA EndSessionNext ==
  ASSUME Common, Clientele, Logout, UNCHANGED <<setup, now>>, NEW c \in Calls, EndSession(c)
  PROVE  Logout'
<1>. USE DEF Logout
<1>1. PICK cookie \in Sessions \cup {None}, hint \in Hints, i \in Interactions \cup {None} :
        (i # None => interactions[i] # None) /\ VerifyHint(hint) /\ Ask(c, cookie, hint, i)
  BY DEF EndSession
<1>2. Moves(c) /\ Starts(c) /\ "end" \in Ops /\ Fits("end") /\ UNCHANGED <<stores, past>>
  BY LogoutMoves DEF EndSession, Ops, Fits, Keep, LogoutSteps
<1>3. PICK session \in Sessions \cup {None} :
        /\ session = IF cookie # None /\ sessions[cookie] # None THEN cookie ELSE None
        /\ session # None => sessions[session] # None
  BY <1>1
<1>. DEFINE given == [session |-> session, hint |-> hint, confirmation |-> i]
<1>4. /\ Opened(c) /\ call'[c].op = "end" /\ call'[c].given = given
      /\ \/ /\ call'[c].pc = "accept" /\ call'[c].seen = sessions[session] /\ i # None /\ Confirms(i, session)
            /\ call'[c].answer = None
         \/ call'[c].pc = "done" /\ session = None
         \/ /\ call'[c].pc = "ask" /\ call'[c].seen = sessions[session] /\ session # None
            /\ call'[c].answer = None
         \/ /\ call'[c].pc = "tell" /\ call'[c].seen = sessions[session] /\ session # None /\ hint # None
            /\ call'[c].answer = None
  <2>1. CASE i # None
    <3>1. Confirms(i, session) /\ session # None /\ Begin(c, "end", given, "accept", sessions[session], None)
      BY <1>1, <1>3, <2>1 DEF Ask, Confirms
    <3>. QED BY <1>2, <2>1, <3>1, Enters
  <2>2. CASE i = None /\ session = None
    <3>1. Begin(c, "end", given, "done", None, "signed out")
      BY <1>1, <1>3, <2>2 DEF Ask
    <3>. QED BY <1>2, <2>2, <3>1, Enters
  <2>3. CASE i = None /\ session # None /\ hint = None
    <3>1. Begin(c, "end", given, "ask", sessions[session], None)
      BY <1>1, <1>3, <2>3 DEF Ask
    <3>. QED BY <1>2, <2>3, <3>1, Enters
  <2>4. CASE i = None /\ session # None /\ hint # None
    <3>1. Begin(c, "end", given, "tell", sessions[session], None)
      BY <1>1, <1>3, <2>4 DEF Ask
    <3>. QED BY <1>2, <2>4, <3>1, Enters
  <2>. QED BY <2>1, <2>2, <2>3, <2>4
<1>5. c \notin past'.destroyed /\ UNCHANGED <<sessions, interactions, clients>> /\ call[c] = Idle
  BY <1>2, <1>4, NotYet DEF Opened, stores
<1>6. /\ \A k \in Calls : Ended(k) => call'[k] = call[k] /\ Ended(k)'
      /\ call'[c].after = {k \in Calls : Ended(k)}
  BY <1>2, <1>4, Frozen DEF Opened, Common
<1>7. i # None => Standing(i) /\ i \in Interactions
  BY <1>1 DEF InteractionsStand
<1>8. EndingsStand'
  <2>1. ASSUME Ending(c)' PROVE EndingOf(c)'
    <3>1. session \in Sessions /\ call'[c].given.session = session
      BY <1>4, <1>5, <2>1 DEF Ending, Confirms
    <3>2. CASE call'[c].pc = "accept"
      <4>1. PICK k \in Calls : Done(k, "confirm") /\ call[k].given = i /\ call[k].answer = session
        BY <1>4, <1>7, <3>2 DEF Confirms, Standing
      <4>2. Ended(k)
        BY <4>1 DEF Done, In, Ended
      <4>3. Confirmed(c)'
        BY <1>4, <1>6, <4>1, <4>2 DEF Confirmed, Done, In
      <4>. QED BY <1>5, <3>1, <4>3 DEF EndingOf, AskedFor
    <3>3. CASE call'[c].pc = "tell"
      BY <1>1, <1>4, <1>5, <3>1, <3>3 DEF EndingOf, AskedFor, VerifyHint
    <3>4. CASE call'[c].pc = "ask"
      BY <1>5, <3>1, <3>4 DEF EndingOf
    <3>. QED BY <1>4, <1>5, <2>1, <3>2, <3>3, <3>4 DEF Ending
  <2>. QED BY <1>2, <1>5, <2>1, EndingsKept
<1>9. InteractionsStand'
  BY <1>2, <1>5, InteractionsKept DEF InteractionsStand
<1>10. AcceptedStand'
  <2>1. ASSUME In(c, "end", "accept")' PROVE Unaccepted(c, call[c].given.confirmation)'
    <3>1. i # None /\ call'[c].given.confirmation = i
      BY <1>4, <2>1 DEF In
    <3>2. \A d \in Calls : past.accepted[d] # i
      BY <1>1, <3>1 DEF AcceptedStand
    <3>3. \A d \in call'[c].after : past'.accepted[d] # i
      BY <1>2, <1>6, <3>2
    <3>4. i \in Calls => Ended(i)'
      BY <1>6, <1>7, <3>1 DEF Standing
    <3>. QED BY <1>7, <3>1, <3>3, <3>4 DEF Unaccepted
  <2>. QED BY <1>2, <1>5, <2>1, AcceptedKept
<1>11. ListsStand'
  BY <1>2, <1>4, <1>5, ListsKept DEF ListsStand
<1>12. ToldStand'
  <2>1. Told(c)'
    BY <1>5 DEF Told
  <2>2. Listed(c)'
    <3>1. ASSUME session # None, call'[c].seen = sessions[session] PROVE SignedIn(c)' \subseteq call'[c].seen
      <4>1. App \in sessions[session] /\ session \in Sessions
        BY <1>3, <3>1 DEF ListsStand
      <4>2. ASSUME NEW j \in call'[c].after, call'[j].op = "redeem", call'[j].answer = "issued", call'[j].given.session = session
            PROVE  call'[j].given.client \in sessions[session]
        BY <1>3, <1>6, <3>1, <4>1, <4>2 DEF ListsStand
      <4>3. call'[c].given.session = session
        BY <1>4
      <4>. QED BY <3>1, <4>1, <4>2, <4>3 DEF SignedIn
    <3>. QED BY <1>4, <3>1 DEF Listed, Confirms
  <2>3. \A id : Left(id, LogoutUris)' => Left(id, LogoutUris) /\ clients'[id].logoutUris = clients[id].logoutUris
    BY <1>2, <1>4, <1>5, UrisKept
  <2>. QED BY <1>2, <2>1, <2>2, <2>3, ToldKept
<1>13. RevisedStand'
  BY <1>2, <1>4, <1>5, RevisedKept
<1>. QED BY <1>8, <1>9, <1>10, <1>11, <1>12, <1>13

\* A confirmation is accepted, and gone.
LEMMA AcceptConfirmationNext ==
  ASSUME Common, Clientele, Logout, UNCHANGED <<setup, now>>, NEW c \in Calls, AcceptConfirmation(c)
  PROVE  Logout'
<1>. USE DEF Logout
<1>0. PICK i : i = call[c].given.confirmation
  OBVIOUS
<1>1. /\ In(c, "end", "accept") /\ InFlight(c) /\ ~Ended(c) /\ Requested
      /\ interactions' = [interactions EXCEPT ![i] = None] /\ past' = [past EXCEPT !.accepted[c] = i]
      /\ Go(c, "tell", call[c].seen) /\ UNCHANGED <<sessions, clients>>
  BY <1>0, InIsInFlight DEF AcceptConfirmation, ended, InFlight, Common
<1>2. /\ Moves(c) /\ Kept(c) /\ call'[c].pc = "tell" /\ call'[c].seen = call[c].seen
      /\ call'[c].given = call[c].given /\ call'[c].answer = call[c].answer
  BY <1>1, Goes
<1>3. /\ call[c].op = "end" /\ call[c].pc = "accept" /\ call'[c].op = "end" /\ call'[c].after = call[c].after
  BY <1>1, <1>2 DEF In, Kept
<1>4. /\ past'.destroyed = past.destroyed /\ past'.notified = past.notified
      /\ past'.accepted = [past.accepted EXCEPT ![c] = i]
  BY <1>1 DEF Common, Memory
<1>5. EndingOf(c) /\ c \notin past.destroyed
  BY <1>3 DEF EndingsStand, Ending, EndingOf
<1>6. /\ Confirmed(c)' = Confirmed(c) /\ SignedIn(c)' = SignedIn(c)
  BY <1>2, <1>3, KnownStays
<1>7. /\ \A k \in Calls : Ended(k) => call'[k] = call[k] /\ Ended(k)'
      /\ Others(c)
      /\ \A d \in Calls : call[d].pc # "idle" => call'[d].after = call[d].after
  BY <1>2, Frozen DEF Common
<1>8. EndingsStand'
  <2>1. EndingOf(c)'
    BY <1>2, <1>3, <1>4, <1>5, <1>6 DEF EndingOf, AskedFor
  <2>. QED BY <1>1, <1>2, <1>3, <1>4, <2>1, EndingsKept
<1>9. InteractionsStand'
  <2>1. DOMAIN interactions' = Interactions /\ \A j \in Interactions : interactions'[j] \in {interactions[j], None}
    BY <1>1 DEF InteractionsStand
  <2>. QED BY <1>2, <2>1, InteractionsKept
<1>10. AcceptedStand'
  <2>1. Unaccepted(c, i) /\ i \in Interactions /\ DOMAIN interactions = Interactions /\ DOMAIN past.accepted = Calls
    BY <1>0, <1>1 DEF AcceptedStand, Unaccepted, InteractionsStand
  <2>2. \A d \in Calls : c \notin call[d].after
    BY <1>1 DEF Requested
  <2>3. \A d \in Calls : \A j : Unaccepted(d, j) /\ call[d].pc # "idle" =>
          Unaccepted(d, j)' /\ (interactions[j] = None => interactions'[j] = None)
    <3>1. ASSUME NEW d \in Calls, NEW j, Unaccepted(d, j), call[d].pc # "idle"
          PROVE  Unaccepted(d, j)' /\ (interactions[j] = None => interactions'[j] = None)
      <4>1. \A x \in call[d].after : past'.accepted[x] # j
        <5>1. call[d].after \subseteq Calls \ {c}
          BY <1>1, <2>2, CallNumbers DEF Requested
        <5>. QED BY <1>4, <2>1, <3>1, <5>1 DEF Unaccepted
      <4>2. j \in Interactions /\ (j \in Calls => Ended(j)')
        BY <1>7, <3>1 DEF Unaccepted
      <4>. QED BY <1>1, <1>7, <2>1, <3>1, <4>1, <4>2 DEF Unaccepted
    <3>. QED BY <3>1
  <2>4. DOMAIN past'.accepted = Calls /\ past'.accepted[c] = i /\ \A d \in Calls \ {c} : past'.accepted[d] = past.accepted[d]
    BY <1>4, <2>1
  <2>5. \A d \in Calls : call[d].op = "end" => call[d].pc # "idle"
    BY <1>1, NamesAssumption DEF Requested, Idle, Ops
  <2>6. ASSUME NEW d \in Calls, In(d, "end", "accept")' PROVE Unaccepted(d, call[d].given.confirmation)'
    <3>1. d # c /\ call'[d] = call[d] /\ In(d, "end", "accept")
      BY <1>2, <1>7, <2>6 DEF In, Others
    <3>2. PICK j : j = call[d].given.confirmation /\ Unaccepted(d, j)
      BY <3>1 DEF AcceptedStand
    <3>3. Unaccepted(d, j)'
      BY <2>3, <2>5, <3>1, <3>2 DEF In
    <3>. QED BY <3>1, <3>2, <3>3 DEF Unaccepted
  <2>7. ASSUME NEW d \in Calls, past'.accepted[d] # None
        PROVE  call'[d].op = "end" /\ Unaccepted(d, past.accepted[d])' /\ interactions'[past'.accepted[d]] = None
    <3>1. CASE d = c
      <4>1. Unaccepted(c, i)'
        BY <1>3, <2>1, <2>3
      <4>. QED BY <1>1, <1>3, <2>1, <2>4, <3>1, <4>1 DEF Unaccepted
    <3>2. CASE d # c
      <4>1. PICK j : j = past.accepted[d] /\ Unaccepted(d, j) /\ interactions[j] = None /\ call[d].op = "end"
        BY <2>4, <2>7, <3>2 DEF AcceptedStand
      <4>2. Unaccepted(d, j)' /\ interactions'[j] = None
        BY <2>3, <2>5, <4>1
      <4>3. call'[d].op = "end"
        BY <1>7, <3>2, <4>1 DEF Others
      <4>. QED BY <2>4, <3>2, <4>1, <4>2, <4>3 DEF Unaccepted
    <3>. QED BY <3>1, <3>2
  <2>. QED BY <2>4, <2>6, <2>7 DEF AcceptedStand
<1>11. ListsStand'
  BY <1>1, <1>2, <1>3, ListsKept DEF ListsStand
<1>12. ToldStand'
  <2>1. Told(c)'
    BY <1>4, <1>5 DEF Told
  <2>2. Listed(c)'
    BY <1>2, <1>3, <1>6 DEF Listed, ToldStand
  <2>3. \A id : Left(id, LogoutUris)' => Left(id, LogoutUris) /\ clients'[id].logoutUris = clients[id].logoutUris
    BY <1>1, <1>2, <1>3, UrisKept
  <2>. QED BY <1>2, <1>4, <2>1, <2>2, <2>3, ToldKept
<1>13. RevisedStand'
  BY <1>1, <1>2, <1>3, RevisedKept
<1>. QED BY <1>8, <1>9, <1>10, <1>11, <1>12, <1>13

\* The person is asked, in an interaction made for this session.
LEMMA AskToConfirmNext ==
  ASSUME Common, Clientele, Logout, UNCHANGED <<setup, now>>, NEW c \in Calls, AskToConfirm(c)
  PROVE  Logout'
<1>. USE DEF Logout
<1>1. /\ In(c, "end", "ask") /\ InFlight(c) /\ ~Ended(c) /\ Requested
      /\ interactions' = [interactions EXCEPT ![c] = [session |-> call[c].given.session, consumed |-> FALSE]]
      /\ Answer(c, "asked") /\ UNCHANGED <<sessions, clients, past>>
  BY InIsInFlight DEF AskToConfirm, ended, InFlight, Common
<1>2. Moves(c) /\ Kept(c) /\ call'[c].pc = "done"
  BY <1>1, Answers
<1>3. call[c].op = "end" /\ call[c].pc = "ask" /\ call'[c].op = "end"
  BY <1>1, <1>2 DEF In, Kept
<1>4. EndingOf(c) /\ c \notin past'.destroyed
  BY <1>1, <1>3 DEF EndingsStand, Ending, EndingOf
<1>5. EndingsStand'
  <2>1. ~Ending(c)'
    BY <1>2, <1>4 DEF Ending
  <2>. QED BY <1>1, <1>2, <1>3, <2>1, EndingsKept
<1>6. DOMAIN interactions = Interactions /\ c \in Interactions /\ DOMAIN interactions' = Interactions
  BY <1>1 DEF InteractionsStand, Interactions
<1>7. InteractionsStand'
  <2>1. Standing(c)'
    <3>1. interactions'[c] = [session |-> call[c].given.session, consumed |-> FALSE] /\ call[c].given.session \in Sessions
      BY <1>1, <1>4, <1>6 DEF EndingOf
    <3>2. Ended(c)'
      BY <1>2 DEF Ended
    <3>. QED BY <3>1, <3>2 DEF Standing
  <2>2. \A i \in Interactions : interactions'[i] \in {interactions[i], None} \/ Standing(i)'
    BY <1>1, <1>6, <2>1
  <2>. QED BY <1>2, <1>6, <2>2, InteractionsKept
<1>8. AcceptedStand'
  <2>1. \A i \in Interactions : interactions[i] = None /\ interactions'[i] # None => i \in Calls /\ ~Ended(i)
    BY <1>1, <1>6
  <2>2. ~In(c, "end", "accept")'
    BY <1>2 DEF In
  <2>. QED BY <1>1, <1>2, <2>1, <2>2, AcceptedKept
<1>9. ListsStand'
  BY <1>1, <1>2, <1>3, ListsKept DEF ListsStand
<1>10. ToldStand'
  <2>1. Told(c)' /\ Listed(c)'
    BY <1>2, <1>4 DEF Told, Listed
  <2>2. \A id : Left(id, LogoutUris)' => Left(id, LogoutUris) /\ clients'[id].logoutUris = clients[id].logoutUris
    BY <1>1, <1>2, <1>3, UrisKept
  <2>. QED BY <1>1, <1>2, <2>1, <2>2, ToldKept
<1>11. RevisedStand'
  BY <1>1, <1>2, <1>3, RevisedKept
<1>. QED BY <1>5, <1>7, <1>8, <1>9, <1>10, <1>11

\* The person confirms.
LEMMA ConfirmLogoutNext ==
  ASSUME Common, Clientele, Logout, UNCHANGED <<setup, now>>, NEW c \in Calls, ConfirmLogout(c)
  PROVE  Logout'
<1>. USE DEF Logout
<1>1. PICK i \in Interactions :
        /\ interactions[i] # None /\ ~interactions[i].consumed
        /\ interactions' = [interactions EXCEPT ![i].consumed = TRUE]
        /\ Begin(c, "confirm", i, "done", None, interactions[i].session)
        /\ UNCHANGED <<ended, sessions, past>>
  BY DEF ConfirmLogout
<1>2. Starts(c) /\ "confirm" \in Ops /\ Fits("confirm") /\ UNCHANGED <<clients, sessions, past>>
  BY <1>1 DEF ConfirmLogout, Ops, Fits, ended
<1>3. /\ Moves(c) /\ Opened(c) /\ call'[c].op = "confirm" /\ call'[c].pc = "done"
      /\ call'[c].given = i /\ call'[c].answer = interactions[i].session
  BY <1>1, <1>2, Enters
<1>4. c \notin past'.destroyed
  BY <1>2, <1>3, NotYet DEF Opened
<1>5. EndingsStand'
  <2>1. ~Ending(c)'
    BY <1>3 DEF Ending
  <2>. QED BY <1>2, <1>3, <1>4, <2>1, EndingsKept
<1>6. DOMAIN interactions = Interactions /\ DOMAIN interactions' = Interactions /\ Standing(i)
  BY <1>1 DEF InteractionsStand
<1>7. InteractionsStand'
  <2>1. /\ interactions'[i] \in [session : Sessions, consumed : BOOLEAN]
        /\ interactions'[i].session = interactions[i].session
    BY <1>1, <1>6 DEF Standing
  <2>2. Done(c, "confirm")'
    BY <1>3 DEF Done, In
  <2>3. i \in Calls => Ended(i)'
    BY <1>3, <1>6, Frozen DEF Standing, Common
  <2>4. Standing(i)'
    BY <1>3, <2>1, <2>2, <2>3 DEF Standing
  <2>5. \A j \in Interactions : interactions'[j] \in {interactions[j], None} \/ Standing(j)'
    BY <1>1, <1>6, <2>4
  <2>. QED BY <1>3, <1>6, <2>5, InteractionsKept
<1>8. AcceptedStand'
  <2>1. \A j \in Interactions : ~(interactions[j] = None /\ interactions'[j] # None)
    BY <1>1, <1>6
  <2>2. ~In(c, "end", "accept")'
    BY <1>3 DEF In
  <2>. QED BY <1>2, <1>3, <2>1, <2>2, AcceptedKept
<1>9. ListsStand'
  BY <1>2, <1>3, ListsKept DEF ListsStand
<1>10. ToldStand'
  <2>1. Told(c)' /\ Listed(c)'
    BY <1>3, <1>4 DEF Told, Listed
  <2>2. \A id : Left(id, LogoutUris)' => Left(id, LogoutUris) /\ clients'[id].logoutUris = clients[id].logoutUris
    BY <1>2, <1>3, UrisKept
  <2>. QED BY <1>2, <1>3, <2>1, <2>2, ToldKept
<1>11. RevisedStand'
  BY <1>2, <1>3, RevisedKept
<1>. QED BY <1>5, <1>7, <1>8, <1>9, <1>10, <1>11

\* The operator signs a session out.
LEMMA DestroySessionNext ==
  ASSUME Common, Clientele, Logout, UNCHANGED <<setup, now>>, NEW c \in Calls, DestroySession(c)
  PROVE  Logout'
<1>. USE DEF Logout
<1>1. PICK s \in Sessions :
        sessions[s] # None /\ Begin(c, "manage", [session |-> s], "tell", sessions[s], None) /\ Keep /\ UNCHANGED past
  BY DEF DestroySession
<1>2. Starts(c) /\ "manage" \in Ops /\ Fits("manage") /\ UNCHANGED <<clients, sessions, interactions, past>>
  BY <1>1 DEF DestroySession, Ops, Fits, Keep, stores
<1>3. /\ Moves(c) /\ Opened(c) /\ call'[c].op = "manage" /\ call'[c].pc = "tell"
      /\ call'[c].given = [session |-> s] /\ call'[c].seen = sessions[s]
  BY <1>1, <1>2, Enters
<1>4. c \notin past'.destroyed
  BY <1>2, <1>3, NotYet DEF Opened
<1>5. /\ \A k \in Calls : Ended(k) => call'[k] = call[k]
      /\ call'[c].after = {k \in Calls : Ended(k)}
  BY <1>3, Frozen DEF Opened, Common
<1>6. EndingsStand'
  <2>1. EndingOf(c)'
    BY <1>3, <1>4 DEF EndingOf, AskedFor
  <2>. QED BY <1>2, <1>3, <1>4, <2>1, EndingsKept
<1>7. InteractionsStand'
  BY <1>2, <1>3, InteractionsKept DEF InteractionsStand
<1>8. AcceptedStand'
  <2>1. ~In(c, "end", "accept")'
    BY <1>3 DEF In
  <2>. QED BY <1>2, <1>3, <2>1, AcceptedKept
<1>9. ListsStand'
  BY <1>2, <1>3, ListsKept DEF ListsStand
<1>10. ToldStand'
  <2>1. Told(c)'
    BY <1>4 DEF Told
  <2>2. Listed(c)'
    <3>1. App \in sessions[s]
      BY <1>1 DEF ListsStand
    <3>2. ASSUME NEW j \in call'[c].after, call'[j].op = "redeem", call'[j].answer = "issued", call'[j].given.session = s
          PROVE  call'[j].given.client \in sessions[s]
      BY <1>1, <1>5, <3>2 DEF ListsStand
    <3>. QED BY <1>3, <3>1, <3>2 DEF SignedIn, Listed
  <2>3. \A id : Left(id, LogoutUris)' => Left(id, LogoutUris) /\ clients'[id].logoutUris = clients[id].logoutUris
    BY <1>2, <1>3, UrisKept
  <2>. QED BY <1>2, <1>3, <2>1, <2>2, <2>3, ToldKept
<1>11. RevisedStand'
  BY <1>2, <1>3, RevisedKept
<1>. QED BY <1>6, <1>7, <1>8, <1>9, <1>10, <1>11

\* The clients on the list that was read are looked up.
LEMMA TellNext ==
  ASSUME Common, Clientele, Logout, scenario = "logout", UNCHANGED <<setup, now>>, NEW c \in Calls, Tell(c)
  PROVE  Logout'
<1>. USE DEF Logout
<1>1. /\ call[c].op \in {"end", "manage"} /\ call[c].pc = "tell" /\ InFlight(c) /\ Requested
      /\ UNCHANGED <<sessions, interactions, clients, past>>
  BY InIsInFlight DEF Tell, In, Keep, stores, Common
<1>2. EndingOf(c) /\ c \notin past'.destroyed
  BY <1>1 DEF EndingsStand, Ending, EndingOf
<1>. DEFINE list == call[c].seen
            told == [back |-> LogoutTokens(c, list), front |-> FrontChannelLogouts(c, list), list |-> list]
<1>3. Throw(c) \/ Go(c, "destroy", told)
  BY DEF Tell
<1>4. /\ Moves(c) /\ Kept(c) /\ call'[c].op = call[c].op
      /\ \/ call'[c].pc = "failed"
         \/ call'[c].pc = "destroy" /\ call'[c].seen = told /\ call'[c].given = call[c].given
  BY <1>1, <1>3, Throws, Goes DEF Kept
<1>5. EndingsStand'
  <2>1. ASSUME call'[c].pc = "destroy", call'[c].given = call[c].given PROVE EndingOf(c)'
    <3>1. Confirmed(c)' = Confirmed(c)
      BY <1>1, <1>4, <2>1, KnownStays DEF Kept
    <3>. QED BY <1>1, <1>2, <1>4, <2>1, <3>1 DEF EndingOf, AskedFor
  <2>2. Ending(c)' => EndingOf(c)'
    BY <1>2, <1>4, <2>1 DEF Ending
  <2>. QED BY <1>1, <1>2, <1>4, <2>2, EndingsKept
<1>6. InteractionsStand'
  BY <1>1, <1>4, InteractionsKept DEF InteractionsStand
<1>7. AcceptedStand'
  <2>1. ~In(c, "end", "accept")'
    BY <1>4 DEF In
  <2>. QED BY <1>1, <1>4, <2>1, AcceptedKept
<1>8. ListsStand'
  BY <1>1, <1>4, ListsKept DEF ListsStand
<1>9. \A id : Left(id, LogoutUris)' => Left(id, LogoutUris) /\ clients'[id].logoutUris = clients[id].logoutUris
  BY <1>1, <1>4, UrisKept
<1>10. ToldStand'
  <2>1. Told(c)'
    BY <1>2 DEF Told
  <2>2. ASSUME call'[c].pc = "destroy", call'[c].seen = told, call'[c].given = call[c].given PROVE Listed(c)'
    <3>1. SignedIn(c)' = SignedIn(c) /\ Channels(c)' = Channels(c)
      BY <1>1, <1>4, <2>2, KnownStays DEF Kept
    <3>2. SignedIn(c) \subseteq list
      BY <1>1 DEF ToldStand, Listed
    <3>3. SignedIn(c) \subseteq {App, Api} /\ clients[App] # None /\ clients[Api] # None
      <4>1. call[c].after \subseteq Calls
        BY CallNumbers DEF Common, Requested
      <4>2. clients[App] \in Client /\ clients[Api] \in Client
        BY DEF Clientele
      <4>. QED BY <4>1, <4>2, ClientFields DEF SignedIn, ListsStand
    <3>4. ASSUME NEW id \in SignedIn(c), "back" \in Channels(c), "back" \in clients[id].logoutUris
          PROVE  id \in told.back
      BY <3>2, <3>3, <3>4 DEF Channels, LogoutTokens
    <3>5. ASSUME NEW id \in SignedIn(c), "front" \in Channels(c), "front" \in clients[id].logoutUris
          PROVE  id \in told.front
      BY <1>1, <3>2, <3>3, <3>5 DEF Channels, FrontChannelLogouts
    <3>. HIDE DEF told
    <3>. QED BY <1>1, <2>2, <3>1, <3>4, <3>5 DEF Listed
  <2>3. Listed(c)'
    BY <1>4, <2>2 DEF Listed
  <2>. QED BY <1>1, <1>4, <1>9, <2>1, <2>3, ToldKept
<1>11. RevisedStand'
  BY <1>1, <1>4, RevisedKept
<1>. QED BY <1>5, <1>6, <1>7, <1>8, <1>10, <1>11

\* The session is destroyed.
LEMMA EndOfNext ==
  ASSUME Common, Clientele, Logout, UNCHANGED <<setup, now>>, NEW c \in Calls, EndOf(c)
  PROVE  Logout'
<1>. USE DEF Logout
<1>1. /\ call[c].op \in {"end", "manage"} /\ call[c].pc = "destroy" /\ InFlight(c) /\ Requested
      /\ sessions' = [sessions EXCEPT ![call[c].given.session] = None]
      /\ past' = [past EXCEPT !.destroyed = @ \cup {c}] /\ Go(c, "deliver", call[c].seen)
      /\ UNCHANGED <<interactions, clients>>
  BY InIsInFlight DEF EndOf, In, ended, Common
<1>2. /\ past'.destroyed = past.destroyed \cup {c} /\ past'.accepted = past.accepted /\ past'.notified = past.notified
      /\ DOMAIN sessions = Sessions
  BY <1>1 DEF Common, Memory, ListsStand
<1>3. EndingOf(c)
  BY <1>1 DEF EndingsStand, Ending
<1>4. /\ Moves(c) /\ Kept(c) /\ call'[c].op = call[c].op /\ call'[c].pc = "deliver" /\ call'[c].seen = call[c].seen
      /\ call'[c].given = call[c].given /\ call'[c].answer = None
  BY <1>1, Goes DEF Kept, InFlight, Requested
<1>5. Confirmed(c)' = Confirmed(c) /\ SignedIn(c)' = SignedIn(c) /\ Channels(c)' = Channels(c)
  BY <1>1, <1>4, KnownStays DEF Kept
<1>6. EndingsStand'
  <2>1. \A s \in Sessions : sessions[s] = None => sessions'[s] = None
    BY <1>1, <1>2
  <2>2. EndingOf(c)'
    BY <1>1, <1>2, <1>3, <1>4, <1>5 DEF EndingOf, AskedFor
  <2>. QED BY <1>1, <1>2, <1>4, <2>1, <2>2, EndingsKept
<1>7. InteractionsStand'
  BY <1>1, <1>4, InteractionsKept DEF InteractionsStand
<1>8. AcceptedStand'
  <2>1. ~In(c, "end", "accept")'
    BY <1>4 DEF In
  <2>. QED BY <1>1, <1>2, <1>4, <2>1, AcceptedKept
<1>9. ListsStand'
  BY <1>1, <1>2, <1>4, ListsKept
<1>10. ToldStand'
  <2>1. Told(c)'
    BY <1>4, NamesAssumption DEF Told, Outcomes
  <2>2. \A id : Left(id, LogoutUris)' => Left(id, LogoutUris) /\ clients'[id].logoutUris = clients[id].logoutUris
    BY <1>1, <1>4, UrisKept
  <2>3. Listed(c)'
    <3>1. Listed(c)
      BY DEF ToldStand
    <3>. QED BY <1>1, <1>4, <1>5, <2>2, <3>1 DEF Listed
  <2>. QED BY <1>2, <1>4, <2>1, <2>2, <2>3, ToldKept
<1>11. RevisedStand'
  BY <1>1, <1>4, RevisedKept
<1>. QED BY <1>6, <1>7, <1>8, <1>9, <1>10, <1>11

\* The clients are told.
LEMMA DeliverNext ==
  ASSUME Common, Clientele, Logout, UNCHANGED <<setup, now>>, NEW c \in Calls, Deliver(c)
  PROVE  Logout'
<1>. USE DEF Logout
<1>1. /\ call[c].op \in {"end", "manage"} /\ call[c].pc = "deliver" /\ InFlight(c) /\ Requested
      /\ UNCHANGED <<sessions, interactions, clients>>
  BY InIsInFlight DEF Deliver, In, Keep, stores, Common
<1>. DEFINE delivered == (call[c].seen.back \X {"back"}) \cup (call[c].seen.front \X {"front"})
<1>2. \/ past' = [past EXCEPT !.notified = @ \cup delivered] /\ Answer(c, "signed out")
      \/ call' = [call EXCEPT ![c].pc = "failed"] /\ past' = past
  BY DEF Deliver
<1>3. past'.destroyed = past.destroyed /\ past'.accepted = past.accepted /\ past.notified \subseteq past'.notified
  BY <1>2 DEF Common, Memory
<1>4. /\ Moves(c) /\ Kept(c) /\ call'[c].op = call[c].op /\ call'[c].given = call[c].given
      /\ call'[c].pc \in {"done", "failed"}
      /\ \/ call'[c].answer = None
         \/ call'[c].answer = "signed out" /\ past'.notified = past.notified \cup delivered
  <2>1. CASE past' = [past EXCEPT !.notified = @ \cup delivered] /\ Answer(c, "signed out")
    <3>1. past'.notified = past.notified \cup delivered
      BY <2>1 DEF Common, Memory
    <3>. QED BY <1>1, <2>1, <3>1, Answers DEF Kept
  <2>2. CASE call' = [call EXCEPT ![c].pc = "failed"]
    <3>1. "failed" \in {"failed", "dead"}
      OBVIOUS
    <3>. QED BY <1>1, <2>2, <3>1, Stops DEF Kept
  <2>. QED BY <1>2, <2>1, <2>2
<1>5. Confirmed(c)' = Confirmed(c) /\ SignedIn(c)' = SignedIn(c) /\ Channels(c)' = Channels(c)
  BY <1>1, <1>4, KnownStays DEF Kept
<1>6. EndingsStand'
  <2>1. EndingOf(c)
    BY <1>1 DEF EndingsStand, Ending
  <2>2. EndingOf(c)'
    BY <1>1, <1>3, <1>4, <1>5, <2>1 DEF EndingOf, AskedFor
  <2>. QED BY <1>1, <1>3, <1>4, <2>2, EndingsKept
<1>7. InteractionsStand'
  BY <1>1, <1>4, InteractionsKept DEF InteractionsStand
<1>8. AcceptedStand'
  <2>1. ~In(c, "end", "accept")'
    BY <1>4 DEF In
  <2>. QED BY <1>1, <1>3, <1>4, <2>1, AcceptedKept
<1>9. ListsStand'
  BY <1>1, <1>4, ListsKept DEF ListsStand
<1>10. ToldStand'
  <2>1. \A id : Left(id, LogoutUris)' => Left(id, LogoutUris) /\ clients'[id].logoutUris = clients[id].logoutUris
    BY <1>1, <1>4, UrisKept
  <2>2. Told(c)'
    <3>. SUFFICES ASSUME call'[c].answer = "signed out", NEW id \in SignedIn(c), Left(id, LogoutUris)',
                         NEW channel \in Channels(c) \cap clients'[id].logoutUris
                  PROVE  <<id, channel>> \in past'.notified
      BY <1>5 DEF Told
    <3>1. past'.notified = past.notified \cup delivered
      BY <1>4, NamesAssumption DEF Outcomes
    <3>2. Listed(c) /\ Left(id, LogoutUris) /\ clients'[id].logoutUris = clients[id].logoutUris
      BY <2>1 DEF ToldStand
    <3>3. channel \in {"back", "front"}
      BY DEF Channels
    <3>4. \/ channel = "back" /\ id \in call[c].seen.back
          \/ channel = "front" /\ id \in call[c].seen.front
      BY <1>1, <3>2, <3>3 DEF Listed
    <3>. QED BY <3>1, <3>4
  <2>3. Listed(c)'
    BY <1>4 DEF Listed
  <2>. QED BY <1>3, <1>4, <2>1, <2>2, <2>3, ToldKept
<1>11. RevisedStand'
  BY <1>1, <1>4, RevisedKept
<1>. QED BY <1>6, <1>7, <1>8, <1>9, <1>10, <1>11

\* A code is redeemed under a session.
LEMMA RedeemNext ==
  ASSUME Common, Clientele, Logout, UNCHANGED <<setup, now>>, NEW c \in Calls, Redeem(c)
  PROVE  Logout'
<1>. USE DEF Logout
<1>1. PICK s \in Sessions, id \in {App, Api} :
        Begin(c, "redeem", [session |-> s, client |-> id], "join", sessions[s], None) /\ Keep /\ UNCHANGED past
  BY DEF Redeem
<1>2. Starts(c) /\ "redeem" \in Ops /\ Fits("redeem") /\ UNCHANGED <<clients, sessions, interactions, past>>
  BY <1>1 DEF Redeem, Ops, Fits, Keep, stores
<1>3. /\ Moves(c) /\ Opened(c) /\ call'[c].op = "redeem" /\ call'[c].pc = "join"
      /\ call'[c].given = [session |-> s, client |-> id] /\ call'[c].answer = None
  BY <1>1, <1>2, Enters
<1>4. c \notin past'.destroyed
  BY <1>2, <1>3, NotYet DEF Opened
<1>5. EndingsStand'
  <2>1. ~Ending(c)'
    BY <1>3 DEF Ending
  <2>. QED BY <1>2, <1>3, <1>4, <2>1, EndingsKept
<1>6. InteractionsStand'
  BY <1>2, <1>3, InteractionsKept DEF InteractionsStand
<1>7. AcceptedStand'
  <2>1. ~In(c, "end", "accept")'
    BY <1>3 DEF In
  <2>. QED BY <1>2, <1>3, <2>1, AcceptedKept
<1>8. ListsStand'
  <2>1. None # "issued" /\ Others(c)
    BY <1>3, NamesAssumption DEF Outcomes, Opened
  <2>. QED BY <1>2, <1>3, <2>1 DEF ListsStand, Others
<1>9. ToldStand'
  <2>1. Told(c)' /\ Listed(c)'
    BY <1>3, <1>4 DEF Told, Listed
  <2>2. \A i : Left(i, LogoutUris)' => Left(i, LogoutUris) /\ clients'[i].logoutUris = clients[i].logoutUris
    BY <1>2, <1>3, UrisKept
  <2>. QED BY <1>2, <1>3, <2>1, <2>2, ToldKept
<1>10. RevisedStand'
  BY <1>2, <1>3, RevisedKept
<1>. QED BY <1>5, <1>6, <1>7, <1>8, <1>9, <1>10

\* Its client joins the session's list, if there is still a session.
LEMMA JoinNext ==
  ASSUME Common, Clientele, Logout, UNCHANGED <<setup, now>>, NEW c \in Calls, Join(c)
  PROVE  Logout'
<1>. USE DEF Logout
<1>1. PICK s : s = call[c].given.session
  OBVIOUS
<1>2. /\ call[c].op = "redeem" /\ InFlight(c) /\ Requested /\ Answer(c, "issued")
      /\ sessions' = [sessions EXCEPT ![s] = IF @ = None THEN None ELSE @ \cup {call[c].given.client}]
      /\ UNCHANGED <<interactions, clients, past>>
  BY <1>1, InIsInFlight DEF Join, In, ended, Common
<1>3. /\ Moves(c) /\ Kept(c) /\ call'[c].op = "redeem" /\ call'[c].pc = "done"
      /\ call'[c].given = call[c].given
  BY <1>2, Answers DEF Kept
<1>4. c \notin past'.destroyed
  BY <1>2, NotYet
<1>5. /\ DOMAIN sessions = Sessions /\ DOMAIN sessions' = Sessions /\ s \in Sessions /\ call[c].given.client \in {App, Api}
      /\ sessions'[s] = (IF sessions[s] = None THEN None ELSE sessions[s] \cup {call[c].given.client})
      /\ \A t \in Sessions \ {s} : sessions'[t] = sessions[t]
  BY <1>1, <1>2 DEF ListsStand
<1>6. EndingsStand'
  <2>1. ~Ending(c)'
    BY <1>3 DEF Ending
  <2>2. \A t \in Sessions : sessions[t] = None => sessions'[t] = None
    BY <1>5
  <2>. QED BY <1>2, <1>3, <1>4, <2>1, <2>2, EndingsKept
<1>7. InteractionsStand'
  BY <1>2, <1>3, InteractionsKept DEF InteractionsStand
<1>8. AcceptedStand'
  <2>1. ~In(c, "end", "accept")'
    BY <1>3 DEF In
  <2>. QED BY <1>2, <1>3, <2>1, AcceptedKept
<1>9. ListsStand'
  <2>1. \A t \in Sessions : sessions'[t] # None =>
          sessions[t] # None /\ sessions[t] \subseteq sessions'[t] /\ App \in sessions'[t] /\ sessions'[t] \subseteq {App, Api}
    BY <1>5 DEF ListsStand
  <2>2. sessions'[s] = None \/ call[c].given.client \in sessions'[s]
    BY <1>5
  <2>3. ASSUME NEW j \in Calls, j # c, call'[j].op = "redeem"
        PROVE  /\ call'[j].given.session \in Sessions /\ call'[j].given.client \in {App, Api}
               /\ call'[j].answer = "issued" =>
                    sessions'[call'[j].given.session] = None \/ call'[j].given.client \in sessions'[call'[j].given.session]
    <3>1. call'[j] = call[j]
      BY <1>3, <2>3 DEF Kept, Others
    <3>. QED BY <2>1, <2>3, <3>1 DEF ListsStand
  <2>. QED BY <1>1, <1>3, <1>5, <2>1, <2>2, <2>3 DEF ListsStand
<1>10. ToldStand'
  <2>1. Told(c)' /\ Listed(c)'
    BY <1>3, <1>4 DEF Told, Listed
  <2>2. \A i : Left(i, LogoutUris)' => Left(i, LogoutUris) /\ clients'[i].logoutUris = clients[i].logoutUris
    BY <1>2, <1>3, UrisKept
  <2>. QED BY <1>2, <1>3, <2>1, <2>2, ToldKept
<1>11. RevisedStand'
  BY <1>2, <1>3, RevisedKept
<1>. QED BY <1>6, <1>7, <1>8, <1>9, <1>10, <1>11

\* An update begins; what it is about to store it made up of what it found.
LEMMA UpdateNext ==
  ASSUME Common, Clientele, Logout, UNCHANGED <<setup, now>>, NEW c \in Calls, Update(c)
  PROVE  Logout'
<1>. USE DEF Logout
<1>1. PICK id \in ClientIds, patch \in Patches[scenario] :
        /\ FindClient(id) \in Client /\ Patched(patch, FindClient(id)) \in Client /\ Speaks(patch)
        /\ Opened(c) /\ call'[c].op = "update" /\ call'[c].pc = "upsert" /\ call'[c].given = patch
        /\ call'[c].seen = [id |-> id, found |-> FindClient(id).secret, record |-> Patched(patch, FindClient(id))]
        /\ call'[c].answer = None /\ UNCHANGED <<stores, past>>
  BY UpdateBegins
<1>2. Moves(c) /\ Others(c) /\ call[c] = Idle /\ UNCHANGED <<clients, sessions, interactions, past>>
  BY <1>1, ClientMoves DEF ClientSteps, Opened, stores
<1>3. c \notin past'.destroyed
  BY <1>2, NotYet
<1>4. EndingsStand'
  <2>1. ~Ending(c)'
    BY <1>1 DEF Ending
  <2>. QED BY <1>2, <1>3, <2>1, EndingsKept
<1>5. InteractionsStand'
  BY <1>2, InteractionsKept DEF InteractionsStand
<1>6. AcceptedStand'
  <2>1. ~In(c, "end", "accept")'
    BY <1>1 DEF In
  <2>. QED BY <1>2, <2>1, AcceptedKept
<1>7. ListsStand'
  BY <1>1, <1>2, ListsKept DEF ListsStand
<1>8. \A i : Left(i, LogoutUris)' => Left(i, LogoutUris)
  <2>1. \A u \in Calls : call[u].op = "update" => call'[u] = call[u]
    BY <1>2, NamesAssumption DEF Others, Idle, Ops
  <2>. QED BY <2>1, LeftBefore
<1>9. ToldStand'
  <2>1. Told(c)' /\ Listed(c)'
    BY <1>1, <1>3 DEF Told, Listed
  <2>. QED BY <1>2, <1>8, <2>1, ToldKept
<1>10. RevisedStand'
  <2>1. ASSUME id \in {App, Api}, Left(id, LogoutUris)'
        PROVE  Patched(patch, FindClient(id)).logoutUris = clients[id].logoutUris
    <3>1. "logoutUris" \notin DOMAIN patch
      BY <1>1, <2>1 DEF Left, LogoutUris
    <3>2. FindClient(id) = clients[id]
      BY <2>1, NamesAssumption DEF FindClient
    <3>. QED BY <1>1, <3>1, <3>2, PatchedClient DEF Field
  <2>2. ASSUME NEW u \in Calls, u # c, In(u, "update", "upsert")', call'[u].seen.id \in {App, Api},
               Left(call[u].seen.id, LogoutUris)'
        PROVE  call'[u].seen.record.logoutUris = clients'[call'[u].seen.id].logoutUris
    <3>1. call'[u] = call[u] /\ In(u, "update", "upsert")
      BY <1>2, <2>2 DEF Others, In
    <3>2. Left(call[u].seen.id, LogoutUris)
      BY <1>8, <2>2, <3>1
    <3>. QED BY <1>2, <2>2, <3>1, <3>2 DEF RevisedStand
  <2>3. call'[c].seen.id = id /\ call'[c].seen.record = Patched(patch, FindClient(id))
    BY <1>1
  <2>4. RevisedStand'
    BY <1>2, <2>1, <2>2, <2>3 DEF RevisedStand
  <2>. QED BY <2>4
<1>. QED BY <1>4, <1>5, <1>6, <1>7, <1>9, <1>10

\* An update is stored.
LEMMA StoredNext ==
  ASSUME Common, Clientele, Logout, UNCHANGED <<setup, now>>, NEW c \in Calls,
         In(c, "update", "upsert"), Written(c)
  PROVE  Logout'
<1>. USE DEF Logout
<1>1. PICK id \in ClientIds, record \in Client : id = call[c].seen.id /\ record = call[c].seen.record
  BY DEF Clientele, Storing, In
<1>2. Requested /\ InFlight(c) /\ call[c].op = "update" /\ call[c].pc = "upsert"
  BY InIsInFlight DEF Common, In
<1>3. /\ Kept(c) /\ call'[c].op = "update" /\ call'[c].pc = "done" /\ call'[c].given = call[c].given
      /\ call'[c].seen = [id |-> id, found |-> call[c].seen.found] /\ call'[c].answer = "stored"
      /\ clients' = [clients EXCEPT ![id] = record] /\ UNCHANGED <<sessions, interactions, past>>
  BY <1>1, <1>2, WriteEnds DEF others, Kept
<1>4. Moves(c) /\ Others(c)
  BY <1>2, <1>3, ClientMoves DEF ClientSteps, Upsert, Kept, In
<1>5. c \notin past'.destroyed
  BY <1>2, <1>3, NotYet
<1>6. EndingsStand'
  <2>1. ~Ending(c)'
    BY <1>3 DEF Ending
  <2>. QED BY <1>3, <1>4, <1>5, <2>1, EndingsKept
<1>7. InteractionsStand'
  BY <1>3, <1>4, InteractionsKept DEF InteractionsStand
<1>8. AcceptedStand'
  <2>1. ~In(c, "end", "accept")'
    BY <1>3 DEF In
  <2>. QED BY <1>3, <1>4, <2>1, AcceptedKept
<1>9. ListsStand'
  BY <1>3, <1>4, ListsKept DEF ListsStand
<1>10. \A i : Left(i, LogoutUris)' => Left(i, LogoutUris)
  <2>1. call'[c].op = "update" /\ call'[c].given = call[c].given /\ call'[c].seen.id = call[c].seen.id
    BY <1>1, <1>3
  <2>. QED BY <1>4, <2>1, LeftBefore DEF Others
<1>11. id \in {App, Api} /\ Left(id, LogoutUris) => record.logoutUris = clients[id].logoutUris
  BY <1>1 DEF RevisedStand
<1>12. /\ \A i \in ClientIds \ {id} : clients'[i] = clients[i]
       /\ clients'[id] = record
  BY <1>1, <1>3 DEF Clientele
<1>13. \A i \in {App, Api} : Left(i, LogoutUris)' => Left(i, LogoutUris) /\ clients'[i].logoutUris = clients[i].logoutUris
  BY <1>10, <1>11, <1>12 DEF ClientIds
<1>14. ToldStand'
  <2>1. Told(c)' /\ Listed(c)'
    BY <1>3, <1>5 DEF Told, Listed
  <2>. QED BY <1>3, <1>4, <1>13, <2>1, ToldKept
<1>15. RevisedStand'
  <2>. SUFFICES ASSUME NEW u \in Calls, In(u, "update", "upsert")', call'[u].seen.id \in {App, Api},
               Left(call[u].seen.id, LogoutUris)'
        PROVE  call'[u].seen.record.logoutUris = clients'[call'[u].seen.id].logoutUris
    BY DEF RevisedStand
  <2>1. u # c
    BY <1>3 DEF In
  <2>2. call'[u] = call[u] /\ In(u, "update", "upsert")
    BY <1>4, <2>1 DEF Others, In
  <2>3. Left(call[u].seen.id, LogoutUris) /\ clients'[call[u].seen.id].logoutUris = clients[call[u].seen.id].logoutUris
    BY <1>13, <2>2
  <2>. QED BY <2>2, <2>3 DEF RevisedStand
<1>. QED BY <1>6, <1>7, <1>8, <1>9, <1>14, <1>15

\* A request stops where it is.
LEMMA StoppedNext ==
  ASSUME Common, Logout, UNCHANGED <<setup, now>>, NEW c \in Calls, Crash(c)
  PROVE  Logout'
<1>. USE DEF Logout
<1>1. /\ Moves(c) /\ Kept(c) /\ call'[c].op = call[c].op /\ call'[c].pc = "dead" /\ call'[c].seen = call[c].seen
      /\ call'[c].given = call[c].given /\ call'[c].answer = None /\ call[c].op \in {"end", "manage", "revoke"}
  <2>1. Requested /\ InFlight(c) /\ call' = [call EXCEPT ![c].pc = "dead"] /\ "dead" \in {"failed", "dead"}
    BY DEF Common, Crash
  <2>. QED BY <2>1, Stops DEF Crash, Kept
<1>2. UNCHANGED <<clients, sessions, interactions, past>> /\ InFlight(c)
  BY DEF Crash, stores
<1>3. call[c].pc # "idle" /\ Others(c) /\ call[c].op # "update" /\ call[c].op # "redeem"
  BY <1>1, <1>2 DEF InFlight, Kept
<1>4. EndingsStand'
  <2>1. ASSUME Ending(c)' PROVE EndingOf(c)'
    <3>1. c \in past.destroyed /\ Ending(c)
      BY <1>1, <1>2, <2>1 DEF Ending
    <3>2. EndingOf(c) /\ call[c].pc # "ask"
      BY <3>1 DEF EndingsStand, EndingOf
    <3>3. AskedFor(c)'
      <4>1. Confirmed(c)' = Confirmed(c)
        BY <1>1, <1>3, KnownStays DEF Kept
      <4>. QED BY <1>1, <3>2, <4>1 DEF EndingOf, AskedFor
    <3>. QED BY <1>1, <1>2, <3>2, <3>3 DEF EndingOf
  <2>2. c \in past'.destroyed => call'[c].op \in {"end", "manage"}
    BY <1>1, <1>2 DEF EndingsStand
  <2>. QED BY <1>1, <1>2, <2>1, <2>2, EndingsKept
<1>5. InteractionsStand'
  BY <1>1, <1>2, InteractionsKept DEF InteractionsStand
<1>6. AcceptedStand'
  <2>1. ~In(c, "end", "accept")'
    BY <1>1 DEF In
  <2>. QED BY <1>1, <1>2, <2>1, AcceptedKept
<1>7. ListsStand'
  BY <1>1, <1>2, <1>3, ListsKept DEF ListsStand
<1>8. ToldStand'
  <2>1. Told(c)' /\ Listed(c)'
    BY <1>1, NamesAssumption DEF Told, Listed, Outcomes
  <2>2. \A i : Left(i, LogoutUris)' => Left(i, LogoutUris) /\ clients'[i].logoutUris = clients[i].logoutUris
    BY <1>1, <1>2, <1>3, UrisKept
  <2>. QED BY <1>1, <1>2, <2>1, <2>2, ToldKept
<1>9. RevisedStand'
  BY <1>1, <1>2, <1>3, RevisedKept
<1>. QED BY <1>4, <1>5, <1>6, <1>7, <1>8, <1>9

\* Every step keeps what ends sessions.
LEMMA LogoutNext ==
  Common /\ Clientele /\ (scenario = "logout" => Logout) /\ [Next]_all => (scenario = "logout" => Logout)'
<1>. SUFFICES ASSUME Common, Clientele, scenario = "logout" => Logout, [Next]_all, scenario' = "logout" PROVE Logout'
  OBVIOUS
<1>1. UNCHANGED setup
  BY DEF Next, all
<1>2. scenario = "logout" /\ Logout
  BY <1>1 DEF setup
<1>3. CASE UNCHANGED all \/ Tick
  <2>1. UNCHANGED <<setup, clients, sessions, interactions, call, past>>
    BY <1>1, <1>3 DEF all, stores, Tick
  <2>2. EndingsStand'
    BY <1>2, <2>1 DEF Logout, EndingsStand, Ending, EndingOf, AskedFor, Confirmed
  <2>3. InteractionsStand' /\ AcceptedStand' /\ ListsStand'
    BY <1>2, <2>1 DEF Logout, InteractionsStand, Standing, Ended, Done, In, AcceptedStand, Unaccepted, ListsStand
  <2>4. \A c \in Calls : \A id : SignedIn(c)' = SignedIn(c) /\ Channels(c)' = Channels(c) /\ Left(id, LogoutUris)' = Left(id, LogoutUris)
    BY <2>1 DEF SignedIn, Channels, Left, setup
  <2>5. ToldStand'
    BY <1>2, <2>1, <2>4 DEF Logout, ToldStand, Told, Listed
  <2>6. RevisedStand'
    BY <1>2, <2>1, <2>4 DEF Logout, RevisedStand, In
  <2>. QED BY <2>2, <2>3, <2>5, <2>6 DEF Logout
<1>4. ASSUME Next, ~Tick PROVE Logout'
  <2>1. UNCHANGED now /\ \E c \in Calls : Revises(c) \/ LogoutSteps(c) \/ Crash(c)
    BY <1>2, <1>4, Scenes
  <2>2. PICK c \in Calls : Revises(c) \/ LogoutSteps(c) \/ Crash(c)
    BY <2>1
  <2>3. UNCHANGED <<setup, now>>
    BY <1>1, <2>1
  <2>4. CASE Revises(c)
    BY <1>2, <2>3, <2>4, UpdateNext, StoredNext DEF Revises
  <2>5. CASE Crash(c)
    BY <1>2, <2>3, <2>5, StoppedNext
  <2>6. CASE EndSession(c) \/ AcceptConfirmation(c) \/ AskToConfirm(c) \/ ConfirmLogout(c) \/ DestroySession(c)
    BY <1>2, <2>3, <2>6, EndSessionNext, AcceptConfirmationNext, AskToConfirmNext, ConfirmLogoutNext, DestroySessionNext
  <2>7. CASE Tell(c) \/ EndOf(c) \/ Deliver(c) \/ Redeem(c) \/ Join(c)
    BY <1>2, <2>3, <2>7, TellNext, EndOfNext, DeliverNext, RedeemNext, JoinNext
  <2>. QED BY <2>2, <2>4, <2>5, <2>6, <2>7 DEF LogoutSteps
<1>. QED BY <1>3, <1>4

-----------------------------------------------------------------------------
(* Tokens say and allow what their grant does. *)

\* What a token is worth that is stored, or was read, under a name.
Genuine(t, token) ==
  /\ token.exp \in Nat /\ token.account \in {None, Account}
  /\ token.subject = past.told[t]
  /\ token.account # None /\ t # Refresh => token.subject # None
  /\ FromRoot(t) => past.bound \subseteq token.cnf
TokenOf(t) == tokens[t] # None =>
  /\ Genuine(t, tokens[t])
  /\ t \in {Root, Refresh} => tokens[t].ofGrant
  /\ t = Refresh => tokens[t].kind = "refresh_token"
  /\ t \in Calls =>
       /\ Ended(t) /\ call[t].answer # None
       /\ tokens[t].ofGrant => call[t].op = "exchange"

\* A token a request was given was issued before, by a request that was over.
Shown == {"exchange", "introspect", "userinfo", "revoke"}
Holding(u) == call[u].op \in Shown /\ (InFlight(u) \/ call[u].answer # None)
Gone == tokens[Root] = None /\ tokens[Refresh] = None
ShowingOf(u) ==
  /\ Holding(u) => call[u].given.token \in TokenIds /\ (call[u].given.token \in Calls => Ended(call[u].given.token))
  /\ In(u, "exchange", "policy") => Genuine(call[u].given.token, call[u].seen.subject) /\ call[u].seen.client \in Client
  /\ In(u, "introspect", "owner") => Genuine(call[u].given.token, call[u].seen)
  /\ In(u, "userinfo", "claims") =>
       Genuine(call[u].given.token, call[u].seen) /\ call[u].seen.cnf \subseteq call[u].given.binding
  /\ call[u].op \in {"userinfo", "introspect"} /\ call[u].answer # None
       /\ call[u].given.token # Refresh /\ call[u].answer.sub # None
     => call[u].answer.sub = past.told[call[u].given.token]
  /\ call[u].op = "userinfo" /\ call[u].answer # None /\ FromRoot(call[u].given.token)
     => past.bound \subseteq call[u].given.binding
  /\ In(u, "revoke", "destroy") => call[u].given.token # Refresh
  /\ In(u, "revoke", "grant") \/ GrantEnded(u) => Gone

\* Nothing is issued before a request is over; what an exchange issues narrows, and one that
\* begins once the grant is gone has for its subject what an exchange issued.
IssuedOf(c) ==
  /\ ~Ended(c) => tokens[c] = None /\ past.from[c] = None /\ past.told[c] = None
  /\ tokens[c] # None /\ past.from[c] # None =>
       LET subject == past.from[c].token IN
       tokens[c].scopes \subseteq subject.scopes /\ tokens[c].exp <= subject.exp /\ subject.cnf \subseteq tokens[c].cnf
  /\ call[c].op = "exchange" /\ Holding(c) =>
       \A r \in call[c].after : GrantEnded(r) => call[c].given.token \in Calls

Tokens ==
  /\ DOMAIN tokens = TokenIds /\ DOMAIN past.from = Calls /\ DOMAIN past.told = TokenIds
  /\ ~grant => Gone
  /\ \A t \in TokenIds : TokenOf(t)
  /\ \A c \in Calls : ShowingOf(c) /\ IssuedOf(c)

\* A client knows its user by something.
LEMMA SubjectIsKnown ==
  ASSUME NEW client \in Client
  PROVE  SubjectFor(client, Account) \in Subjects \cup {Unresolved} /\ SubjectFor(client, Account) # None
<1>1. client.host \in Hosts /\ client.sector \in BOOLEAN
  BY DEF Client
<1>2. SubjectFor(client, Account) \in {Account, Unresolved} \cup {<<sector, Account>> : sector \in {"declared", "one"}}
  BY <1>1 DEF SubjectFor, HasSector, SectorOf, Hosts
<1>. QED BY <1>2, NamesAssumption DEF Subjects

\* At first the grant has its two tokens, and nothing was exchanged.
LEMMA TokensInit == Init => Tokens
<1>. SUFFICES ASSUME Init PROVE Tokens
  OBVIOUS
<1>1. /\ \A c \in Calls : call[c] = Idle
      /\ grant = TRUE /\ past.from = [c \in Calls |-> None]
      /\ past.told = [t \in TokenIds |-> IF tokens[t] = None THEN None ELSE tokens[t].subject]
      /\ past.bound = IF tokens[Root] = None THEN {} ELSE tokens[Root].cnf
  BY DEF Init
<1>2. None \notin Shown \cup {"revoke", "userinfo"}
  BY NamesAssumption DEF Ops, Shown
<1>3. \A c \in Calls : ~Ended(c) /\ ~InFlight(c) /\ call[c].op = None /\ call[c].answer = None /\ call[c].after = {}
  BY <1>1 DEF Idle, Ended, InFlight
<1>4. \A c \in Calls : ShowingOf(c)
  BY <1>2, <1>3 DEF ShowingOf, Holding, In, GrantEnded, Shown
<1>5. /\ DOMAIN tokens = TokenIds /\ \A c \in Calls : tokens[c] = None
      /\ \/ tokens[Root] = None /\ tokens[Refresh] = None
         \/ \E cnf, consumed :
              /\ tokens[Root] = Access(App, Account, Held, cnf, 1, None, SubjectFor(clients[App], Account), TRUE)
              /\ tokens[Refresh] =
                   [Access(App, Account, Held, IF clients[App].method = "none" THEN cnf ELSE {}, 2, None, None, TRUE)
                      EXCEPT !.kind = "refresh_token", !.consumed = consumed]
  <2>1. CASE scenario = "tokens"
    <3>1. PICK cnf, consumed : tokens = Issued(cnf, consumed)
      BY <2>1 DEF Init
    <3>2. Root \in TokenIds /\ Refresh \in TokenIds /\ Root # Refresh /\ \A c \in Calls : c \in TokenIds /\ c \notin {Root, Refresh}
      BY NamesAssumption DEF TokenIds
    <3>. QED BY <3>1, <3>2 DEF Issued
  <2>2. CASE scenario # "tokens"
    BY <2>2 DEF Init, TokenIds
  <2>. QED BY <2>1, <2>2
<1>6. \A t \in Calls : TokenOf(t) /\ IssuedOf(t)
  <2>1. \A t \in Calls : t \in TokenIds /\ past.told[t] = None
    BY <1>1, <1>5 DEF TokenIds
  <2>. QED BY <1>1, <1>2, <1>3, <1>5, <2>1 DEF TokenOf, IssuedOf, Holding, Shown
<1>7. ASSUME NEW cnf, NEW consumed,
             tokens[Root] = Access(App, Account, Held, cnf, 1, None, SubjectFor(clients[App], Account), TRUE),
             tokens[Refresh] =
                   [Access(App, Account, Held, IF clients[App].method = "none" THEN cnf ELSE {}, 2, None, None, TRUE)
                      EXCEPT !.kind = "refresh_token", !.consumed = consumed]
      PROVE  TokenOf(Root) /\ TokenOf(Refresh)
  <2>1. Root \in TokenIds /\ Refresh \in TokenIds /\ Root # Refresh /\ Root \notin Calls /\ Refresh \notin Calls
    BY NamesAssumption DEF TokenIds
  <2>2. ~FromRoot(Refresh)
    BY <2>1 DEF FromRoot
  <2>3. SubjectFor(clients[App], Account) # None
    <3>1. Clientele
      BY ClienteleInit
    <3>2. clients[App] \in Client
      <4>1. PICK registered \in Registered[scenario] :
              clients = [id \in ClientIds |-> IF id \in {App, Api} THEN Patched(registered[id], Operated(id)) ELSE None]
        BY DEF Init
      <4>2. Speaks(registered[App]) /\ App \in ClientIds
        BY RegisteredAssumption DEF Init, ClientIds
      <4>. QED BY <4>1, <4>2, PatchedClient, OperatedClient
    <3>. QED BY <3>2, SubjectIsKnown
  <2>4. TokenOf(Root)
    BY <1>1, <1>7, <2>1, <2>3 DEF TokenOf, Genuine, Access
  <2>5. TokenOf(Refresh)
    <3>1. PICK binding : tokens[Refresh] = [Access(App, Account, Held, binding, 2, None, None, TRUE)
                      EXCEPT !.kind = "refresh_token", !.consumed = consumed]
      BY <1>7
    <3>2. /\ tokens[Refresh].exp = 2 /\ tokens[Refresh].account = Account /\ tokens[Refresh].subject = None
          /\ tokens[Refresh].kind = "refresh_token" /\ tokens[Refresh].ofGrant
      BY <3>1 DEF Access
    <3>3. past.told[Refresh] = None
      BY <1>1, <2>1, <3>2
    <3>. QED BY <2>1, <2>2, <3>2, <3>3 DEF TokenOf, Genuine
  <2>. QED BY <2>4, <2>5
<1>8. TokenOf(Root) /\ TokenOf(Refresh)
  BY <1>5, <1>7 DEF TokenOf
<1>9. DOMAIN past.from = Calls /\ DOMAIN past.told = TokenIds
  BY <1>1
<1>. QED BY <1>1, <1>4, <1>5, <1>6, <1>8, <1>9 DEF Tokens, TokenIds

\* The parts give TokensStand.
LEMMA TokensHold == Common /\ Tokens => TokensStand
<1>. SUFFICES ASSUME Common, Tokens PROVE TokensStand
  OBVIOUS
<1>1. ExchangeNarrows
  BY DEF ExchangeNarrows, Tokens, IssuedOf
<1>2. BoundThroughout /\ SubjectAgrees
  BY DEF BoundThroughout, SubjectAgrees, Tokens, ShowingOf
<1>3. RevocationReaches
  <2>1. \A t \in Calls : t \in TokenIds
    BY DEF TokenIds
  <2>2. ASSUME NEW t \in Calls, NEW r \in Calls, tokens[t] # None, tokens[t].ofGrant, GrantEnded(r), r \in call[t].after
        PROVE  call[t].given.token \in Calls
    BY <2>1, <2>2 DEF Tokens, TokenOf, IssuedOf, Holding, Shown
  <2>. QED BY <2>2 DEF RevocationReaches, Tokens, Gone
<1>. QED BY <1>1, <1>2, <1>3 DEF TokensStand

-----------------------------------------------------------------------------
\* A token named by one that was over keeps what it was worth.
LEMMA GenuineStays ==
  ASSUME Tokens, NEW c \in Calls, past'.bound = past.bound,
         \A t \in TokenIds \ {c} : past'.told[t] = past.told[t],
         \A t \in Calls \ {c} : past'.from[t] = past.from[t],
         NEW t \in TokenIds, t # c
  PROVE  /\ FromRoot(t)' = FromRoot(t) /\ past'.told[t] = past.told[t]
         /\ \A token : Genuine(t, token) => Genuine(t, token)'
BY DEF FromRoot, Genuine

\* A step that stores at most its own token, and only under a grant there is.
LEMMA TokensKept ==
  ASSUME Common, Tokens, UNCHANGED setup, NEW c \in Calls, Moves(c), past'.bound = past.bound,
         DOMAIN tokens' = TokenIds, DOMAIN past'.from = Calls, DOMAIN past'.told = TokenIds,
         \A t \in TokenIds \ {c} : tokens'[t] \in {tokens[t], None} /\ past'.told[t] = past.told[t],
         \A t \in Calls \ {c} : past'.from[t] = past.from[t],
         ~grant' => Gone', TokenOf(c)', ShowingOf(c)', IssuedOf(c)'
  PROVE  Tokens'
<1>0. Root # c /\ Refresh # c /\ Root \in TokenIds /\ Refresh \in TokenIds /\ Calls \subseteq TokenIds
  BY NamesAssumption DEF TokenIds
<1>1. /\ Others(c) /\ ~Ended(c)
      /\ \A d \in Calls : Ended(d) => d # c /\ call'[d] = call[d] /\ Ended(d)'
  BY Frozen DEF Common
<1>2. Gone => Gone'
  BY <1>0 DEF Gone
<1>3. ASSUME NEW t \in TokenIds, t # c PROVE TokenOf(t)'
  <2>. SUFFICES ASSUME tokens'[t] # None PROVE TokenOf(t)'
    BY DEF TokenOf
  <2>1. tokens'[t] = tokens[t] /\ TokenOf(t)
    BY <1>3 DEF Tokens
  <2>2. Genuine(t, tokens[t])'
    BY <1>3, <2>1, GenuineStays DEF TokenOf
  <2>3. t \in Calls => call'[t] = call[t] /\ (Ended(t) => Ended(t)')
    BY <1>1, <1>3 DEF Others
  <2>. QED BY <2>1, <2>2, <2>3 DEF TokenOf
<1>4. ASSUME NEW d \in Calls, d # c PROVE ShowingOf(d)'
  <2>0. ShowingOf(d)
    BY DEF Tokens
  <2>1. call'[d] = call[d]
    BY <1>1, <1>4 DEF Others
  <2>2. Holding(d)' = Holding(d) /\ InFlight(d)' = InFlight(d) /\ GrantEnded(d)' = GrantEnded(d)
    BY <2>1 DEF Holding, InFlight, Ended, GrantEnded
  <2>3. \A op, pc : In(d, op, pc)' = In(d, op, pc)
    BY <2>1 DEF In
  <2>4. /\ In(d, "exchange", "policy") \/ In(d, "introspect", "owner") \/ In(d, "userinfo", "claims") => Holding(d)
        /\ call[d].op \in {"userinfo", "introspect"} /\ call[d].answer # None => Holding(d)
    BY DEF In, Holding, InFlight, Ended, Shown
  <2>5. CASE Holding(d)
    <3>1. PICK t \in TokenIds : t = call[d].given.token /\ t # c /\ (t \in Calls => Ended(t) /\ Ended(t)')
      BY <1>1, <2>0, <2>5 DEF ShowingOf
    <3>2. FromRoot(t)' = FromRoot(t) /\ past'.told[t] = past.told[t]
      BY <3>1, GenuineStays
    <3>3. \A token : Genuine(t, token) => Genuine(t, token)'
      BY <3>1, GenuineStays
    <3>4. In(d, "exchange", "policy") => Genuine(t, call[d].seen.subject)' /\ call[d].seen.client \in Client
      <4>1. In(d, "exchange", "policy") => Genuine(t, call[d].seen.subject) /\ call[d].seen.client \in Client
        BY <2>0, <3>1 DEF ShowingOf
      <4>. QED BY <2>1, <3>3, <4>1 DEF Genuine
    <3>5. In(d, "introspect", "owner") => Genuine(t, call[d].seen)'
      <4>1. In(d, "introspect", "owner") => Genuine(t, call[d].seen)
        BY <2>0, <3>1 DEF ShowingOf
      <4>. QED BY <2>1, <3>3, <4>1 DEF Genuine
    <3>6. In(d, "userinfo", "claims") => Genuine(t, call[d].seen)' /\ call[d].seen.cnf \subseteq call[d].given.binding
      <4>1. In(d, "userinfo", "claims") => Genuine(t, call[d].seen) /\ call[d].seen.cnf \subseteq call[d].given.binding
        BY <2>0, <3>1 DEF ShowingOf
      <4>. QED BY <2>1, <3>3, <4>1 DEF Genuine
    <3>. QED
      BY <1>2, <2>0, <2>1, <2>2, <2>3, <3>1, <3>2, <3>4, <3>5, <3>6 DEF ShowingOf
  <2>6. CASE ~Holding(d)
    BY <1>2, <2>0, <2>1, <2>2, <2>3, <2>4, <2>6 DEF ShowingOf
  <2>. QED BY <2>5, <2>6
<1>5. ASSUME NEW d \in Calls, d # c PROVE IssuedOf(d)'
  <2>1. IssuedOf(d) /\ call'[d] = call[d] /\ past'.from[d] = past.from[d] /\ tokens'[d] \in {tokens[d], None}
    BY <1>0, <1>1, <1>5 DEF Others, Tokens
  <2>5. past'.told[d] = past.told[d]
    BY <1>0, <1>5
  <2>2. Holding(d)' = Holding(d) /\ Ended(d)' = Ended(d)
    BY <2>1 DEF Holding, InFlight, Ended
  <2>3. \A r \in call[d].after : GrantEnded(r)' = GrantEnded(r)
    <3>1. \A r \in call[d].after : r \in Calls /\ Ended(r)
      BY CallNumbers DEF Common, Requested
    <3>. QED BY <1>1, <3>1 DEF GrantEnded
  <2>. QED BY <2>1, <2>2, <2>3, <2>5 DEF IssuedOf
<1>. QED BY <1>3, <1>4, <1>5 DEF Tokens

\* A step that issues nothing and takes nothing back.
LEMMA TokensStay ==
  ASSUME Common, Tokens, UNCHANGED setup, NEW c \in Calls, Moves(c), UNCHANGED <<tokens, grant, past>>,
         ShowingOf(c)', call'[c].op = "exchange" /\ Holding(c)' =>
           \A r \in call'[c].after : GrantEnded(r)' => call'[c].given.token \in Calls
  PROVE  Tokens'
<1>1. ~Ended(c)
  BY Frozen DEF Common
<1>2. tokens[c] = None /\ past.from[c] = None /\ past.told[c] = None
  BY <1>1 DEF Tokens, IssuedOf
<1>3. TokenOf(c)' /\ IssuedOf(c)'
  BY <1>2 DEF TokenOf, IssuedOf
<1>4. ~grant' => Gone'
  BY DEF Tokens, Gone
<1>. QED BY <1>3, <1>4, TokensKept DEF Tokens

\* A request that shows no token knows nothing of one.
LEMMA Unshown ==
  ASSUME NEW c \in Calls, call'[c].op \notin Shown
  PROVE  ShowingOf(c)'
BY DEF ShowingOf, Holding, In, Shown, GrantEnded

\* A request for a token begins, and the token is read.
LEMMA ExchangeNext ==
  ASSUME Common, Clientele, Tokens, UNCHANGED setup, NEW c \in Calls, Exchange(c)
  PROVE  Tokens'
<1>1. PICK who, t, binding :
        /\ who \in {App, Api} /\ t \in TokenIds /\ Asks(who) /\ IsLive(t)
        /\ Begin(c, "exchange", [token |-> t, client |-> who, binding |-> binding], "policy",
                [subject |-> tokens[t], client |-> clients[who]], None)
        /\ Keep /\ UNCHANGED past
  BY DEF Exchange
<1>. who \in {App, Api} /\ t \in TokenIds
  BY <1>1
<1>2. Starts(c) /\ "exchange" \in Ops /\ Fits("exchange") /\ UNCHANGED <<tokens, grant, past>>
  BY <1>1 DEF Exchange, Ops, Fits, Keep, stores
<1>3. /\ Moves(c) /\ Opened(c) /\ call'[c].op = "exchange" /\ call'[c].pc = "policy"
      /\ call'[c].given = [token |-> t, client |-> who, binding |-> binding]
      /\ call'[c].seen = [subject |-> tokens[t], client |-> clients[who]]
      /\ call'[c].answer = None
  BY <1>1, <1>2, Enters
<1>4. tokens[t] # None /\ clients[who] \in Client
  BY <1>1, NamesAssumption DEF IsLive, Asks, Clientele, ClientIds
<1>5. t \in Calls => Ended(t)
  BY <1>4 DEF Tokens, TokenOf
<1>6. t # c /\ (t \in Calls => Ended(t)')
  <2>1. c \in Calls /\ ~Ended(c)
    BY <1>3, Frozen DEF Common
  <2>. QED BY <1>3, <1>5, <2>1, Frozen DEF Common
<1>7. Genuine(t, tokens[t])'
  <2>1. Genuine(t, tokens[t])
    BY <1>4 DEF Tokens, TokenOf
  <2>. QED BY <1>2, <2>1 DEF Genuine, FromRoot
<1>8. ShowingOf(c)'
  <2>1. Genuine(call[c].given.token, call[c].seen.subject)'
    BY <1>2, <1>3, <1>7 DEF Genuine
  <2>. QED BY <1>3, <1>4, <1>6, <2>1 DEF ShowingOf, In, GrantEnded
<1>9. \A r \in call'[c].after : GrantEnded(r)' => t \in Calls
  <2>. SUFFICES ASSUME NEW r \in Calls, Ended(r), GrantEnded(r)' PROVE t \in Calls
    BY <1>3 DEF Opened
  <2>1. GrantEnded(r)
    BY <1>3, Frozen DEF GrantEnded, Common
  <2>2. Gone
    BY <2>1 DEF Tokens, ShowingOf
  <2>. QED BY <1>4, <2>2 DEF Gone, TokenIds
<1>. QED BY <1>2, <1>3, <1>8, <1>9, TokensStay

\* Introspection and UserInfo read the token they are shown.
LEMMA ReadNext ==
  ASSUME Common, Clientele, Tokens, UNCHANGED setup, NEW c \in Calls, Introspect(c) \/ UserInfo(c)
  PROVE  Tokens'
<1>1. ASSUME NEW op \in {"introspect", "userinfo"}, NEW given, NEW pc \in {"done", "failed", "owner", "claims"}, NEW seen,
             Begin(c, op, given, pc, seen, None)
      PROVE  /\ Moves(c) /\ call'[c].op = op /\ call'[c].pc = pc /\ UNCHANGED <<tokens, grant, past>>
             /\ call'[c].given = given /\ call'[c].seen = seen /\ call'[c].answer = None
  <2>1. Starts(c) /\ op \in Ops /\ Fits(op) /\ UNCHANGED <<tokens, grant, past>>
    BY DEF Introspect, UserInfo, Ops, Fits, Keep, stores
  <2>. QED BY <1>1, <2>1, Enters
<1>2. ASSUME NEW op \in {"introspect", "userinfo"}, NEW pc \in {"done", "failed"}, Begin(c, op, None, pc, None, None)
      PROVE  Tokens'
  <2>1. /\ Moves(c) /\ call'[c].op = op /\ call'[c].pc = pc /\ UNCHANGED <<tokens, grant, past>>
        /\ call'[c].answer = None
    BY <1>1, <1>2
  <2>2. ShowingOf(c)'
    BY <2>1 DEF ShowingOf, In, GrantEnded, Holding, InFlight, Ended
  <2>. QED BY <2>1, <2>2, TokensStay
<1>3. ASSUME NEW op \in {"introspect", "userinfo"}, NEW t \in TokenIds, NEW given, given.token = t, IsLive(t),
             NEW pc \in {"owner", "claims"}, Begin(c, op, given, pc, tokens[t], None),
             op = "userinfo" => tokens[t].cnf \subseteq given.binding
      PROVE  Tokens'
  <2>1. /\ Moves(c) /\ call'[c].op = op /\ call'[c].pc = pc /\ UNCHANGED <<tokens, grant, past>>
        /\ call'[c].given = given /\ call'[c].seen = tokens[t] /\ call'[c].answer = None
    BY <1>1, <1>3
  <2>2. Genuine(t, tokens[t]) /\ (t \in Calls => Ended(t))
    BY <1>3 DEF Tokens, TokenOf, IsLive
  <2>3. t \in Calls => Ended(t)'
    BY <2>1, <2>2, Frozen DEF Common
  <2>4. Genuine(call[c].given.token, call[c].seen)'
    BY <1>3, <2>1, <2>2 DEF Genuine, FromRoot
  <2>5. ShowingOf(c)'
    BY <1>3, <2>1, <2>3, <2>4 DEF ShowingOf, In, GrantEnded
  <2>. QED BY <2>1, <2>5, TokensStay
<1>4. CASE Introspect(c)
  <2>1. PICK t \in TokenIds :
          \/ Begin(c, "introspect", None, "done", None, None)
          \/ Begin(c, "introspect", [token |-> t], "owner", tokens[t], None) /\ IsLive(t)
    BY <1>4 DEF Introspect
  <2>2. [token |-> t].token = t
    OBVIOUS
  <2>. QED BY <1>2, <1>3, <2>1, <2>2
<1>5. CASE UserInfo(c)
  <2>1. PICK t \in TokenIds, binding \in Bindings :
          \/ Begin(c, "userinfo", None, "failed", None, None)
          \/ /\ Begin(c, "userinfo", [token |-> t, binding |-> binding], "claims", tokens[t], None)
             /\ IsLive(t) /\ tokens[t].cnf \subseteq binding
    BY <1>5 DEF UserInfo, Presented
  <2>2. [token |-> t, binding |-> binding].token = t /\ [token |-> t, binding |-> binding].binding = binding
    OBVIOUS
  <2>. QED BY <1>2, <1>3, <2>1, <2>2
<1>. QED BY <1>4, <1>5

\* A revocation begins with a token that lives.
LEMMA RevokeNext ==
  ASSUME Common, Clientele, Tokens, UNCHANGED setup, NEW c \in Calls, Revoke(c)
  PROVE  Tokens'
<1>1. PICK t \in TokenIds :
        /\ IsLive(t)
        /\ Begin(c, "revoke", [token |-> t], IF tokens[t].kind = "refresh_token" THEN "tokens" ELSE "destroy", None, None)
        /\ Keep /\ UNCHANGED past
  BY DEF Revoke
<1>2. Starts(c) /\ "revoke" \in Ops /\ Fits("revoke") /\ UNCHANGED <<tokens, grant, past>>
  BY <1>1 DEF Revoke, Ops, Fits, Keep, stores
<1>3. /\ Moves(c) /\ Opened(c) /\ call'[c].op = "revoke"
      /\ call'[c].pc = (IF tokens[t].kind = "refresh_token" THEN "tokens" ELSE "destroy")
      /\ call'[c].given = [token |-> t] /\ call'[c].answer = None
  BY <1>1, <1>2, Enters
<1>4. tokens[t] # None /\ (t = Refresh => tokens[t].kind = "refresh_token") /\ (t \in Calls => Ended(t))
  BY <1>1 DEF IsLive, Tokens, TokenOf
<1>5. t \in Calls => Ended(t)'
  BY <1>3, <1>4, Frozen DEF Common
<1>6. None # "ok"
  BY NamesAssumption DEF Outcomes
<1>7. ShowingOf(c)'
  BY <1>3, <1>4, <1>5, <1>6 DEF ShowingOf, In, GrantEnded
<1>. QED BY <1>2, <1>3, <1>7, TokensStay

\* A token is described, or its claims are told.
LEMMA AnswersNext ==
  ASSUME Common, Clientele, Tokens, UNCHANGED setup, NEW c \in Calls, Describe(c) \/ Claims(c)
  PROVE  Tokens'
<1>1. PICK t : t = call[c].given.token
  OBVIOUS
<1>2. PICK token : token = call[c].seen
  OBVIOUS
<1>3. /\ InFlight(c) /\ Requested /\ UNCHANGED <<tokens, grant, past>>
      /\ call[c].op \in {"introspect", "userinfo"}
  BY InIsInFlight DEF Describe, Claims, In, Common, Keep, stores
<1>4. /\ t \in TokenIds /\ (t \in Calls => Ended(t)) /\ Genuine(t, token)
      /\ In(c, "userinfo", "claims") => token.cnf \subseteq call[c].given.binding
  <2>1. Holding(c)
    BY <1>3 DEF Holding, Shown
  <2>2. ShowingOf(c)
    BY DEF Tokens
  <2>. QED BY <1>1, <1>2, <2>1, <2>2 DEF ShowingOf, Describe, Claims
<1>5. \/ Throw(c)
      \/ \E sub : /\ Answer(c, [sub |-> sub])
                  /\ sub # None => t = Refresh \/ sub = token.subject
  <2>1. CASE Describe(c)
    <3>1. \/ Throw(c) \/ Answer(c, [sub |-> None])
          \/ Answer(c, [sub |-> SubjectOf(token)]) /\ token.account # None
      BY <1>2, <2>1 DEF Describe
    <3>2. token.account # None /\ t # Refresh => SubjectOf(token) = token.subject
      BY <1>4 DEF Genuine, SubjectOf
    <3>. QED BY <3>1, <3>2
  <2>2. CASE Claims(c)
    <3>1. Answer(c, [sub |-> IF token.subject # None THEN token.subject ELSE token.account])
      BY <1>2, <2>2 DEF Claims
    <3>2. t # Refresh /\ token.subject = None => token.account = None
      BY <1>4 DEF Genuine
    <3>. QED BY <3>1, <3>2
  <2>. QED BY <2>1, <2>2
<1>6. CASE Throw(c)
  <2>1. Moves(c) /\ call'[c].op = call[c].op /\ call'[c].pc = "failed" /\ call'[c].answer = None
    BY <1>3, <1>6, Throws DEF Kept
  <2>2. ShowingOf(c)'
    BY <1>3, <2>1 DEF ShowingOf, In, GrantEnded, Holding, InFlight, Ended
  <2>. QED BY <1>3, <2>1, <2>2, TokensStay
<1>7. ASSUME NEW sub, Answer(c, [sub |-> sub]), sub # None => t = Refresh \/ sub = token.subject PROVE Tokens'
  <2>1. /\ Moves(c) /\ call'[c].op = call[c].op /\ call'[c].pc = "done" /\ call'[c].answer = [sub |-> sub]
        /\ call'[c].given = call[c].given
    BY <1>3, <1>7, Answers DEF Kept
  <2>2. t \in Calls => Ended(t)'
    BY <1>4, <2>1, Frozen DEF Common
  <2>3. token.subject = past'.told[t] /\ (FromRoot(t)' => past'.bound \subseteq token.cnf)
    BY <1>3, <1>4 DEF Genuine, FromRoot
  <2>4. call[c].op = "userinfo" => token.cnf \subseteq call[c].given.binding
    BY <1>4 DEF Describe, Claims, In
  <2>5. ShowingOf(c)'
    BY <1>1, <1>3, <1>4, <1>7, <2>1, <2>2, <2>3, <2>4 DEF ShowingOf, In, GrantEnded
  <2>. QED BY <1>3, <2>1, <2>5, TokensStay
<1>. QED BY <1>5, <1>6, <1>7

\* An exchange the host declines, and a revocation that breaks off, store nothing.
LEMMA DeclinedNext ==
  ASSUME Common, Clientele, Tokens, UNCHANGED setup, NEW c \in Calls,
         Declined(c) \/ (Crash(c) /\ call[c].op = "revoke")
  PROVE  Tokens'
<1>1. InFlight(c) /\ Requested /\ UNCHANGED <<tokens, grant, past>>
  BY InIsInFlight DEF Declined, Crash, Common, Keep, stores
<1>2. CASE Declined(c)
  <2>1. Moves(c) /\ call'[c].op = "exchange" /\ call'[c].pc = "failed" /\ call'[c].answer = None
    BY <1>1, <1>2, Throws DEF Kept, Declined, In
  <2>2. ShowingOf(c)' /\ ~Holding(c)'
    BY <2>1 DEF ShowingOf, In, GrantEnded, Holding, InFlight, Ended
  <2>. QED BY <1>1, <2>1, <2>2, TokensStay
<1>3. CASE Crash(c) /\ call[c].op = "revoke"
  <2>1. Moves(c) /\ call'[c].op = "revoke" /\ call'[c].pc = "dead" /\ call'[c].answer = None
    <3>1. call' = [call EXCEPT ![c].pc = "dead"] /\ "dead" \in {"failed", "dead"}
      BY <1>3 DEF Crash
    <3>. QED BY <1>1, <1>3, <3>1, Stops DEF Kept
  <2>2. ShowingOf(c)'
    BY <2>1, NamesAssumption DEF ShowingOf, In, GrantEnded, Holding, InFlight, Ended, Outcomes
  <2>. QED BY <1>1, <2>1, <2>2, TokensStay
<1>. QED BY <1>2, <1>3

\* A client is issued a token for itself.
LEMMA CredentialsNext ==
  ASSUME Common, Clientele, Tokens, UNCHANGED setup, NEW c \in Calls, ClientCredentials(c)
  PROVE  Tokens'
<1>1. PICK who, scopes, binding, aud :
        /\ tokens' = [tokens EXCEPT ![c] = Access(who, None, scopes, binding, now + AccessTtl, aud, None, FALSE)]
        /\ Begin(c, "credentials", None, "done", None, "issued") /\ UNCHANGED <<grant, past>>
  BY DEF ClientCredentials
<1>2. Starts(c) /\ "credentials" \in Ops /\ Fits("credentials")
  BY DEF ClientCredentials, Ops, Fits
<1>3. Moves(c) /\ Opened(c) /\ call'[c].op = "credentials" /\ call'[c].pc = "done" /\ call'[c].answer = "issued"
  BY <1>1, <1>2, Enters
<1>4. ShowingOf(c)' /\ ~Holding(c)'
  BY <1>3, Unshown DEF Shown, Holding
<1>5. c \in TokenIds /\ c \notin {Root, Refresh} /\ ~Ended(c) /\ DOMAIN tokens = TokenIds
  BY <1>3, NamesAssumption, Frozen DEF TokenIds, Common, Tokens
<1>6. tokens[c] = None /\ past.from[c] = None /\ past.told[c] = None
  BY <1>5 DEF Tokens, IssuedOf
<1>7. now + AccessTtl \in Nat /\ "issued" # None
  <2>1. now + AccessTtl \in Nat
    BY AccessTtlAssumption DEF Common
  <2>. QED BY <2>1, NamesAssumption DEF Outcomes
<1>8. PICK exp \in Nat : exp = now + AccessTtl
  BY <1>7
<1>9. tokens'[c] = Access(who, None, scopes, binding, exp, aud, None, FALSE)
  BY <1>1, <1>5, <1>8
<1>10. TokenOf(c)'
  BY <1>1, <1>3, <1>5, <1>6, <1>7, <1>9 DEF TokenOf, Genuine, FromRoot, Access, Ended
<1>11. IssuedOf(c)'
  BY <1>1, <1>3, <1>4, <1>6 DEF IssuedOf, Ended
<1>12. ~grant' => Gone'
  BY <1>1, <1>5 DEF Tokens, Gone, TokenIds
<1>. QED BY <1>1, <1>3, <1>4, <1>5, <1>10, <1>11, <1>12, TokensKept DEF Tokens

\* A token is issued for another.
LEMMA ExchangedNext ==
  ASSUME Common, Clientele, Tokens, UNCHANGED setup, NEW c \in Calls, Exchanged(c)
  PROVE  Tokens'
<1>1. PICK t, subject, client, binding, sub :
        /\ t = call[c].given.token /\ subject = call[c].seen.subject /\ client = call[c].seen.client
        /\ binding = call[c].given.binding /\ sub = SubjectFor(client, subject.account)
  OBVIOUS
<1>2. PICK scopes, aud :
        /\ scopes \subseteq subject.scopes /\ subject.cnf \subseteq binding /\ sub # Unresolved /\ subject.account # None
        /\ IssueAccessToken(c, Access(call[c].given.client, subject.account, scopes, binding,
                                      ExchangedExp(subject), aud, sub, subject.ofGrant),
                            [token |-> subject, root |-> FromRoot(t)])
  BY <1>1 DEF Exchanged, OnlyHeld, Holder
<1>3. In(c, "exchange", "policy") /\ InFlight(c) /\ Requested /\ Holding(c) /\ call[c].op = "exchange"
  BY InIsInFlight DEF Exchanged, In, Common, Holding, Shown
<1>4. /\ Moves(c) /\ Kept(c) /\ call'[c].op = "exchange" /\ call'[c].pc = "done" /\ call'[c].answer = "issued"
      /\ call'[c].given = call[c].given
  BY <1>2, <1>3, Answers DEF IssueAccessToken, Kept
<1>5. /\ t \in TokenIds /\ (t \in Calls => Ended(t)) /\ Genuine(t, subject) /\ client \in Client
  BY <1>1, <1>3 DEF Tokens, ShowingOf
<1>6. c \in TokenIds /\ c \notin {Root, Refresh} /\ ~Ended(c) /\ t # c
  BY <1>3, <1>5, NamesAssumption DEF TokenIds, InFlight
<1>7. ExchangedExp(subject) \in Nat /\ ExchangedExp(subject) <= subject.exp
  <2>1. PICK exp \in Nat, ttl \in Nat : exp = subject.exp /\ ttl = now + AccessTtl
    BY <1>5, AccessTtlAssumption DEF Genuine, Common
  <2>. QED BY <2>1 DEF ExchangedExp, Earliest
<1>8. PICK exp \in Nat : exp = ExchangedExp(subject) /\ exp <= subject.exp
  BY <1>7
<1>9. sub # None /\ subject.account \in {None, Account}
  BY <1>1, <1>2, <1>5, SubjectIsKnown DEF Genuine
<1>10. PICK token : token = Access(call[c].given.client, subject.account, scopes, binding, exp, aud, sub, subject.ofGrant)
  OBVIOUS
<1>11. /\ token.exp = exp /\ token.account = subject.account /\ token.subject = sub /\ token.cnf = binding
       /\ token.scopes = scopes
  BY <1>10 DEF Access
<1>12. /\ tokens' = [tokens EXCEPT ![c] = token] /\ UNCHANGED grant
       /\ past' = [past EXCEPT !.from[c] = [token |-> subject, root |-> FromRoot(t)], !.told[c] = token.subject]
  BY <1>2, <1>8, <1>10 DEF IssueAccessToken
<1>13. /\ DOMAIN tokens' = TokenIds /\ tokens'[c] = token /\ \A d \in TokenIds \ {c} : tokens'[d] = tokens[d]
  BY <1>6, <1>12 DEF Tokens
<1>14. /\ DOMAIN past'.from = Calls /\ DOMAIN past'.told = TokenIds /\ past'.bound = past.bound
       /\ past'.from[c] = [token |-> subject, root |-> FromRoot(t)] /\ past'.told[c] = sub
       /\ \A d \in Calls \ {c} : past'.from[d] = past.from[d]
       /\ \A d \in TokenIds \ {c} : past'.told[d] = past.told[d]
  BY <1>6, <1>11, <1>12 DEF Tokens, Common, Memory
<1>15. FromRoot(c)' => past'.bound \subseteq token.cnf
  <2>1. FromRoot(c)' => FromRoot(t)
    <3>1. past'.from[c].root = FromRoot(t)
      BY <1>14
    <3>2. FromRoot(c)' => past'.from[c].root
      BY <1>6 DEF FromRoot
    <3>. QED BY <3>1, <3>2
  <2>. QED BY <1>2, <1>5, <1>11, <1>14, <2>1 DEF Genuine
<1>16. "issued" # None /\ Ended(c)'
  BY <1>4, NamesAssumption DEF Outcomes, Ended
<1>17. TokenOf(c)'
  BY <1>4, <1>6, <1>8, <1>9, <1>11, <1>13, <1>14, <1>15, <1>16 DEF TokenOf, Genuine
<1>18. t \in Calls => Ended(t)'
  BY <1>4, <1>5, Frozen DEF Common
<1>19. ShowingOf(c)'
  BY <1>1, <1>4, <1>5, <1>18 DEF ShowingOf, In, GrantEnded
<1>20. IssuedOf(c)'
  <2>1. tokens'[c].scopes \subseteq subject.scopes /\ tokens'[c].exp <= subject.exp /\ subject.cnf \subseteq tokens'[c].cnf
    BY <1>2, <1>8, <1>11, <1>13
  <2>2. ASSUME NEW r \in call'[c].after, GrantEnded(r)' PROVE call'[c].given.token \in Calls
    <3>1. r \in Calls /\ Ended(r) /\ r \in call[c].after
      BY <1>4, <2>2, CallNumbers DEF Common, Requested, Kept
    <3>2. GrantEnded(r)
      BY <1>4, <2>2, <3>1, Frozen DEF GrantEnded, Common
    <3>. QED BY <1>3, <1>4, <3>1, <3>2 DEF Tokens, IssuedOf
  <2>. QED BY <1>14, <1>16, <2>1, <2>2 DEF IssuedOf
<1>21. ~grant' => Gone'
  BY <1>6, <1>12, <1>13 DEF Tokens, Gone, TokenIds
<1>. QED BY <1>4, <1>13, <1>14, <1>17, <1>19, <1>20, <1>21, TokensKept

\* Tokens go, and in the end their grant.
LEMMA RevokedNext ==
  ASSUME Common, Clientele, Tokens, UNCHANGED setup, NEW c \in Calls, RevokeOne(c) \/ RevokeByGrantId(c) \/ DestroyGrant(c)
  PROVE  Tokens'
<1>1. /\ InFlight(c) /\ Requested /\ call[c].op = "revoke" /\ Holding(c) /\ UNCHANGED past
      /\ call[c].pc \in {"destroy", "tokens", "grant"}
  BY InIsInFlight DEF RevokeOne, RevokeByGrantId, DestroyGrant, In, Common, Holding, Shown
<1>2. /\ DOMAIN tokens' = TokenIds /\ \A t \in TokenIds : tokens'[t] \in {tokens[t], None}
      /\ RevokeByGrantId(c) => \A t \in TokenIds : tokens'[t] # None => ~tokens[t].ofGrant
  BY DEF RevokeOne, RevokeByGrantId, DestroyGrant, Tokens
<1>3. /\ Moves(c) /\ call'[c].op = "revoke" /\ call'[c].given = call[c].given
      /\ RevokeByGrantId(c) => call'[c].pc = "grant" /\ call'[c].answer = None
      /\ ~RevokeByGrantId(c) => call'[c].pc = "done" /\ call'[c].answer = "ok"
  <2>1. CASE RevokeByGrantId(c)
    <3>1. Go(c, "grant", None) /\ call[c].answer = None
      BY <1>1, <2>1 DEF RevokeByGrantId, Requested, InFlight
    <3>. QED BY <1>1, <2>1, <3>1, Goes DEF Kept
  <2>2. CASE ~RevokeByGrantId(c)
    <3>1. Answer(c, "ok")
      BY <2>2 DEF RevokeOne, DestroyGrant
    <3>. QED BY <1>1, <2>2, <3>1, Answers DEF Kept
  <2>. QED BY <2>1, <2>2
<1>4. c \in TokenIds /\ Root \in TokenIds /\ Refresh \in TokenIds
  BY DEF TokenIds
<1>5. Gone => Gone'
  BY <1>2, <1>4 DEF Gone
<1>6. DestroyGrant(c) => Gone
  BY DEF DestroyGrant, Tokens, ShowingOf
<1>7. RevokeByGrantId(c) => Gone'
  BY <1>2, <1>4 DEF Tokens, TokenOf, Gone
<1>8. RevokeOne(c) => call[c].given.token # Refresh
  BY DEF RevokeOne, Tokens, ShowingOf
<1>9. ~grant' => Gone'
  BY <1>5, <1>6 DEF RevokeOne, RevokeByGrantId, DestroyGrant, Tokens
<1>10. ~Ended(c) /\ tokens[c] = None /\ past.from[c] = None /\ past.told[c] = None /\ tokens'[c] = None
  BY <1>1, <1>2, <1>4 DEF InFlight, Tokens, IssuedOf
<1>11. TokenOf(c)' /\ IssuedOf(c)'
  BY <1>1, <1>3, <1>10 DEF TokenOf, IssuedOf
<1>12. ShowingOf(c)'
  <2>1. call[c].given.token \in TokenIds /\ (call[c].given.token \in Calls => Ended(call[c].given.token))
    BY <1>1 DEF Tokens, ShowingOf
  <2>2. call[c].given.token \in Calls => Ended(call[c].given.token)'
    BY <1>3, <2>1, Frozen DEF Common
  <2>3. GrantEnded(c)' => ~RevokeByGrantId(c)
    BY <1>3, NamesAssumption DEF GrantEnded, Outcomes
  <2>4. GrantEnded(c)' => DestroyGrant(c)
    BY <1>3, <1>8, <2>3 DEF GrantEnded
  <2>5. In(c, "revoke", "grant")' => RevokeByGrantId(c)
    BY <1>3 DEF In
  <2>6. ~In(c, "revoke", "destroy")'
    BY <1>3 DEF In
  <2>. QED BY <1>3, <1>5, <1>6, <1>7, <2>1, <2>2, <2>4, <2>5, <2>6 DEF ShowingOf, In
<1>. QED BY <1>1, <1>2, <1>3, <1>9, <1>11, <1>12, TokensKept DEF Tokens

\* A request that is about something else.
LEMMA ElsewhereNext ==
  ASSUME Common, Tokens, UNCHANGED setup, NEW c \in Calls, Moves(c), call'[c].op \notin Shown,
         UNCHANGED <<tokens, grant>>, \A part \in {"from", "told", "bound"} : past'[part] = past[part]
  PROVE  Tokens'
<1>1. ~Ended(c) /\ ShowingOf(c)' /\ ~Holding(c)'
  BY Frozen, Unshown DEF Common, Holding
<1>2. tokens[c] = None /\ past.from[c] = None /\ past.told[c] = None
  BY <1>1 DEF Tokens, IssuedOf
<1>3. past'.from = past.from /\ past'.told = past.told /\ past'.bound = past.bound
  OBVIOUS
<1>4. TokenOf(c)' /\ IssuedOf(c)'
  BY <1>1, <1>2, <1>3 DEF TokenOf, IssuedOf, Holding, Shown
<1>5. ~grant' => Gone'
  BY DEF Tokens, Gone
<1>. QED BY <1>1, <1>3, <1>4, <1>5, TokensKept DEF Tokens

\* Every step keeps what tokens are worth.
LEMMA TokensNext == Common /\ Clientele /\ Tokens /\ [Next]_all => Tokens'
<1>. SUFFICES ASSUME Common, Clientele, Tokens, [Next]_all PROVE Tokens'
  OBVIOUS
<1>1. ASSUME UNCHANGED <<setup, tokens, grant, call, past>> PROVE Tokens'
  <2>1. \A d \in Calls : In(d, "exchange", "policy")' = In(d, "exchange", "policy") /\ TokenOf(d)' = TokenOf(d)
    BY <1>1 DEF In, TokenOf, Genuine, FromRoot, Ended
  <2>2. \A t \in TokenIds : TokenOf(t)' = TokenOf(t)
    BY <1>1 DEF TokenOf, Genuine, FromRoot, Ended
  <2>3. \A d \in Calls : ShowingOf(d)' = ShowingOf(d)
    BY <1>1 DEF ShowingOf, Holding, InFlight, Ended, In, Genuine, FromRoot, GrantEnded, Gone
  <2>4. \A d \in Calls : IssuedOf(d)' = IssuedOf(d)
    BY <1>1 DEF IssuedOf, Holding, InFlight, Ended, GrantEnded
  <2>. QED BY <1>1, <2>2, <2>3, <2>4 DEF Tokens, Gone
<1>2. CASE UNCHANGED all
  BY <1>1, <1>2 DEF all, stores
<1>3. ASSUME Next PROVE Tokens'
  <2>1. UNCHANGED setup /\ DOMAIN past = Memory /\ Requested
    BY <1>3 DEF Next, Common
  <2>2. CASE Tick \/ Publish
    BY <1>1, <2>1, <2>2 DEF Tick, stores, Publish, others
  <2>3. ASSUME NEW c \in Calls, scenario # "tokens", Moves(c), Scripted',
               UNCHANGED <<tokens, grant>>, \A part \in {"from", "told", "bound"} : past'[part] = past[part]
        PROVE  Tokens'
    <3>1. call'[c].pc # "idle"
      BY <2>3 DEF Moves, Opened, Continued
    <3>2. Fits(call[c].op)'
      BY <2>3, <3>1 DEF Scripted
    <3>3. call'[c].op \notin Shown
      BY <2>1, <2>3, <3>2 DEF Fits, Shown, setup
    <3>. QED BY <2>1, <2>3, <3>3, ElsewhereNext
  <2>4. ASSUME NEW c \in Calls, scenario # "tokens", ClientSteps(c) \/ Crash(c) PROVE Tokens'
    BY <2>1, <2>3, <2>4, ClientMoves, CrashMoves, ClientsKeep DEF others, stores
  <2>5. ASSUME NEW c \in Calls, scenario # "tokens", ProofSteps(c) PROVE Tokens'
    <3>1. UNCHANGED <<tokens, grant>> /\ \A part \in {"from", "told", "bound"} : past'[part] = past[part]
      BY <2>1, <2>5 DEF ProofSteps, PresentAssertion, Prove, CheckNonce, Use, unproved, Memory
    <3>. QED BY <2>1, <2>3, <2>5, <3>1, ProofMoves
  <2>6. ASSUME NEW c \in Calls, scenario # "tokens", LogoutSteps(c) PROVE Tokens'
    <3>1. UNCHANGED <<tokens, grant>> /\ \A part \in {"from", "told", "bound"} : past'[part] = past[part]
      BY <2>1, <2>6, LogoutKeeps DEF ended, Memory
    <3>. QED BY <2>1, <2>3, <2>6, <3>1, LogoutMoves
  <2>7. ASSUME NEW c \in Calls, Revises(c) PROVE Tokens'
    <3>1. Moves(c) /\ UNCHANGED <<tokens, grant, past>>
      BY <2>1, <2>7, ClientMoves, ClientsKeep DEF others, Revises, ClientSteps, Upsert
    <3>2. call'[c].op = "update"
      BY <2>1, <2>7, UpdateBegins, WriteEnds, InIsInFlight DEF Revises, Kept, In
    <3>. QED BY <2>1, <3>1, <3>2, ElsewhereNext DEF Shown
  <2>8. ASSUME NEW c \in Calls, TokenSteps(c) PROVE Tokens'
    <3>1. CASE ClientCredentials(c) \/ Exchange(c) \/ Exchanged(c) \/ Declined(c)
      BY <2>1, <3>1, CredentialsNext, ExchangeNext, ExchangedNext, DeclinedNext
    <3>2. CASE Introspect(c) \/ UserInfo(c) \/ Describe(c) \/ Claims(c)
      BY <2>1, <3>2, ReadNext, AnswersNext
    <3>3. CASE Revoke(c) \/ RevokeOne(c) \/ RevokeByGrantId(c) \/ DestroyGrant(c)
      BY <2>1, <3>3, RevokeNext, RevokedNext
    <3>. QED BY <2>8, <3>1, <3>2, <3>3 DEF TokenSteps
  <2>9. ASSUME NEW c \in Calls, Crash(c), call[c].op = "revoke" PROVE Tokens'
    BY <2>1, <2>9, DeclinedNext
  <2>10. CASE scenario = "tokens"
    BY <1>3, <2>2, <2>7, <2>8, <2>9, <2>10, Scenes
  <2>11. CASE scenario # "tokens"
    BY <1>3, <2>2, <2>4, <2>5, <2>6, <2>8, <2>11 DEF Next
  <2>. QED BY <2>10, <2>11
<1>. QED BY <1>2, <1>3

-----------------------------------------------------------------------------
(* A stored client is what its registration, its operator and its host made it. *)

Identity == {"secret", "access", "createdAt"}

\* A client is let off the challenge only by whoever may.
Spared(client) == client.requirePkce \/ client.vouched

\* What is a client's own.
Drawn(d, secret) == call[d].op = "put" /\ call[d].answer = "stored" /\ call[d].seen.found = None /\ secret = d
Own(id, client) ==
  /\ client.access = id /\ client.createdAt = id
  /\ client.secret \in {None, id} \/ \E d \in Calls : Drawn(d, client.secret)

\* Whoever stores a client that is gone, had found it in time or creates it.
StoredAnyway(d, id, e) == Stores(e, id) /\ (call[e].op = "create" \/ d \notin call[e].after)
KnownOf(id) == clients[id] # None =>
  /\ Spared(clients[id])
  /\ id \in Calls => Ended(id) /\ (Left(id, Identity) => Own(id, clients[id]))
  /\ id # Document => \A d \in Calls : Ends(d, id) => \E e \in Calls : StoredAnyway(d, id, e)

StoringOf(c) == Storing(c) =>
  /\ Spared(call[c].seen.record)
  /\ call[c].op = "post" => call[c].seen.id = c
  /\ call[c].op = "create" => call[c].seen.id \notin Calls
  /\ call[c].seen.id \in Calls /\ Left(call[c].seen.id, Identity) =>
       \/ Own(call[c].seen.id, call[c].seen.record)
       \/ /\ call[c].op = "put" /\ call[c].seen.found = None
          /\ call[c].seen.record.access = call[c].seen.id /\ call[c].seen.record.createdAt = call[c].seen.id
          /\ call[c].seen.record.secret = c
LateOf(c) == call[c].op \in {"put", "update"} /\ (Storing(c) \/ call[c].answer = "stored") /\ call[c].seen.id # Document =>
  \A d \in call[c].after : Ends(d, call[c].seen.id) =>
    \E e \in Calls \ {c} : StoredAnyway(d, call[c].seen.id, e)
NamedOf(c) == call[c].op \in {"put", "update", "delete", "destroy"} /\ (InFlight(c) \/ call[c].answer = "gone")
    /\ call[c].seen.id \in Calls
  => Ended(call[c].seen.id)
VisitOf(c) == call[c].op = "visit" /\ call[c].answer = "goes on" /\ ~call[c].given.challenge
  => call[c].seen.vouched /\ call[c].seen.method # "none"
RequestOf(c) == StoringOf(c) /\ LateOf(c) /\ NamedOf(c) /\ VisitOf(c)

Registry ==
  /\ \A id \in ClientIds : KnownOf(id)
  /\ \A c \in Calls : RequestOf(c)

\* The parts give ClientsStand.
LEMMA RegistryHolds == Common /\ Clientele /\ Registry => ClientsStand
<1>. SUFFICES ASSUME Common, Clientele, Registry PROVE ClientsStand
  OBVIOUS
<1>1. IdentityStands
  <2>1. \A c \in Calls : c \in ClientIds
    BY DEF ClientIds
  <2>. QED BY <2>1 DEF IdentityStands, Registry, KnownOf, Own, Drawn, Identity
<1>2. ReturnsOnlyLate
  BY DEF ReturnsOnlyLate, Registry, RequestOf, LateOf, StoredAnyway
<1>3. Vouched
  BY DEF Vouched, Registry, RequestOf, VisitOf
<1>. QED BY <1>1, <1>2, <1>3 DEF ClientsStand

\* What is patched is let off only by whoever may, too.
LEMMA PatchedSpared ==
  ASSUME NEW patch, Speaks(patch), NEW client \in Client, Spared(client)
  PROVE  Spared(Patched(patch, client))
<1>1. DOMAIN client = Field /\ {"requirePkce", "vouched"} \subseteq Field
  BY ClientFields DEF Field
<1>2. CASE {"requirePkce", "vouched"} \subseteq DOMAIN patch /\ patch.vouched = ~patch.requirePkce
  <2>1. Patched(patch, client).requirePkce = patch.requirePkce /\ Patched(patch, client).vouched = patch.vouched
    BY <1>1, <1>2 DEF Patched
  <2>. QED BY <1>2, <2>1, PatchedClient DEF Spared, Client
<1>3. CASE "requirePkce" \notin DOMAIN patch /\ "vouched" \notin DOMAIN patch
  <2>1. Patched(patch, client).requirePkce = client.requirePkce /\ Patched(patch, client).vouched = client.vouched
    BY <1>1, <1>3 DEF Patched
  <2>. QED BY <2>1 DEF Spared
<1>. QED BY <1>2, <1>3 DEF Speaks

\* At first every client is as the operator registered it.
LEMMA RegistryInit == Init => Registry
<1>. SUFFICES ASSUME Init PROVE Registry
  OBVIOUS
<1>1. \A c \in Calls : call[c] = Idle
  BY DEF Init
<1>2. None \notin Ops
  BY NamesAssumption
<1>3. ASSUME NEW c \in Calls PROVE RequestOf(c)
  <2>1. call[c].op = None
    BY <1>1 DEF Idle
  <2>2. call[c].op \notin {"post", "put", "create", "update", "delete", "destroy", "visit"}
    BY <1>2, <2>1 DEF Ops
  <2>. QED BY <2>2 DEF RequestOf, StoringOf, Storing, LateOf, NamedOf, VisitOf
<1>4. PICK registered \in Registered[scenario] :
        clients = [id \in ClientIds |-> IF id \in {App, Api} THEN Patched(registered[id], Operated(id)) ELSE None]
  BY DEF Init
<1>5. ASSUME NEW id \in {App, Api} PROVE KnownOf(id)
  <2>1. Speaks(registered[id]) /\ id \in ClientIds /\ id \notin Calls
    BY RegisteredAssumption, NamesAssumption DEF Init, ClientIds
  <2>2. Operated(id) \in Client /\ Spared(Operated(id))
    BY <2>1, OperatedClient DEF Spared, Operated
  <2>3. Spared(clients[id])
    BY <1>4, <2>1, <2>2, PatchedSpared
  <2>4. \A d \in Calls : ~Ends(d, id)
    BY <1>1, <1>2 DEF Ends, Idle, Ops
  <2>. QED BY <2>1, <2>3, <2>4 DEF KnownOf
<1>6. ASSUME NEW id \in ClientIds \ {App, Api} PROVE KnownOf(id)
  BY <1>4 DEF KnownOf
<1>. QED BY <1>3, <1>5, <1>6 DEF Registry

\* A step by which whoever is stored is known, and whoever is removed is gone.
LEMMA RegistryKept ==
  ASSUME Common, Registry, NEW c \in Calls, Moves(c),
         call[c].op = "update" =>
           call'[c].op = "update" /\ call'[c].given = call[c].given /\ call'[c].seen.id = call[c].seen.id,
         \A id \in ClientIds : clients'[id] \in {clients[id], None} \/ KnownOf(id)',
         \A id \in ClientIds : Ends(c, id)' => clients'[id] = None,
         RequestOf(c)'
  PROVE  Registry'
<1>1. /\ Others(c) /\ ~Ended(c)
      /\ \A d \in Calls : Ended(d) => d # c /\ call'[d] = call[d] /\ Ended(d)'
      /\ \A d \in Calls : d # c => call'[d] = call[d]
  BY Frozen DEF Common, Others
<1>2. \A d \in Calls : call[d].answer # None => Ended(d)
  BY DEF Common, Requested
<1>3. \A id, d, e : e \in Calls /\ StoredAnyway(d, id, e) => e # c /\ StoredAnyway(d, id, e)'
  <2>1. \A e \in Calls : \A id : Stores(e, id) => Ended(e)
    BY <1>2, NamesAssumption DEF Stores, Outcomes
  <2>. QED BY <1>1, <2>1 DEF StoredAnyway, Stores
<1>4. \A d \in Calls : \A id : d # c /\ Ends(d, id)' => Ends(d, id)
  BY <1>1 DEF Ends
<1>5. \A id : Left(id, Identity)' => Left(id, Identity)
  <2>1. \A u \in Calls : call[u].op = "update" =>
          call'[u].op = "update" /\ call'[u].given = call[u].given /\ call'[u].seen.id = call[u].seen.id
    BY <1>1
  <2>. QED BY <2>1, LeftBefore
<1>6. \A id, client : Own(id, client) => Own(id, client)'
  <2>1. \A d \in Calls : \A secret : Drawn(d, secret) => Drawn(d, secret)'
    <3>1. \A d \in Calls : \A secret : Drawn(d, secret) => Ended(d)
      BY <1>2, NamesAssumption DEF Drawn, Outcomes
    <3>. QED BY <1>1, <3>1 DEF Drawn
  <2>. QED BY <2>1 DEF Own
<1>7. ASSUME NEW id \in ClientIds, clients'[id] = clients[id], clients[id] # None PROVE KnownOf(id)'
  <2>1. KnownOf(id)
    BY DEF Registry
  <2>2. id # Document => \A d \in Calls : Ends(d, id)' => \E e \in Calls : StoredAnyway(d, id, e)'
    BY <1>3, <1>4, <1>7, <2>1 DEF KnownOf
  <2>3. Spared(clients[id])' /\ (id \in Calls => Ended(id)' /\ (Left(id, Identity)' => Own(id, clients[id])'))
    <3>1. id \in Calls => Ended(id) /\ (Left(id, Identity) => Own(id, clients[id]))
      BY <1>7, <2>1 DEF KnownOf
    <3>2. Own(id, clients[id]) => Own(id, clients[id])'
      BY <1>6, <1>7 DEF Own
    <3>3. Spared(clients[id])'
      BY <1>7, <2>1 DEF KnownOf, Spared
    <3>. QED BY <1>1, <1>5, <3>1, <3>2, <3>3
  <2>. QED BY <2>2, <2>3 DEF KnownOf
<1>8. ASSUME NEW id \in ClientIds PROVE KnownOf(id)'
  BY <1>7 DEF KnownOf
<1>9. ASSUME NEW d \in Calls, d # c PROVE RequestOf(d)'
  <2>1. RequestOf(d) /\ call'[d] = call[d]
    BY <1>1, <1>9 DEF Registry
  <2>2. Storing(d)' = Storing(d) /\ InFlight(d)' = InFlight(d)
    BY <2>1 DEF Storing, InFlight, Ended
  <2>3. StoringOf(d)'
    <3>. SUFFICES ASSUME Storing(d) PROVE StoringOf(d)'
      BY <2>2 DEF StoringOf
    <3>1. StoringOf(d)
      BY <2>1 DEF RequestOf
    <3>2. Own(call[d].seen.id, call[d].seen.record) => Own(call[d].seen.id, call[d].seen.record)'
      BY <1>6, <2>1 DEF Own
    <3>3. Left(call[d].seen.id, Identity)' => Left(call[d].seen.id, Identity)
      BY <1>5, <2>1
    <3>. QED BY <2>1, <3>1, <3>2, <3>3 DEF StoringOf, Spared
  <2>4. LateOf(d)'
    <3>1. \A f \in call[d].after : f \in Calls /\ f # c
      BY <1>1, CallNumbers DEF Common, Requested
    <3>. QED BY <1>3, <1>4, <2>1, <2>2, <3>1 DEF RequestOf, LateOf
  <2>5. NamedOf(d)'
    BY <1>1, <2>1, <2>2 DEF RequestOf, NamedOf
  <2>6. VisitOf(d)'
    BY <2>1 DEF RequestOf, VisitOf
  <2>. QED BY <2>3, <2>4, <2>5, <2>6 DEF RequestOf
<1>. QED BY <1>8, <1>9 DEF Registry

\* A step that stores nothing.
LEMMA RegistryStays ==
  ASSUME Common, Registry, NEW c \in Calls, Moves(c), UNCHANGED clients, RequestOf(c)',
         call[c].op # "update", call'[c].op \notin {"delete", "destroy"} \/ call'[c].answer = None
  PROVE  Registry'
<1>1. \A id : ~Ends(c, id)'
  BY NamesAssumption DEF Ends, Outcomes
<1>. QED BY <1>1, RegistryKept

\* A client is registered, created or asked about; what it is about to be stored with is its own.
LEMMA PostNext ==
  ASSUME Common, Clientele, Registry, UNCHANGED setup, NEW c \in Calls, Post(c)
  PROVE  Registry'
<1>1. PICK body \in Bodies[scenario], decision \in Decisions :
          /\ \/ Begin(c, "post", [body |-> body, decision |-> decision], "store",
                        [id |-> c, found |-> None, record |-> MetadataFrom(c, body, decision)], None)
             \/ Begin(c, "post", [body |-> body, decision |-> decision], "done", None, "refused")
          /\ Keep
  BY DEF Post
<1>2. Starts(c) /\ "post" \in Ops /\ Fits("post") /\ UNCHANGED clients
  BY <1>1 DEF Post, Ops, Fits, Keep, stores
<1>3. Moves(c) /\ Opened(c) /\ call'[c].op = "post"
      /\ \/ call'[c].pc = "store"
            /\ call'[c].seen = [id |-> c, found |-> None, record |-> MetadataFrom(c, body, decision)]
         \/ call'[c].pc = "done"
  BY <1>1, <1>2, Enters
<1>4. call[c].op # "update"
  BY <1>3, NamesAssumption DEF Opened, Idle, Ops
<1>5. PICK record : record = MetadataFrom(c, body, decision)
  OBVIOUS
<1>6. /\ Spared(record) /\ record.access = c /\ record.createdAt = c /\ record.secret \in {None, c}
  BY <1>5 DEF MetadataFrom, Operated, Spared
<1>7. RequestOf(c)'
  <2>1. Storing(c)' => call'[c].seen.id = c /\ call'[c].seen.record = record
    BY <1>3, <1>5 DEF Storing
  <2>. QED BY <1>3, <1>6, <2>1 DEF RequestOf, StoringOf, LateOf, NamedOf, VisitOf, Own, Spared
<1>. QED BY <1>2, <1>3, <1>4, <1>7, RegistryStays

\* An update by the client's own or the operator's leave begins: whoever is gone now it did not find.
LEMMA FoundInTime ==
  ASSUME Common, Registry, NEW c \in Calls, Moves(c), Opened(c), NEW id \in ClientIds, clients[id] # None, id # Document
  PROVE  \A d \in call'[c].after : Ends(d, id)' => \E e \in Calls \ {c} : StoredAnyway(d, id, e)'
<1>. SUFFICES ASSUME NEW d \in Calls, Ended(d), Ends(d, id)' PROVE \E e \in Calls \ {c} : StoredAnyway(d, id, e)'
  BY DEF Opened
<1>1. Ends(d, id)
  BY Frozen DEF Common, Ends
<1>2. PICK e \in Calls : StoredAnyway(d, id, e)
  BY <1>1 DEF Registry, KnownOf
<1>3. Ended(e)
  BY <1>2, NamesAssumption DEF Common, Requested, StoredAnyway, Stores, Outcomes
<1>4. e # c /\ call'[e] = call[e]
  BY <1>3, Frozen DEF Common
<1>. QED BY <1>2, <1>4 DEF StoredAnyway, Stores

\* A client's own update finds it, and makes up what to store.
LEMMA PutNext ==
  ASSUME Common, Clientele, Registry, UNCHANGED setup, NEW c \in Calls, Put(c)
  PROVE  Registry'
<1>1. PICK id \in Named, body \in Bodies[scenario], decision \in Decisions :
          /\ Begin(c, "put", body, "store",
                   [id |-> id, found |-> clients[id].secret,
                    record |-> Updated(clients[id], MetadataFrom(c, body, decision))], None)
          /\ Keep
  BY DEF Put
<1>2. Starts(c) /\ "put" \in Ops /\ Fits("put") /\ UNCHANGED clients
  BY <1>1 DEF Put, Ops, Fits, Keep, stores
<1>3. PICK existing, record : existing = clients[id] /\ record = Updated(existing, MetadataFrom(c, body, decision))
  OBVIOUS
<1>4. Moves(c) /\ Opened(c) /\ call'[c].op = "put" /\ call'[c].pc = "store" /\ call'[c].answer = None
      /\ call'[c].seen = [id |-> id, found |-> existing.secret, record |-> record]
  BY <1>1, <1>2, <1>3, Enters
<1>5. call[c].op # "update"
  BY <1>4, NamesAssumption DEF Opened, Idle, Ops
<1>6. id \in ClientIds /\ existing # None /\ KnownOf(id)
  BY <1>1, <1>3 DEF Named, Registry
<1>7. /\ Spared(record) /\ record.access = existing.access /\ record.createdAt = existing.createdAt
      /\ record.secret = existing.secret \/ (existing.secret = None /\ record.secret \in {None, c})
  <2>1. MetadataFrom(c, body, decision) \in Client
    BY RegisteredClient DEF Common, ClientIds
  <2>2. PICK made \in Client : made = MetadataFrom(c, body, decision)
    BY <2>1
  <2>3. Spared(made) /\ made.secret \in {None, c}
    BY <2>2 DEF MetadataFrom, Operated, Spared
  <2>4. DOMAIN made = Field
    BY ClientFields
  <2>5. record = Updated(existing, made)
    BY <1>3, <2>2
  <2>. QED BY <2>3, <2>4, <2>5 DEF Updated, Spared, Field
<1>8. \A i : Left(i, Identity)' => Left(i, Identity)
  <2>1. \A u \in Calls : call[u].op = "update" => call'[u] = call[u]
    BY <1>4, <1>5 DEF Opened, Others
  <2>. QED BY <2>1, LeftBefore
<1>9. id \in Calls => Ended(id)'
  BY <1>3, <1>4, <1>6, Frozen DEF KnownOf, Common
<1>10. ASSUME id \in Calls, Left(id, Identity)'
       PROVE  \/ Own(id, record)'
              \/ existing.secret = None /\ record.access = id /\ record.createdAt = id /\ record.secret = c
  <2>1. Own(id, existing)
    BY <1>3, <1>6, <1>8, <1>10 DEF KnownOf
  <2>2. ASSUME NEW d \in Calls, Drawn(d, existing.secret) PROVE Drawn(d, existing.secret)'
    <3>1. Ended(d)
      BY <2>2, NamesAssumption DEF Drawn, Outcomes, Common, Requested
    <3>. QED BY <1>4, <2>2, <3>1, Frozen DEF Drawn, Common
  <2>3. CASE record.secret = existing.secret
    <3>1. existing.secret \in {None, id} \/ \E d \in Calls : Drawn(d, existing.secret)'
      BY <2>1, <2>2 DEF Own
    <3>2. record.access = id /\ record.createdAt = id
      BY <1>7, <2>1 DEF Own
    <3>3. record.secret \in {None, id} \/ \E d \in Calls : Drawn(d, record.secret)'
      BY <2>3, <3>1 DEF Drawn
    <3>. QED BY <3>2, <3>3 DEF Own
  <2>4. CASE existing.secret = None /\ record.secret \in {None, c}
    BY <1>7, <2>1, <2>4 DEF Own
  <2>. QED BY <1>7, <2>3, <2>4
<1>11. id # Document => \A d \in call'[c].after : Ends(d, id)' => \E e \in Calls \ {c} : StoredAnyway(d, id, e)'
  BY <1>3, <1>4, <1>6, FoundInTime
<1>12. StoringOf(c)'
  <2>1. Own(id, record)' => Own(call[c].seen.id, call[c].seen.record)'
    BY <1>4 DEF Own
  <2>. QED BY <1>4, <1>7, <1>10, <2>1 DEF StoringOf, Spared
<1>13. LateOf(c)'
  BY <1>4, <1>11 DEF LateOf
<1>14. RequestOf(c)'
  BY <1>4, <1>9, <1>12, <1>13 DEF RequestOf, NamedOf, VisitOf
<1>. QED BY <1>2, <1>4, <1>5, <1>14, RegistryStays

\* An operator's update finds a client, and makes up what to store.
LEMMA PatchNext ==
  ASSUME Common, Clientele, Registry, UNCHANGED setup, NEW c \in Calls, Update(c)
  PROVE  Registry'
<1>1. PICK id \in ClientIds, patch \in Patches[scenario] :
           /\ FindClient(id) \in Client /\ Patched(patch, FindClient(id)) \in Client /\ Speaks(patch)
           /\ Opened(c) /\ call'[c].op = "update" /\ call'[c].pc = "upsert" /\ call'[c].given = patch
           /\ call'[c].seen = [id |-> id, found |-> FindClient(id).secret, record |-> Patched(patch, FindClient(id))]
           /\ call'[c].answer = None /\ UNCHANGED <<stores, past>>
  BY UpdateBegins
<1>2. Moves(c) /\ UNCHANGED clients
  BY <1>1, ClientMoves DEF ClientSteps, stores
<1>3. PICK existing, record : existing \in Client /\ existing = FindClient(id) /\ record = Patched(patch, existing)
  BY <1>1
<1>4. call[c].op # "update" /\ existing # None
  BY <1>1, <1>3, ClientFields, NamesAssumption DEF Opened, Idle, Ops
<1>5. id = Document \/ (existing = clients[id] /\ clients[id] # None)
  BY <1>3, <1>4 DEF FindClient
<1>6. id \in Calls => id # Document
  BY NamesAssumption
<1>7. Spared(existing)
  <2>1. CASE existing = clients[id] /\ clients[id] # None
    BY <2>1 DEF Registry, KnownOf
  <2>2. CASE existing = ClientFrom(document)
    BY <1>4, <2>2 DEF ClientFrom, Operated, Spared
  <2>. QED BY <1>3, <1>4, <2>1, <2>2 DEF FindClient
<1>8. Spared(record)
  BY <1>1, <1>3, <1>7, PatchedSpared
<1>9. \A i : Left(i, Identity)' => Left(i, Identity)
  <2>1. \A u \in Calls : call[u].op = "update" => call'[u] = call[u]
    BY <1>1, <1>4 DEF Opened, Others
  <2>. QED BY <2>1, LeftBefore
<1>10. id \in Calls => Ended(id)'
  BY <1>2, <1>5, <1>6, Frozen DEF Registry, KnownOf, Common
<1>11. ASSUME id \in Calls, Left(id, Identity)' PROVE Own(id, record)'
  <2>1. Own(id, existing)
    BY <1>5, <1>6, <1>9, <1>11 DEF Registry, KnownOf
  <2>2. \A f \in Identity : f \notin DOMAIN patch
    BY <1>1, <1>11 DEF Left
  <2>3. record.secret = existing.secret /\ record.access = existing.access /\ record.createdAt = existing.createdAt
    BY <1>1, <1>3, <2>2, PatchedClient DEF Identity, Field
  <2>4. ASSUME NEW d \in Calls, Drawn(d, existing.secret) PROVE Drawn(d, existing.secret)'
    <3>1. Ended(d)
      BY <2>4, NamesAssumption DEF Drawn, Outcomes, Common, Requested
    <3>. QED BY <1>2, <2>4, <3>1, Frozen DEF Drawn, Common
  <2>5. record.secret \in {None, id} \/ \E d \in Calls : Drawn(d, record.secret)'
    <3>1. existing.secret \in {None, id} \/ \E d \in Calls : Drawn(d, existing.secret)'
      BY <2>1, <2>4 DEF Own
    <3>. QED BY <2>3, <3>1 DEF Drawn
  <2>. QED BY <2>1, <2>3, <2>5 DEF Own
<1>12. id # Document => \A d \in call'[c].after : Ends(d, id)' => \E e \in Calls \ {c} : StoredAnyway(d, id, e)'
  BY <1>1, <1>2, <1>5, FoundInTime
<1>13. call'[c].seen.id = id /\ call'[c].seen.record = record
  BY <1>1, <1>3
<1>14. StoringOf(c)'
  <2>1. Own(id, record)' => Own(call[c].seen.id, call[c].seen.record)'
    BY <1>13 DEF Own
  <2>. QED BY <1>1, <1>8, <1>11, <1>13, <2>1 DEF StoringOf, Spared
<1>15. RequestOf(c)'
  BY <1>1, <1>10, <1>12, <1>13, <1>14 DEF RequestOf, LateOf, NamedOf, VisitOf
<1>. QED BY <1>1, <1>2, <1>4, <1>15, RegistryStays

\* The host makes up a client.
LEMMA CreateNext ==
  ASSUME Common, Clientele, Registry, UNCHANGED setup, NEW c \in Calls, Create(c)
  PROVE  Registry'
<1>1. PICK id \in {App, Document}, exempt \in BOOLEAN :
          /\ Begin(c, "create", None, "upsert",
                   [id |-> id, found |-> None,
                    record |-> [Operated(c) EXCEPT !.requirePkce = ~exempt, !.vouched = exempt]], None)
          /\ Keep
  BY DEF Create
<1>2. Starts(c) /\ "create" \in Ops /\ Fits("create") /\ UNCHANGED clients
  BY <1>1 DEF Create, Ops, Fits, Keep, stores
<1>3. PICK record : record = [Operated(c) EXCEPT !.requirePkce = ~exempt, !.vouched = exempt]
  OBVIOUS
<1>4. Moves(c) /\ Opened(c) /\ call'[c].op = "create" /\ call'[c].pc = "upsert" /\ call'[c].answer = None
      /\ call'[c].seen = [id |-> id, found |-> None, record |-> record]
  BY <1>1, <1>2, <1>3, Enters
<1>5. call[c].op # "update"
  BY <1>4, NamesAssumption DEF Opened, Idle, Ops
<1>6. Spared(record)
  BY <1>3 DEF Operated, Spared
<1>7. id \notin Calls
  BY NamesAssumption
<1>8. RequestOf(c)'
  BY <1>4, <1>6, <1>7 DEF RequestOf, StoringOf, LateOf, NamedOf, VisitOf, Spared
<1>. QED BY <1>2, <1>4, <1>5, <1>8, RegistryStays

\* An authorization request is let off by the client there is.
LEMMA VisitNext ==
  ASSUME Common, Clientele, Registry, UNCHANGED setup, NEW c \in Calls, Visit(c)
  PROVE  Registry'
<1>1. PICK id \in ClientIds, challenge \in BOOLEAN, nonce \in BOOLEAN :
       /\ FindClient(id) # None
       /\ Begin(c, "visit", [challenge |-> challenge], "done", FindClient(id),
                IF AssertChallenge(FindClient(id), challenge, nonce) THEN "goes on" ELSE "refused")
       /\ Keep
  BY DEF Visit
<1>2. Starts(c) /\ "visit" \in Ops /\ Fits("visit") /\ UNCHANGED clients
  BY <1>1 DEF Visit, Ops, Fits, Keep, stores
<1>3. PICK client, answer : client = FindClient(id)
        /\ answer = IF AssertChallenge(FindClient(id), challenge, nonce) THEN "goes on" ELSE "refused"
  OBVIOUS
<1>4. Moves(c) /\ Opened(c) /\ call'[c].op = "visit" /\ call'[c].pc = "done" /\ call'[c].answer = answer
      /\ call'[c].seen = client /\ call'[c].given = [challenge |-> challenge]
  <2>1. Begin(c, "visit", [challenge |-> challenge], "done", client, answer)
    BY <1>1, <1>3, Zenon
  <2>. QED BY <1>2, <2>1, Enters
<1>5. call[c].op # "update"
  BY <1>4, NamesAssumption DEF Opened, Idle, Ops
<1>6. Spared(client) /\ client \in Client
  <2>1. CASE client = clients[id] /\ clients[id] # None
    BY <2>1 DEF Registry, KnownOf, Clientele
  <2>2. CASE client = ClientFrom(document)
    BY <1>1, <1>3, <2>2, Found DEF ClientFrom, Operated, Spared
  <2>. QED BY <1>1, <1>3, <2>1, <2>2 DEF FindClient
<1>7. answer = "goes on" /\ ~challenge => client.vouched /\ client.method # "none"
  BY <1>3, <1>6 DEF AssertChallenge, Spared
<1>8. VisitOf(c)'
  <2>1. call'[c].given.challenge = challenge
    BY <1>4
  <2>. QED BY <1>4, <1>7, <2>1 DEF VisitOf
<1>9. RequestOf(c)'
  BY <1>4, <1>8 DEF RequestOf, StoringOf, Storing, LateOf, NamedOf
<1>. QED BY <1>2, <1>4, <1>5, <1>9, RegistryStays

\* A client asks to be removed.
LEMMA DeleteNext ==
  ASSUME Common, Clientele, Registry, UNCHANGED setup, NEW c \in Calls, Delete(c)
  PROVE  Registry'
<1>1. PICK id \in Named : Begin(c, "delete", None, "destroy", [id |-> id], None)
  BY DEF Delete
<1>2. Starts(c) /\ "delete" \in Ops /\ Fits("delete") /\ UNCHANGED clients
  BY DEF Delete, Ops, Fits, Keep, stores
<1>3. Moves(c) /\ Opened(c) /\ call'[c].op = "delete" /\ call'[c].pc = "destroy" /\ call'[c].answer = None
      /\ call'[c].seen = [id |-> id]
  BY <1>1, <1>2, Enters
<1>4. call[c].op # "update"
  BY <1>3, NamesAssumption DEF Opened, Idle, Ops
<1>5. id \in Calls => Ended(id)'
  <2>1. id \in Calls => Ended(id)
    BY <1>1 DEF Named, Registry, KnownOf
  <2>. QED BY <1>3, <2>1, Frozen DEF Common
<1>6. RequestOf(c)'
  BY <1>3, <1>5 DEF RequestOf, StoringOf, Storing, LateOf, NamedOf, VisitOf
<1>. QED BY <1>2, <1>3, <1>4, <1>6, RegistryStays

\* A client goes.
LEMMA GoneNext ==
  ASSUME Common, Clientele, Registry, UNCHANGED setup, NEW c \in Calls, Destroyed(c) \/ Destroy(c)
  PROVE  Registry'
<1>1. ASSUME NEW id, Store(id, None), Moves(c), call'[c].seen.id = id, call'[c].op \in {"delete", "destroy"},
             id \in Calls => Ended(id), call[c].op # "update", call'[c].pc = "done"
      PROVE  Registry'
  <2>1. \A i \in ClientIds : clients'[i] \in {clients[i], None} /\ (Ends(c, i)' => clients'[i] = None)
    BY <1>1 DEF Store, Clientele, Ends
  <2>2. id \in Calls => Ended(id)'
    BY <1>1, Frozen DEF Common
  <2>3. RequestOf(c)'
    BY <1>1, <2>2 DEF RequestOf, StoringOf, Storing, LateOf, NamedOf, VisitOf
  <2>. QED BY <1>1, <2>1, <2>3, RegistryKept
<1>2. CASE Destroyed(c)
  <2>1. InFlight(c) /\ Requested /\ call[c].op = "delete" /\ Leave(c, call[c].seen, "gone") /\ Store(call[c].seen.id, None)
    BY <1>2, InIsInFlight DEF Destroyed, In, Common
  <2>2. Moves(c) /\ call'[c].seen = call[c].seen /\ call'[c].op = "delete" /\ call'[c].pc = "done"
    BY <2>1, Leaves DEF Kept
  <2>3. call[c].seen.id \in Calls => Ended(call[c].seen.id)
    BY <2>1 DEF Registry, RequestOf, NamedOf
  <2>. QED BY <1>1, <2>1, <2>2, <2>3
<1>3. CASE Destroy(c)
  <2>1. PICK id \in {App, Document} : Store(id, None) /\ Begin(c, "destroy", None, "done", [id |-> id], "gone")
    BY <1>3 DEF Destroy
  <2>2. Starts(c) /\ "destroy" \in Ops /\ Fits("destroy")
    BY <1>3 DEF Destroy, Ops, Fits
  <2>3. Moves(c) /\ Opened(c) /\ call'[c].seen = [id |-> id] /\ call'[c].op = "destroy" /\ call'[c].pc = "done"
    BY <2>1, <2>2, Enters
  <2>4. id \notin Calls /\ call[c].op # "update"
    BY <2>3, NamesAssumption DEF Opened, Idle, Ops
  <2>. QED BY <1>1, <2>1, <2>3, <2>4
<1>. QED BY <1>2, <1>3

\* A client is stored.
LEMMA WriteNext ==
  ASSUME Common, Clientele, Registry, UNCHANGED setup, NEW c \in Calls, Storing(c), InFlight(c), Written(c), Moves(c)
  PROVE  Registry'
<1>1. PICK id \in ClientIds : id = call[c].seen.id
  BY DEF Clientele
<1>2. PICK record \in Client : record = call[c].seen.record
  BY DEF Clientele
<1>3. /\ call'[c].op = call[c].op /\ call'[c].after = call[c].after /\ call'[c].pc = "done" /\ call'[c].answer = "stored"
      /\ call'[c].given = call[c].given /\ call'[c].seen = [id |-> id, found |-> call[c].seen.found]
      /\ clients' = [clients EXCEPT ![id] = record]
  BY <1>1, <1>2, WriteEnds DEF Common, Kept
<1>4. clients'[id] = record /\ \A i \in ClientIds \ {id} : clients'[i] = clients[i]
  BY <1>3 DEF Clientele
<1>5. call[c].op \in {"post", "put", "create", "update"} /\ ~Ended(c) /\ RequestOf(c)
  BY DEF Storing, InFlight, Registry
<1>6. Stores(c, id)' \/ call[c].op = "post"
  BY <1>3, <1>5 DEF Stores
<1>7. \A e \in Calls : \A d : StoredAnyway(d, id, e) => StoredAnyway(d, id, e)'
  <2>1. \A e \in Calls : Stores(e, id) => Ended(e)
    BY NamesAssumption DEF Stores, Outcomes, Common, Requested
  <2>. QED BY <2>1, Frozen DEF StoredAnyway, Stores, Common
<1>8. \A d \in Calls : Ends(d, id)' => Ends(d, id) /\ d # c
  <2>1. \A d \in Calls : d # c => call'[d] = call[d]
    BY Frozen DEF Common, Others
  <2>2. ~Ends(c, id)'
    BY <1>3, <1>5 DEF Ends
  <2>. QED BY <2>1, <2>2 DEF Ends
<1>9. id # Document => \A d \in Calls : Ends(d, id)' => \E e \in Calls : StoredAnyway(d, id, e)'
  <2>. SUFFICES ASSUME id # Document, NEW d \in Calls, Ends(d, id) PROVE \E e \in Calls : StoredAnyway(d, id, e)'
    BY <1>8
  <2>1. CASE call[c].op = "post"
    <3>1. id = c
      BY <1>1, <1>5, <2>1 DEF RequestOf, StoringOf
    <3>2. RequestOf(d) /\ call[d].seen.id = id /\ call[d].op \in {"delete", "destroy"} /\ call[d].answer = "gone"
      BY DEF Registry, Ends
    <3>. QED BY <1>5, <3>1, <3>2 DEF RequestOf, NamedOf
  <2>2. CASE call[c].op = "create" \/ d \notin call[c].after
    BY <1>3, <1>5, <1>6, <2>1, <2>2 DEF StoredAnyway
  <2>3. CASE call[c].op \in {"put", "update"} /\ d \in call[c].after
    <3>1. PICK e \in Calls : StoredAnyway(d, id, e)
      BY <1>1, <1>5, <2>3 DEF RequestOf, LateOf
    <3>. QED BY <1>7, <3>1
  <2>. QED BY <1>5, <2>1, <2>2, <2>3
<1>10. \A i : Left(i, Identity)' => Left(i, Identity)
  <2>1. \A u \in Calls : call[u].op = "update" =>
          call'[u].op = "update" /\ call'[u].given = call[u].given /\ call'[u].seen.id = call[u].seen.id
    BY <1>1, <1>3, Frozen DEF Common, Others
  <2>. QED BY <2>1, LeftBefore
<1>11. ASSUME id \in Calls PROVE Ended(id)' /\ (Left(id, Identity)' => Own(id, record)')
  <2>1. Ended(id)'
    <3>1. CASE call[c].op = "post"
      BY <1>1, <1>3, <1>5, <3>1 DEF RequestOf, StoringOf, Ended
    <3>2. CASE call[c].op \in {"put", "update"}
      <4>1. Ended(id)
        BY <1>1, <1>5, <1>11, <3>2 DEF RequestOf, NamedOf
      <4>. QED BY <1>11, <4>1, Frozen DEF Common
    <3>3. CASE call[c].op = "create"
      BY <1>1, <1>5, <1>11, <3>3 DEF RequestOf, StoringOf
    <3>. QED BY <1>5, <3>1, <3>2, <3>3
  <2>2. ASSUME Left(id, Identity)' PROVE Own(id, record)'
    <3>1. \/ Own(id, record)
          \/ /\ call[c].op = "put" /\ call[c].seen.found = None
             /\ record.access = id /\ record.createdAt = id /\ record.secret = c
      BY <1>1, <1>2, <1>5, <1>10, <1>11, <2>2 DEF RequestOf, StoringOf
    <3>2. CASE Own(id, record)
      <4>1. ASSUME NEW d \in Calls, Drawn(d, record.secret) PROVE Drawn(d, record.secret)'
        <5>1. Ended(d)
          BY <4>1, NamesAssumption DEF Drawn, Outcomes, Common, Requested
        <5>. QED BY <4>1, <5>1, Frozen DEF Drawn, Common
      <4>. QED BY <3>2, <4>1 DEF Own
    <3>3. CASE call[c].op = "put" /\ call[c].seen.found = None /\ record.secret = c
      <4>1. Drawn(c, record.secret)'
        BY <1>3, <3>3 DEF Drawn
      <4>. QED BY <3>1, <3>2, <4>1 DEF Own
    <3>. QED BY <3>1, <3>2, <3>3
  <2>. QED BY <2>1, <2>2
<1>12. KnownOf(id)'
  <2>1. Spared(record)
    BY <1>2, <1>5 DEF RequestOf, StoringOf
  <2>2. Spared(clients[id])' /\ (id \in Calls => Ended(id)' /\ (Left(id, Identity)' => Own(id, clients[id])'))
    <3>1. Own(id, record)' => Own(id, clients[id])'
      BY <1>4 DEF Own
    <3>. QED BY <1>4, <1>11, <2>1, <3>1 DEF Spared
  <2>. QED BY <1>9, <2>2 DEF KnownOf
<1>13. RequestOf(c)'
  <2>1. LateOf(c)'
    <3>. SUFFICES ASSUME call[c].op \in {"put", "update"}, id # Document, NEW d \in call[c].after, Ends(d, id)'
                  PROVE  \E e \in Calls \ {c} : StoredAnyway(d, id, e)'
      BY <1>3 DEF LateOf
    <3>1. d \in Calls
      BY CallNumbers DEF Common, Requested
    <3>2. PICK e \in Calls \ {c} : StoredAnyway(d, id, e)
      BY <1>1, <1>5, <1>8, <3>1 DEF RequestOf, LateOf
    <3>. QED BY <1>7, <3>2
  <2>. QED BY <1>3, <1>5, <2>1 DEF RequestOf, StoringOf, Storing, NamedOf, InFlight, Ended, VisitOf
<1>14. \A i \in ClientIds : clients'[i] \in {clients[i], None} \/ KnownOf(i)'
  BY <1>4, <1>12
<1>15. \A i \in ClientIds : ~Ends(c, i)'
  BY <1>3, <1>5 DEF Ends
<1>16. call[c].op = "update" =>
           call'[c].op = "update" /\ call'[c].given = call[c].given /\ call'[c].seen.id = call[c].seen.id
  BY <1>1, <1>3
<1>. QED BY <1>13, <1>14, <1>15, <1>16, RegistryKept

\* A request that is not about clients.
LEMMA AsideNext ==
  ASSUME Common, Registry, UNCHANGED setup, NEW c \in Calls, Moves(c), Scripted', UNCHANGED clients,
         call'[c].op \notin {"post", "put", "delete", "create", "update", "destroy", "visit"}, call[c].op # "update"
  PROVE  Registry'
<1>1. RequestOf(c)'
  BY DEF RequestOf, StoringOf, Storing, LateOf, NamedOf, VisitOf
<1>. QED BY <1>1, RegistryStays

\* Every step keeps clients what they were made.
LEMMA RegistryNext == Common /\ Clientele /\ Registry /\ [Next]_all => Registry'
<1>. SUFFICES ASSUME Common, Clientele, Registry, [Next]_all PROVE Registry'
  OBVIOUS
<1>1. ASSUME UNCHANGED <<setup, clients, call>> PROVE Registry'
  <2>1. \A id, client : Own(id, client)' = Own(id, client) /\ Left(id, Identity)' = Left(id, Identity)
    BY <1>1 DEF Own, Drawn, Left
  <2>2. \A id \in ClientIds : KnownOf(id)'
    BY <1>1, <2>1 DEF Registry, KnownOf, Spared, Ended, Ends, StoredAnyway, Stores, Own, Drawn
  <2>3. ASSUME NEW d \in Calls PROVE RequestOf(d)'
    <3>1. RequestOf(d) /\ call'[d] = call[d]
      BY <1>1 DEF Registry
    <3>2. StoringOf(d)'
      BY <1>1, <2>1, <3>1 DEF RequestOf, StoringOf, Storing, Spared, Own, Drawn
    <3>3. LateOf(d)'
      BY <1>1, <3>1 DEF RequestOf, LateOf, Storing, Ends, StoredAnyway, Stores
    <3>4. NamedOf(d)' /\ VisitOf(d)'
      BY <1>1, <3>1 DEF RequestOf, NamedOf, VisitOf, InFlight, Ended
    <3>. QED BY <3>2, <3>3, <3>4 DEF RequestOf
  <2>. QED BY <2>2, <2>3 DEF Registry
<1>2. CASE UNCHANGED all
  BY <1>1, <1>2 DEF all, stores
<1>3. ASSUME Next PROVE Registry'
  <2>1. UNCHANGED setup /\ DOMAIN past = Memory /\ Requested
    BY <1>3 DEF Next, Common
  <2>2. CASE Tick \/ Publish
    BY <1>1, <2>1, <2>2 DEF Tick, stores, Publish
  <2>3. ASSUME NEW c \in Calls, ClientSteps(c) PROVE Registry'
    <3>1. Moves(c)
      BY <2>1, <2>3, ClientMoves
    <3>2. CASE StoreMetadata(c) \/ Upsert(c)
      <4>1. Storing(c) /\ InFlight(c) /\ Written(c)
        BY <3>2, InIsInFlight DEF StoreMetadata, Upsert, Storing, In
      <4>. QED BY <2>1, <3>1, <4>1, WriteNext
    <3>3. CASE Post(c) \/ Put(c) \/ Delete(c) \/ Create(c) \/ Update(c)
      BY <2>1, <3>3, PostNext, PutNext, DeleteNext, CreateNext, PatchNext
    <3>4. CASE Destroyed(c) \/ Destroy(c) \/ Visit(c)
      BY <2>1, <3>4, GoneNext, VisitNext
    <3>. QED BY <2>3, <3>2, <3>3, <3>4 DEF ClientSteps
  <2>4. ASSUME NEW c \in Calls, Moves(c), Scripted', UNCHANGED clients,
               call'[c].op \notin {"post", "put", "delete", "create", "update", "destroy", "visit"}
        PROVE  Registry'
    <3>1. call[c].op # "update"
      BY <2>4, NamesAssumption DEF Moves, Opened, Continued, Kept, Idle, Ops
    <3>. QED BY <2>1, <2>4, <3>1, AsideNext
  <2>5. ASSUME NEW c \in Calls, ProofSteps(c) PROVE Registry'
    <3>1. Moves(c) /\ Scripted' /\ UNCHANGED clients
      BY <2>1, <2>5, ProofMoves DEF ProofSteps, PresentAssertion, Prove, CheckNonce, unproved
    <3>2. scenario \in {"assertions", "proofs"} /\ call'[c].pc # "idle"
      BY <2>5, <3>1, ProofScene DEF Moves, Opened, Continued
    <3>3. call'[c].op \notin {"post", "put", "delete", "create", "update", "destroy", "visit"}
      BY <2>1, <3>1, <3>2 DEF Scripted, Fits, setup
    <3>. QED BY <2>4, <3>1, <3>3
  <2>6. ASSUME NEW c \in Calls, TokenSteps(c) PROVE Registry'
    BY <2>1, <2>4, <2>6, TokenMoves, TokensKeep DEF unused, TokenOps
  <2>7. ASSUME NEW c \in Calls, LogoutSteps(c) PROVE Registry'
    BY <2>1, <2>4, <2>7, LogoutMoves, LogoutKeeps DEF ended, LogoutOps
  <2>8. ASSUME NEW c \in Calls, Crash(c) PROVE Registry'
    <3>1. InFlight(c) /\ call' = [call EXCEPT ![c].pc = "dead"] /\ "dead" \in {"failed", "dead"}
      BY <2>8 DEF Crash
    <3>2. call'[c].op = call[c].op /\ call[c].op \in {"end", "manage", "revoke"}
      BY <2>1, <2>8, <3>1, Stops DEF Kept, Crash
    <3>. QED BY <2>1, <2>4, <2>8, <3>2, CrashMoves DEF stores
  <2>. QED BY <1>3, <2>2, <2>3, <2>5, <2>6, <2>7, <2>8 DEF Next
<1>. QED BY <1>2, <1>3

-----------------------------------------------------------------------------
(* Together. *)

\* Only in the scenario about sessions do sessions, interactions and their memory change.
Quiet ==
  /\ grant \in BOOLEAN
  /\ scenario # "logout" =>
       /\ \A s \in Sessions : sessions[s] = {App}
       /\ \A i \in Interactions : interactions[i] = None
       /\ past.destroyed = {} /\ \A c \in Calls : past.accepted[c] = None

IInv ==
  /\ Common /\ Signed /\ Clientele /\ Registry /\ Tokens /\ Quiet
  /\ scenario = "setup" => Posted
  /\ scenario = "logout" => Logout

\* Every step leaves them alone but in the scenario about sessions.
LEMMA QuietNext == Common /\ Quiet /\ [Next]_all => Quiet'
<1>. SUFFICES ASSUME Common, Quiet, [Next]_all PROVE Quiet'
  OBVIOUS
<1>1. CASE UNCHANGED all \/ Tick
  <2>1. UNCHANGED <<scenario, grant, sessions, interactions, past>>
    BY <1>1 DEF all, stores, setup, Tick, Next
  <2>. QED BY <2>1 DEF Quiet
<1>2. ASSUME Next, ~Tick PROVE Quiet'
  <2>1. UNCHANGED setup /\ DOMAIN past = Memory /\ scenario' = scenario
    BY <1>2 DEF Next, Common, setup
  <2>2. ASSUME UNCHANGED <<sessions, interactions>>, grant' \in BOOLEAN,
               past'.destroyed = past.destroyed, past'.accepted = past.accepted
        PROVE  Quiet'
    BY <2>1, <2>2 DEF Quiet
  <2>3. ASSUME NEW c \in Calls, ClientSteps(c) \/ Registers(c) \/ Revises(c) \/ Publish PROVE Quiet'
    BY <2>2, <2>3, ClientsKeep DEF others, Quiet
  <2>4. ASSUME NEW c \in Calls, ProofSteps(c) PROVE Quiet'
    <3>1. UNCHANGED <<grant, sessions, interactions>>
      BY <2>4 DEF ProofSteps, PresentAssertion, Prove, CheckNonce, unproved
    <3>2. past'.destroyed = past.destroyed /\ past'.accepted = past.accepted
      BY <2>1, <2>4 DEF ProofSteps, PresentAssertion, Prove, CheckNonce, Use, Memory
    <3>. QED BY <2>2, <3>1, <3>2 DEF Quiet
  <2>5. ASSUME NEW c \in Calls, Crash(c) PROVE Quiet'
    BY <2>2, <2>5 DEF Crash, stores, Quiet
  <2>6. ASSUME NEW c \in Calls, TokenSteps(c) PROVE Quiet'
    <3>1. UNCHANGED <<sessions, interactions>> /\ past'.destroyed = past.destroyed /\ past'.accepted = past.accepted
      BY <2>1, <2>6, TokensKeep DEF unused, Memory
    <3>2. grant' \in BOOLEAN
      <4>1. CASE DestroyGrant(c)
        BY <4>1 DEF DestroyGrant
      <4>2. CASE ~DestroyGrant(c)
        <5>1. CASE Exchanged(c)
          BY <5>1 DEF Exchanged, IssueAccessToken, Quiet
        <5>2. CASE ~Exchanged(c)
          BY <2>6, <4>2, <5>2 DEF TokenSteps, ClientCredentials, Exchange, Declined, Introspect, Describe, UserInfo, Claims,
                                  Revoke, RevokeOne, RevokeByGrantId, Keep, stores, Quiet
        <5>. QED BY <5>1, <5>2
      <4>. QED BY <4>1, <4>2
    <3>. QED BY <2>2, <3>1, <3>2
  <2>7. ASSUME NEW c \in Calls, LogoutSteps(c) PROVE Quiet'
    <3>1. scenario = "logout" /\ UNCHANGED grant
      BY <2>1, <2>7, LogoutScene, LogoutKeeps DEF ended
    <3>. QED BY <2>1, <3>1 DEF Quiet
  <2>8. CASE Publish
    BY <2>2, <2>8 DEF Publish, others, Quiet
  <2>. QED BY <1>2, <2>3, <2>4, <2>5, <2>6, <2>7, <2>8 DEF Next
<1>. QED BY <1>1, <1>2

\* Every step keeps registrations what they were answered.
LEMMA PostedKept ==
  Common /\ Clientele /\ (scenario = "setup" => Posted) /\ [Next]_all => (scenario = "setup" => Posted)'
<1>. SUFFICES ASSUME Common, Clientele, scenario = "setup" => Posted, [Next]_all, scenario' = "setup" PROVE Posted'
  OBVIOUS
<1>1. UNCHANGED setup
  BY DEF Next, all
<1>2. scenario = "setup" /\ Posted
  BY <1>1 DEF setup
<1>3. CASE UNCHANGED all \/ Tick
  BY <1>1, <1>2, <1>3, PostedStays DEF all, stores, Tick
<1>4. ASSUME Next, ~Tick PROVE Posted'
  <2>1. PICK c \in Calls : Registers(c)
    BY <1>2, <1>4, Scenes
  <2>. QED BY <1>1, <1>2, <2>1, PostedNext
<1>. QED BY <1>3, <1>4

\* The invariant of the endpoints together, whichever requests cross and wherever their processes end:
\* it holds at first, and every step keeps it.
THEOREM Invariance == Spec => []IInv
<1>1. Init => IInv
  <2>. SUFFICES ASSUME Init PROVE IInv
    OBVIOUS
  <2>1. Quiet
    BY DEF Init, Quiet
  <2>. QED BY <2>1, CommonInit, SignedInit, ClienteleInit, RegistryInit, TokensInit, PostedInit, LogoutInit DEF IInv
<1>2. IInv /\ [Next]_all => IInv'
  <2>. SUFFICES ASSUME IInv, [Next]_all PROVE IInv'
    OBVIOUS
  <2>. QED BY CommonNext, SignedNext, ClienteleNext, RegistryNext, TokensNext, QuietNext, PostedKept, LogoutNext
      DEF IInv
<1>. QED BY <1>1, <1>2, PTL DEF Spec

\* The stores have an entry for whoever may be named, and no other.
THEOREM Types == Spec => []TypeOK
<1>1. IInv => TypeOK
  <2>. SUFFICES ASSUME IInv PROVE TypeOK
    OBVIOUS
  <2>1. DOMAIN clients = ClientIds /\ DOMAIN tokens = TokenIds /\ grant \in BOOLEAN
    BY DEF IInv, Clientele, Tokens, Quiet
  <2>2. \A s \in Sessions : sessions[s] = None \/ sessions[s] \subseteq {App, Api}
    BY DEF IInv, Quiet, Logout, ListsStand
  <2>3. \A i \in Interactions : interactions[i] # None => interactions[i].session \in Sessions
    <3>1. CASE scenario = "logout"
      BY <3>1 DEF IInv, Logout, InteractionsStand, Standing
    <3>2. CASE scenario # "logout"
      BY <3>2 DEF IInv, Quiet
    <3>. QED BY <3>1, <3>2
  <2>4. \A c \in Calls : call[c].after \subseteq 1..(c - 1)
    BY DEF IInv, Common, Requested
  <2>. QED BY <2>1, <2>2, <2>3, <2>4 DEF TypeOK
<1>. QED BY <1>1, Invariance, PTL

\* However registrations, a client's updates, the operator's, deletions and visits cross, a client is
\* stored with its own token and secret, does not return for a request that begins once it is gone,
\* and is let off the code challenge only as it was vouched for (clients/registration.ts,
\* clients/management.ts, authorize/pkce.ts).
THEOREM ClientsAreTheirOwn == Spec => []ClientsStand
<1>1. IInv => ClientsStand
  BY RegistryHolds DEF IInv
<1>. QED BY <1>1, Invariance, PTL

\* Under every configuration, key store and profile: a well-formed registration is accepted exactly
\* if discovery advertises what it asks for, and a client it stored is served, but for what
\* Excused names (discovery.ts, clients/registration.ts).
THEOREM AdvertisedIsServed == Spec => []ServableAsAdvertised
<1>1. IInv => ServableAsAdvertised
  BY PostedHolds DEF IInv
<1>. QED BY <1>1, Invariance, PTL

\* Whatever its window, and however presentations cross, what a client signed is believed once, but
\* at the two ends of a proof's window and under FAPI (clients/assertion.ts, binding/dpop.ts).
THEOREM BelievedOnce == Spec => []UsedOnceInside
<1>1. IInv => UsedOnceInside
  BY SignedHolds DEF IInv
<1>. QED BY <1>1, Invariance, PTL

\* Through chains of exchanges that cross revocations and changes of the client, a token holds no
\* more than what it was exchanged for, stays bound, ends with its grant, and names the user as its
\* client was told (token/exchange.ts, resource/).
THEOREM TokensSayWhatTheirGrantDoes == Spec => []TokensStand
<1>1. IInv => TokensStand
  BY TokensHold DEF IInv
<1>. QED BY <1>1, Invariance, PTL

\* However logouts, confirmations, redeemed codes and the operator's sign-out cross, a session ends
\* only because someone asked, for good, and who was signed in is told (session/end-session.ts,
\* session/logout.ts, session/management.ts).
THEOREM SessionsEndForGood == Spec => []SessionsEnd
<1>1. IInv => SessionsEnd
  <2>. SUFFICES ASSUME IInv PROVE SessionsEnd
    OBVIOUS
  <2>1. CASE scenario = "logout"
    BY <2>1, LogoutHolds DEF IInv
  <2>2. CASE scenario # "logout"
    BY <2>2 DEF IInv, Quiet, SessionsEnd, EndedWasAsked, ConfirmedNotLater, EveryoneTold, EndedStays
  <2>. QED BY <2>1, <2>2
<1>. QED BY <1>1, Invariance, PTL
================================================================================
