--------------------------------- MODULE Proofs ----------------------------------
(***************************************************************************)
(* What a client signs to be believed: client assertions                   *)
(* (clients/assertion.ts) and DPoP proofs (binding/dpop.ts), each accepted *)
(* within a window of its times and remembered in the replay memory.       *)
(*                                                                         *)
(* Times are seconds, and the clock ticks in halves of one: Date.now() is  *)
(* compared in whole seconds, a claim lapses between them.  Verification   *)
(* and claim run within a tick.                                            *)
(***************************************************************************)
EXTENDS Endpoints

CONSTANTS
  Exp,         \* when the assertion expires
  Iat,         \* when the proof says it was made
  MaxLifetime, \* of an assertion
  MaxAge,      \* of a proof
  Skew, FapiIatSkew,
  DpopNonceTtl

ASSUME TimesAssumption == {Exp, Iat, MaxLifetime, MaxAge, Skew, FapiIatSkew, DpopNonceTtl} \subseteq Nat

Seconds == now \div 2
Claimed(namespace) == replay[namespace] > now
Claim(namespace, ttl) == replay' = [replay EXCEPT ![namespace] = now + 2 * ttl]

fapi == UnderFapi(config, clients[App])
unproved == <<clients, document, tokens, grant, sessions, interactions>>

Use(what, at) == past' = [past EXCEPT !.used[what] = Append(@, at)]

-----------------------------------------------------------------------------
(* Client assertions. *)

\* Mutant: remembered until it expires by this clock.
RememberedShort(remaining) == IF fapi THEN remaining + Skew ELSE remaining - 1

Remembered(remaining) == remaining + Skew

\* jose refuses once exp is not after the time less its tolerance.
AssertionVerifies ==
  /\ Exp > Seconds - (IF fapi THEN FapiIatSkew ELSE 0)
  /\ Exp - Seconds <= MaxLifetime + Skew

PresentAssertion(c) ==
  /\ Starts(c) /\ scenario = "assertions" /\ AssertionVerifies
  /\ IF Claimed("client-assertion")
     THEN /\ Begin(c, "assert", None, "failed", None, None) /\ UNCHANGED <<replay, past>>
     ELSE /\ Claim("client-assertion", Remembered(Exp - Seconds))
          /\ Begin(c, "assert", None, "done", None, "accepted") /\ Use("client-assertion", Seconds)
  /\ UNCHANGED <<unproved, nonces>>

-----------------------------------------------------------------------------
(* DPoP proofs of two jti: a client that was refused tries again.  The nonce *)
(* a proof carries is one the provider issued, or none it knows.             *)

Jtis == {"dpop", "dpop again"}

ProofSkew == IF fapi THEN FapiIatSkew ELSE Skew

ProofTtl == MaxAge + ProofSkew

ProofVerifies == Seconds - Iat <= MaxAge /\ Seconds - Iat >= -ProofSkew

IssueNonce(c) == nonces' = [nonces EXCEPT ![c] = [for |-> App, until |-> now + 2 * DpopNonceTtl]]

\* The jti is claimed before the nonce is looked at.
Prove(c) ==
  /\ Starts(c) /\ scenario = "proofs"
  /\ \E jti \in Jtis, nonce \in {n \in Calls : nonces[n] # None} \cup {None} :
       /\ ProofVerifies
       /\ IF Claimed(jti)
          THEN Begin(c, "prove", nonce, "failed", None, None) /\ UNCHANGED replay
          ELSE /\ Claim(jti, ProofTtl)
               /\ Begin(c, "prove", nonce, "nonce", [jti |-> jti, at |-> Seconds], None)
       /\ UNCHANGED <<unproved, nonces, past>>

Fresh(nonce) == nonce # None /\ nonces[nonce] # None /\ nonces[nonce].for = App /\ nonces[nonce].until > now

CheckNonce(c) ==
  /\ In(c, "prove", "nonce")
  /\ IF "dpopNonces" \in config.features /\ ~Fresh(call[c].given)
     THEN IssueNonce(c) /\ Throw(c) /\ UNCHANGED past
     ELSE Answer(c, "accepted") /\ Use(call[c].seen.jti, call[c].seen.at) /\ UNCHANGED nonces
  /\ UNCHANGED <<unproved, replay>>

ProofSteps(c) == PresentAssertion(c) \/ Prove(c) \/ CheckNonce(c)
================================================================================
