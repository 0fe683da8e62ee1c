-------------------------------- MODULE Accounts --------------------------------
(***************************************************************************)
(* Local accounts (accounts/index.ts, accounts/totp.ts) over the adapter's *)
(* credentials store: sign-up, passwords and the lockout, one-time codes,  *)
(* recovery codes and resets, for one username.                            *)
(*                                                                         *)
(* Every operation reads the whole credential, awaits a hash or the replay *)
(* memory, and writes the whole record back as it read it but for its own  *)
(* fields.  A call is a process: its first step reads, its later ones      *)
(* claim, write, list and destroy.  A failure is a call that takes no      *)
(* further step.  The clock counts TOTP periods.                           *)
(***************************************************************************)
EXTENDS Naturals, FiniteSets

CONSTANTS
  Calls,             \* the calls of the accounts API, each of one operation
  Passwords,         \* the acceptable passwords people use
  First,             \* the password, secret and codes an account begins with
  Plans,             \* the operations the calls may be of: a set of functions on Calls
  RecoveryCodes,     \* policy.recoveryCodes
  MaxFailedAttempts, \* policy.maxFailedAttempts
  Lockout,           \* policy.lockout, in periods
  ResetTtl,          \* policy.resetTtl, in periods
  MaxTime,           \* the clock stops here
  None

ASSUME AccountsAssumption ==
  /\ {RecoveryCodes, MaxFailedAttempts, Lockout, ResetTtl} \subseteq Nat \ {0}
  /\ MaxTime \in Nat /\ First \in Passwords /\ First \notin Calls /\ None \notin Passwords

VARIABLES
  credential, \* the stored record, or None
  counters,   \* replay memory, "totp": [counter -> until when it is claimed]
  spent,      \* replay memory, "recovery": the codes claimed, for ten years
  resets,     \* [Calls -> the expiry of the password_reset a call stored, or None]
  sessions,   \* the account's stored sessions, each named by the authentication it followed
  now,        \* Date.now(), in periods
  plan,       \* [Calls -> the operation a call is of]
  pc,         \* [Calls -> the await a call stands at]
  seen,       \* [Calls -> the credential it read]
  input,      \* [Calls -> the code or the password it was given]
  left,       \* [Calls -> the sessions it has listed and not yet destroyed]
  out,        \* [Calls -> what it returned]
  past        \* the properties' memory

vars == <<credential, counters, spent, resets, sessions, now, plan, pc, seen, input, left, out, past>>
memory == <<counters, spent>>
world == <<counters, spent, resets, sessions, now, plan>>

-----------------------------------------------------------------------------
(* Values. *)

\* A secret is named by the call of totp.begin that drew it, a recovery code
\* by the call that issued it and its place on the list.
Secrets == Calls \cup {First}
RecoveryOf(c) == {[issuer |-> c, place |-> i] : i \in 1..RecoveryCodes}
Recovery == UNION {RecoveryOf(c) : c \in Secrets}

\* What an app shows for a counter; the window looks one period either side.
OneTime == [secret : Secrets, counter : 0..(MaxTime + 1)]

Totp == [secret : Secrets, confirmedAt : BOOLEAN]
Credential == [passwordHash : Passwords, failedAttempts : 0..(MaxFailedAttempts - 1),
               lockedUntil : 0..(MaxTime + Lockout), totp : Totp \cup {None},
               recoveryCodes : SUBSET Recovery]

\* What a call can end with: the reason it throws or answers, or that it did what it is for.
Results == {"ok", "taken", "unknown", "refused", "locked", "invalid", "enrolled"}

\* None is no record, and nothing a call counts or answers.
ASSUME NoneAssumption == None \notin Totp \cup Credential \cup Nat \cup Results

Created(password) == [passwordHash |-> password, failedAttempts |-> 0, lockedUntil |-> 0,
                      totp |-> None, recoveryCodes |-> {}]
FullyEnrolled == [Created(First) EXCEPT !.totp = [secret |-> First, confirmedAt |-> TRUE],
                                        !.recoveryCodes = RecoveryOf(First)]

Enrolled(k) == k # None /\ k.totp # None /\ k.totp.confirmedAt
\* Mutant: compares the other way round.
LockedBefore(k) == k.lockedUntil < now

Locked(k) == k.lockedUntil > now

\* counterAt(now) - 1 .. counterAt(now) + 1, for the secret the record holds
Matches(k, code) ==
  /\ code \in OneTime /\ code.secret = k.totp.secret
  /\ code.counter <= now + 1 /\ now <= code.counter + 1

\* The codes worth giving: those that pass for this record, and any other.
Useful(k) == {code \in OneTime : Matches(k, code)} \cup k.recoveryCodes \cup {None}

\* Mutant: remembered for one window's half only.
TotpTtlShort == 2

\* A counter is claimed for 3 * TOTP_PERIOD; the first live claim wins.
TotpTtl == 3
Claimed(counter) == counters[counter] > now

-----------------------------------------------------------------------------
(* A call's steps: it reads, then stops or goes on to the next await. *)

Read(c, operation, given) ==
  /\ pc[c] = "idle" /\ plan[c] = operation
  /\ seen' = [seen EXCEPT ![c] = credential]
  /\ input' = [input EXCEPT ![c] = given]
  /\ UNCHANGED <<credential, world, left>>

Go(c, to) == pc' = [pc EXCEPT ![c] = to] /\ UNCHANGED out
Return(c, result) == pc' = [pc EXCEPT ![c] = "done"] /\ out' = [out EXCEPT ![c] = result]

\* credentials.upsert: the record is what the call makes it, whatever is stored.
Write(c, record, clears) ==
  /\ credential' = record
  /\ past' = [past EXCEPT !.orderly = @ /\ seen[c] = credential /\ ~clears]
  /\ seen' = [seen EXCEPT ![c] = None]
  /\ UNCHANGED <<world, input, left>>

-----------------------------------------------------------------------------
(* Sign-up and passwords. *)

Register(c) == \E password \in Passwords :
  /\ Read(c, "register", password)
  /\ UNCHANGED <<out, past>> /\ pc' = [pc EXCEPT ![c] = "create"]

\* credentials.create takes the name or finds it taken.
Create(c) ==
  /\ pc[c] = "create"
  /\ credential' = IF credential = None THEN Created(input[c]) ELSE credential
  /\ Return(c, IF credential = None THEN "ok" ELSE "taken")
  /\ UNCHANGED <<world, seen, input, left, past>>

Authenticate(c) == \E password \in Passwords :
  /\ Read(c, "authenticate", None)
  /\ UNCHANGED past
  /\ IF credential = None THEN Return(c, "unknown")
     ELSE IF Locked(credential) THEN Return(c, "refused")
     ELSE IF password # credential.passwordHash THEN Go(c, "fail")
     ELSE Go(c, "succeed")

Fail(c) ==
  LET k == seen[c]
      locking == k.failedAttempts + 1 >= MaxFailedAttempts
  IN /\ pc[c] = "fail"
     /\ credential' = [k EXCEPT !.failedAttempts = IF locking THEN 0 ELSE @ + 1,
                                !.lockedUntil = IF locking THEN now + Lockout ELSE 0]
     /\ Return(c, IF locking THEN "locked" ELSE "invalid")
     /\ past' = [past EXCEPT !.orderly = @ /\ seen[c] = credential, !.failedAt[c] = now]
     /\ seen' = [seen EXCEPT ![c] = None]
     /\ UNCHANGED <<world, input, left>>

Succeed(c) ==
  LET k == seen[c] IN
  /\ pc[c] = "succeed"
  /\ Return(c, "ok")
  /\ IF k.failedAttempts = 0 /\ k.lockedUntil = 0
     THEN UNCHANGED <<credential, world, seen, input, left, past>>
     ELSE Write(c, [k EXCEPT !.failedAttempts = 0, !.lockedUntil = 0], TRUE)

\* The host starts a session for an authentication that succeeded.
StartSession(c) ==
  /\ plan[c] = "authenticate" /\ out[c] = "ok" /\ c \notin past.started
  /\ sessions' = sessions \cup {c}
  /\ past' = [past EXCEPT !.started = @ \cup {c}]
  /\ UNCHANGED <<credential, memory, resets, now, plan, pc, seen, input, left, out>>

SetPassword(c) == \E password \in Passwords :
  /\ Read(c, "setPassword", password)
  /\ UNCHANGED past
  /\ IF credential = None THEN Return(c, "unknown") ELSE Go(c, "set")

\* Mutant: a reset ends no session.
StorePasswordOnly(c) ==
  /\ pc[c] = "set"
  /\ credential' = [seen[c] EXCEPT !.passwordHash = input[c],
                                   !.failedAttempts = 0, !.lockedUntil = 0]
  /\ past' = [past EXCEPT !.orderly = FALSE, !.before[c] = sessions]
  /\ seen' = [seen EXCEPT ![c] = None]
  /\ UNCHANGED <<world, input, left>> /\ Return(c, "ok")

StorePassword(c) ==
  /\ pc[c] = "set"
  /\ credential' = [seen[c] EXCEPT !.passwordHash = input[c],
                                   !.failedAttempts = 0, !.lockedUntil = 0]
  /\ past' = [past EXCEPT !.orderly = FALSE, !.before[c] = sessions]
  /\ seen' = [seen EXCEPT ![c] = None]
  /\ UNCHANGED <<world, input, left>>
  /\ IF plan[c] = "reset.complete" THEN Go(c, "list") ELSE Return(c, "ok")

-----------------------------------------------------------------------------
(* The second factor. *)

\* A code that matches a counter goes to the claim; one that does not may be on the list.
VerifySecondFactor(c) ==
  \/ /\ Read(c, "verifySecondFactor", None)
     /\ Enrolled(credential) => Locked(credential)
     /\ Return(c, "refused") /\ UNCHANGED past
  \/ /\ Enrolled(credential) /\ ~Locked(credential)
     /\ \E code \in Useful(credential) :
       /\ Read(c, "verifySecondFactor", code)
       /\ IF Matches(credential, code)
          THEN Go(c, "claim") /\ past' = [past EXCEPT !.matchedAt[c] = now]
          ELSE Go(c, IF code \in credential.recoveryCodes THEN "claimRecovery" ELSE "fail")
               /\ UNCHANGED past

\* Both the sign-in and the enrolment claim the account's counter, whatever its secret.
\* No recovery code is spelled like a one-time code, so a claim that is lost fails.
ClaimCounter(c) ==
  LET counter == input[c].counter IN
  /\ pc[c] = "claim"
  /\ IF Claimed(counter)
     THEN /\ IF plan[c] = "totp.confirm" THEN Return(c, "unknown") ELSE Go(c, "fail")
          /\ UNCHANGED <<counters, past>>
     ELSE /\ Go(c, IF plan[c] = "totp.confirm" THEN "confirm" ELSE "succeed")
          /\ counters' = [counters EXCEPT ![counter] = now + TotpTtl]
          /\ past' = [past EXCEPT !.claimedAt[c] = now]
  /\ UNCHANGED <<credential, spent, resets, sessions, now, plan, seen, input, left>>

\* Mutant: the list alone decides.
ClaimRecoveryListed(c) ==
  /\ pc[c] = "claimRecovery" /\ Go(c, "strike")
  /\ UNCHANGED <<credential, world, seen, input, left, past>>

ClaimRecovery(c) ==
  /\ pc[c] = "claimRecovery"
  /\ spent' = spent \cup {input[c]}
  /\ Go(c, IF input[c] \in spent THEN "fail" ELSE "strike")
  /\ UNCHANGED <<credential, counters, resets, sessions, now, plan, seen, input, left, past>>

StrikeRecovery(c) ==
  /\ pc[c] = "strike"
  /\ Write(c, [seen[c] EXCEPT !.recoveryCodes = @ \ {input[c]},
                              !.failedAttempts = 0, !.lockedUntil = 0], TRUE)
  /\ Return(c, "ok")

TotpBegin(c) ==
  /\ Read(c, "totp.begin", None)
  /\ UNCHANGED past
  /\ IF credential = None THEN Return(c, "unknown")
     ELSE IF Enrolled(credential) THEN Return(c, "enrolled")
     ELSE Go(c, "begin")

StoreSecret(c) ==
  /\ pc[c] = "begin"
  /\ Write(c, [seen[c] EXCEPT !.totp = [secret |-> c, confirmedAt |-> FALSE]], FALSE)
  /\ Return(c, "ok")

\* A code that does not match the pending secret changes nothing.
TotpConfirm(c) ==
  \/ Read(c, "totp.confirm", None) /\ Return(c, "unknown") /\ UNCHANGED past
  \/ /\ credential # None /\ ~Enrolled(credential) /\ credential.totp # None
     /\ \E code \in OneTime :
       /\ Matches(credential, code)
       /\ Read(c, "totp.confirm", code)
       /\ Go(c, "claim") /\ past' = [past EXCEPT !.matchedAt[c] = now]

\* Mutant: confirms whatever secret is stored by now.
StoreEnrolmentFresh(c) ==
  /\ pc[c] = "confirm"
  /\ Write(c, [credential EXCEPT !.totp = IF @ = None THEN @ ELSE [@ EXCEPT !.confirmedAt = TRUE],
                                 !.recoveryCodes = RecoveryOf(c)], FALSE)
  /\ Return(c, "ok")

StoreEnrolment(c) ==
  /\ pc[c] = "confirm"
  /\ Write(c, [seen[c] EXCEPT !.totp = [secret |-> seen[c].totp.secret, confirmedAt |-> TRUE],
                              !.recoveryCodes = RecoveryOf(c)], FALSE)
  /\ Return(c, "ok")

TotpRemove(c) ==
  /\ Read(c, "totp.remove", None)
  /\ UNCHANGED past
  /\ IF credential = None THEN Return(c, "unknown") ELSE Go(c, "remove")

\* Mutant: forgets the recovery codes.
StoreRemovalHalf(c) ==
  /\ pc[c] = "remove"
  /\ Write(c, [seen[c] EXCEPT !.totp = None], FALSE)
  /\ Return(c, "ok")

StoreRemoval(c) ==
  /\ pc[c] = "remove"
  /\ Write(c, [seen[c] EXCEPT !.totp = None, !.recoveryCodes = {}], FALSE)
  /\ Return(c, "ok")

RegenerateRecoveryCodes(c) ==
  /\ Read(c, "totp.regenerate", None)
  /\ UNCHANGED past
  /\ IF Enrolled(credential) THEN Go(c, "regenerate") ELSE Return(c, "unknown")

StoreRecoveryCodes(c) ==
  /\ pc[c] = "regenerate"
  /\ Write(c, [seen[c] EXCEPT !.recoveryCodes = RecoveryOf(c)], FALSE)
  /\ Return(c, "ok")

-----------------------------------------------------------------------------
(* Resets. *)

ResetIssue(c) ==
  /\ Read(c, "reset.issue", None)
  /\ UNCHANGED past
  /\ IF credential = None THEN Return(c, "unknown") ELSE Go(c, "store")

StoreReset(c) ==
  /\ pc[c] = "store"
  /\ resets' = [resets EXCEPT ![c] = now + ResetTtl]
  /\ Return(c, "ok")
  /\ UNCHANGED <<credential, memory, sessions, now, plan, seen, input, left, past>>

\* Mutant: finds the token and does not consume it.
ResetCompleteAgain(c) == \E token \in Calls, password \in Passwords :
  /\ pc[c] = "idle" /\ plan[c] = "reset.complete" /\ out[token] = "ok" /\ plan[token] = "reset.issue"
  /\ resets[token] > now
  /\ input' = [input EXCEPT ![c] = password]
  /\ past' = [past EXCEPT !.redeemed = @ \cup {<<token, c>>}]
  /\ Go(c, "find")
  /\ UNCHANGED <<credential, memory, resets, sessions, now, plan, seen, left>>

\* The artifact is found and consumed; consume decides who was first.  A token
\* that was redeemed keeps no expiry here: it is never found unconsumed again.
ResetComplete(c) == \E token \in Calls, password \in Passwords :
  /\ pc[c] = "idle" /\ plan[c] = "reset.complete" /\ out[token] = "ok" /\ plan[token] = "reset.issue"
  /\ input' = [input EXCEPT ![c] = password]
  /\ UNCHANGED <<credential, memory, sessions, now, plan, seen, left>>
  /\ IF resets[token] # None /\ resets[token] > now
     THEN /\ resets' = [resets EXCEPT ![token] = None]
          /\ past' = [past EXCEPT !.redeemed = @ \cup {<<token, c>>}]
          /\ Go(c, "find")
     ELSE Return(c, "invalid") /\ UNCHANGED <<resets, past>>

ResetFind(c) ==
  /\ pc[c] = "find"
  /\ seen' = [seen EXCEPT ![c] = credential]
  /\ Go(c, "set")
  /\ UNCHANGED <<credential, world, input, left, past>>

ListSessions(c) ==
  /\ pc[c] = "list"
  /\ left' = [left EXCEPT ![c] = sessions]
  /\ Go(c, "destroy")
  /\ UNCHANGED <<credential, world, seen, input, past>>

DestroySession(c) ==
  /\ pc[c] = "destroy"
  /\ IF left[c] = {} THEN Return(c, "ok") /\ UNCHANGED <<sessions, left>>
     ELSE \E s \in left[c] : /\ sessions' = sessions \ {s}
                             /\ left' = [left EXCEPT ![c] = @ \ {s}]
                             /\ UNCHANGED <<pc, out>>
  /\ UNCHANGED <<credential, memory, resets, now, plan, seen, input, past>>

-----------------------------------------------------------------------------
Tick ==
  /\ now < MaxTime /\ now' = now + 1
  /\ UNCHANGED <<credential, memory, resets, sessions, plan, pc, seen, input, left, out, past>>

Init ==
  /\ credential \in {None, Created(First), FullyEnrolled}
  /\ counters = [n \in 0..(MaxTime + 1) |-> 0] /\ spent = {}
  /\ resets = [c \in Calls |-> None] /\ sessions = {} /\ now = 0
  /\ plan \in Plans
  /\ pc = [c \in Calls |-> "idle"] /\ seen = [c \in Calls |-> None]
  /\ input = [c \in Calls |-> None] /\ left = [c \in Calls |-> {}]
  /\ out = [c \in Calls |-> None]
  /\ past = [orderly |-> TRUE, started |-> {}, redeemed |-> {},
             failedAt |-> [c \in Calls |-> None], matchedAt |-> [c \in Calls |-> None],
             claimedAt |-> [c \in Calls |-> None], before |-> [c \in Calls |-> {}]]

Next ==
  \/ Tick
  \/ \E c \in Calls :
       \/ Register(c) \/ Create(c) \/ Authenticate(c) \/ Fail(c) \/ Succeed(c) \/ StartSession(c)
       \/ SetPassword(c) \/ StorePassword(c)
       \/ VerifySecondFactor(c) \/ ClaimCounter(c) \/ ClaimRecovery(c) \/ StrikeRecovery(c)
       \/ TotpBegin(c) \/ StoreSecret(c) \/ TotpConfirm(c) \/ StoreEnrolment(c)
       \/ TotpRemove(c) \/ StoreRemoval(c) \/ RegenerateRecoveryCodes(c) \/ StoreRecoveryCodes(c)
       \/ ResetIssue(c) \/ StoreReset(c) \/ ResetComplete(c) \/ ResetFind(c)
       \/ ListSessions(c) \/ DestroySession(c)

Spec == Init /\ [][Next]_vars

-----------------------------------------------------------------------------
(* Properties. *)

\* The credential is a whole record, whatever writes raced over it, and a call
\* that ended has said how.
TypeOK ==
  /\ credential \in Credential \cup {None}
  /\ counters \in [0..(MaxTime + 1) -> 0..(MaxTime + TotpTtl)] /\ spent \subseteq Recovery
  /\ resets \in [Calls -> (0..(MaxTime + ResetTtl)) \cup {None}] /\ sessions \subseteq Calls
  /\ seen \in [Calls -> Credential \cup {None}]
  /\ \A c \in Calls : IF pc[c] = "done" THEN out[c] \in Results ELSE out[c] = None

Accepted(c) == plan[c] = "verifySecondFactor" /\ out[c] = "ok"

\* A recovery code signs in once, also when a write that raced with its use put
\* it back on the list (accounts/index.ts:238-243).
RecoveryOnce ==
  \A c, d \in Calls : Accepted(c) /\ Accepted(d) /\ input[c] \in Recovery /\ input[c] = input[d] => c = d

\* A counter is accepted once, by a sign-in or an enrolment, as long as no period
\* passes between matchingCounter's look at the clock and the claim: the claim's
\* 3 * TOTP_PERIOD ends where the window does (accounts/index.ts:229-230, 272).
CounterOnce ==
  \A c, d \in Calls :
    c # d /\ past.claimedAt[c] # None /\ past.claimedAt[d] # None /\ input[c].counter = input[d].counter
    => past.matchedAt[c] < past.claimedAt[c] \/ past.matchedAt[d] < past.claimedAt[d]

\* One reset token sets one password, however often its link is opened.
ResetOnce == \A r, s \in past.redeemed : r[1] = s[1] => r = s

\* What works once works once: a recovery code, a counter, a reset link.
SpentOnce == RecoveryOnce /\ CounterOnce /\ ResetOnce

\* A reset that answers ok has ended every session there was when it stored the
\* new password (accounts/index.ts:336-338).
ResetEndsOlder ==
  \A c \in Calls :
    plan[c] = "reset.complete" /\ out[c] = "ok" => past.before[c] \cap sessions = {}

\* As long as every attempt reads what the one before it wrote, and none of them
\* is right, a period of lockout sees no more than maxFailedAttempts guesses.
GuessesAreCounted ==
  past.orderly =>
    \A t \in 0..MaxTime :
      Cardinality({c \in Calls : past.failedAt[c] \in t..(t + Lockout - 1)}) <= MaxFailedAttempts

\* Recovery codes are never on the record of an account without a second factor,
\* through every stale write of every operation.
CodesNeedAFactor == credential # None /\ credential.recoveryCodes # {} => Enrolled(credential)

\* A second factor in force has shown a code of its own secret, whatever other
\* enrolment was begun meanwhile (accounts/index.ts:268-279).
FactorWasProven ==
  Enrolled(credential) /\ credential.totp.secret # First =>
    \E c \in Calls : /\ plan[c] = "totp.confirm" /\ past.claimedAt[c] # None
                     /\ input[c].secret = credential.totp.secret

\* Both: factors and recovery codes stay what the owner proved and was shown, whichever
\* whole records the other calls write back (accounts/index.ts:141, 238-243, 268-290).
FactorsStand == CodesNeedAFactor /\ FactorWasProven
================================================================================
