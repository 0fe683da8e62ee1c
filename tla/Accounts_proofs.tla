---------------------------- MODULE Accounts_proofs ----------------------------
(* Theorems about the two ways to sign in, for every value of their constants: Accounts, of
   which IInv is the inductive invariant, and Broker, at the end, with BrokerInv. *)
EXTENDS Accounts, Broker, FiniteSetTheorems, TLAPS

-----------------------------------------------------------------------------
(* The inductive invariant. *)

Places == {"idle", "create", "fail", "succeed", "set", "claim", "claimRecovery", "strike", "begin", "confirm",
           "remove", "regenerate", "store", "find", "list", "destroy", "done"}
Times == [Calls -> Nat \cup {None}]
Memory == [orderly : BOOLEAN, started : SUBSET Calls, redeemed : SUBSET (Calls \X Calls),
           failedAt : Times, matchedAt : Times, claimedAt : Times, before : [Calls -> SUBSET Calls]]

Types ==
  /\ TypeOK /\ now \in 0..MaxTime /\ past \in Memory
  /\ pc \in [Calls -> Places] /\ out \in [Calls -> Results \cup {None}]
  /\ left \in [Calls -> SUBSET Calls]
  /\ input \in [Calls -> Passwords \cup OneTime \cup Recovery \cup {None}]

\* Where a call of an operation can stand.
Place(c) ==
  /\ pc[c] = "create" => plan[c] = "register"
  /\ pc[c] \in {"fail", "succeed"} => plan[c] \in {"authenticate", "verifySecondFactor"}
  /\ pc[c] = "set" => plan[c] \in {"setPassword", "reset.complete"}
  /\ pc[c] = "claim" => plan[c] \in {"verifySecondFactor", "totp.confirm"}
  /\ pc[c] \in {"claimRecovery", "strike"} => plan[c] = "verifySecondFactor"
  /\ pc[c] = "begin" => plan[c] = "totp.begin"
  /\ pc[c] = "confirm" => plan[c] = "totp.confirm"
  /\ pc[c] = "remove" => plan[c] = "totp.remove"
  /\ pc[c] = "regenerate" => plan[c] = "totp.regenerate"
  /\ pc[c] = "store" => plan[c] = "reset.issue"
  /\ pc[c] \in {"find", "list", "destroy"} => plan[c] = "reset.complete"

\* What it has been given and has read by then.
Given(c) ==
  /\ pc[c] \in {"create", "set", "find"} => input[c] \in Passwords
  /\ pc[c] \in {"claimRecovery", "strike"} => input[c] \in Recovery
  /\ pc[c] \in {"claim", "confirm"} \/ (pc[c] = "succeed" /\ plan[c] = "verifySecondFactor") => input[c] \in OneTime
  /\ pc[c] \in {"fail", "succeed", "set", "claim", "claimRecovery", "strike", "begin", "confirm", "remove",
                "regenerate"} => seen[c] \in Credential
  /\ pc[c] \in {"claim", "confirm"} /\ plan[c] = "totp.confirm" =>
       seen[c].totp \in Totp /\ input[c].secret = seen[c].totp.secret
  /\ seen[c] # None => credential # None
  /\ pc[c] \in {"store", "find"} \/ (plan[c] = "reset.issue" /\ out[c] = "ok") => credential # None

Knows == \A c \in Calls : Place(c) /\ Given(c)

-----------------------------------------------------------------------------
(* Types. *)

\* A call's operations, one disjunct for each.
Begin(c) ==
  Register(c) \/ Authenticate(c) \/ SetPassword(c) \/ VerifySecondFactor(c) \/ TotpBegin(c) \/ TotpConfirm(c)
  \/ TotpRemove(c) \/ RegenerateRecoveryCodes(c) \/ ResetIssue(c)
Store(c) ==
  Fail(c) \/ Succeed(c) \/ StorePassword(c) \/ StrikeRecovery(c) \/ StoreSecret(c) \/ StoreEnrolment(c)
  \/ StoreRemoval(c) \/ StoreRecoveryCodes(c)
Other(c) ==
  Create(c) \/ StartSession(c) \/ ClaimCounter(c) \/ ClaimRecovery(c) \/ StoreReset(c) \/ ResetComplete(c)
  \/ ResetFind(c) \/ ListSessions(c) \/ DestroySession(c)

\* A step is the clock's, or a call's: its first, a write of the record, or another.
LEMMA Steps == Next => Tick \/ \E c \in Calls : Begin(c) \/ Store(c) \/ Other(c)
BY DEF Next, Begin, Store, Other

\* The constants' types.
LEMMA Constants ==
  /\ RecoveryCodes \in Nat /\ MaxFailedAttempts \in Nat \ {0} /\ Lockout \in Nat \ {0} /\ ResetTtl \in Nat \ {0}
  /\ MaxTime \in Nat /\ TotpTtl = 3
  /\ \A c \in Calls : c \in Secrets /\ RecoveryOf(c) \in SUBSET Recovery
  /\ RecoveryOf(First) \in SUBSET Recovery /\ First \in Secrets
BY AccountsAssumption DEF TotpTtl, Secrets, Recovery

\* A credential can be taken apart, and put together again.
LEMMA CredentialParts ==
  ASSUME NEW k \in Credential
  PROVE  /\ k.passwordHash \in Passwords /\ k.failedAttempts \in 0..(MaxFailedAttempts - 1)
         /\ k.lockedUntil \in 0..(MaxTime + Lockout) /\ k.totp \in Totp \cup {None}
         /\ k.recoveryCodes \in SUBSET Recovery
         /\ k # None
BY NoneAssumption DEF Credential

\* The two records an account may begin with are whole.
LEMMA CreatedType ==
  /\ \A password \in Passwords : Created(password) \in Credential
  /\ FullyEnrolled \in Credential
<1>1. 0 \in 0..(MaxFailedAttempts - 1) /\ 0 \in 0..(MaxTime + Lockout)
  BY Constants
<1>2. \A password \in Passwords : Created(password) \in Credential
  BY <1>1 DEF Created, Credential
<1>3. Created(First) \in Credential /\ [secret |-> First, confirmedAt |-> TRUE] \in Totp
  BY <1>2, Constants, AccountsAssumption DEF Totp
<1>4. FullyEnrolled \in Credential
  BY <1>3, Constants DEF FullyEnrolled, Credential
<1>. QED BY <1>2, <1>4

\* The initial states are well typed.
LEMMA TypesInit == Init => Types /\ Knows
<1> SUFFICES ASSUME Init PROVE Types /\ Knows
  OBVIOUS
<1>1. TypeOK
  BY CreatedType, Constants, AccountsAssumption DEF Init, TypeOK
<1>2. past \in Memory
  BY DEF Init, Memory, Times
<1>3. Types
  BY <1>1, <1>2, Constants DEF Init, Types, Places
<1>4. Knows
  <2>1. \A c \in Calls : pc[c] = "idle" /\ out[c] = None /\ seen[c] = None /\ "ok" \in Results
    BY DEF Init, Results
  <2>. QED BY <2>1, NoneAssumption DEF Knows, Place, Given
<1>. QED BY <1>3, <1>4

\* What a call's first step does: it reads the record and is given something, and nothing is written.
LEMMA BeginReads ==
  ASSUME Types, NEW c \in Calls, Begin(c)
  PROVE  /\ pc[c] = "idle" /\ UNCHANGED <<credential, counters, spent, resets, sessions, now, plan, left>>
         /\ seen' = [seen EXCEPT ![c] = credential]
         /\ \E given : input' = [input EXCEPT ![c] = given]
         /\ \E to \in Places : pc' = [pc EXCEPT ![c] = to]
         /\ \/ pc'[c] # "done" /\ UNCHANGED out
            \/ pc'[c] = "done" /\ \E result \in Results \ {"ok"} : out' = [out EXCEPT ![c] = result]
         /\ IF pc'[c] = "claim" THEN past' = [past EXCEPT !.matchedAt[c] = now] /\ Matches(credential, input'[c])
            ELSE past' = past
<1> USE DEF world, memory, Read, Go, Return, Places, Results
<1>0. pc \in [Calls -> Places] /\ input \in [Calls -> Passwords \cup OneTime \cup Recovery \cup {None}]
  BY DEF Types
<1>1. CASE Register(c)
  BY <1>0, <1>1 DEF Register
<1>2. CASE Authenticate(c)
  BY <1>0, <1>2 DEF Authenticate
<1>3. CASE SetPassword(c)
  BY <1>0, <1>3 DEF SetPassword
<1>4. CASE VerifySecondFactor(c)
  BY <1>0, <1>4 DEF VerifySecondFactor
<1>5. CASE TotpBegin(c)
  BY <1>0, <1>5 DEF TotpBegin
<1>6. CASE TotpConfirm(c)
  BY <1>0, <1>6 DEF TotpConfirm
<1>7. CASE TotpRemove(c)
  BY <1>0, <1>7 DEF TotpRemove
<1>8. CASE RegenerateRecoveryCodes(c)
  BY <1>0, <1>8 DEF RegenerateRecoveryCodes
<1>9. CASE ResetIssue(c)
  BY <1>0, <1>9 DEF ResetIssue
<1>. QED BY <1>1, <1>2, <1>3, <1>4, <1>5, <1>6, <1>7, <1>8, <1>9 DEF Begin

\* ... and what the call then knows.
LEMMA BeginKnows ==
  ASSUME Types, Knows, NEW c \in Calls, Begin(c)
  PROVE  Place(c)' /\ Given(c)' /\ input'[c] \in Passwords \cup OneTime \cup Recovery \cup {None}
<1> USE DEF Read, Go, Return
<1>0. /\ pc \in [Calls -> Places] /\ input \in [Calls -> Passwords \cup OneTime \cup Recovery \cup {None}]
      /\ seen \in [Calls -> Credential \cup {None}] /\ out \in [Calls -> Results \cup {None}]
      /\ credential \in Credential \cup {None} /\ pc[c] = "idle" /\ out[c] = None /\ None \notin Results
      /\ UNCHANGED <<credential, plan>>
  BY BeginReads, NoneAssumption DEF Types, TypeOK
<1>1. CASE Register(c)
  BY <1>0, <1>1 DEF Register, Place, Given, Results
<1>2. CASE Authenticate(c)
  BY <1>0, <1>2 DEF Authenticate, Place, Given, Results
<1>3. CASE SetPassword(c)
  BY <1>0, <1>3 DEF SetPassword, Place, Given, Results
<1>4. CASE VerifySecondFactor(c)
  <2>1. CASE /\ Read(c, "verifySecondFactor", None) /\ Return(c, "refused")
    BY <1>0, <2>1 DEF Place, Given, Results
  <2>2. CASE /\ Enrolled(credential)
             /\ \E code \in Useful(credential) :
                  /\ Read(c, "verifySecondFactor", code)
                  /\ IF Matches(credential, code) THEN Go(c, "claim")
                     ELSE Go(c, IF code \in credential.recoveryCodes THEN "claimRecovery" ELSE "fail")
    <3>1. credential \in Credential /\ credential.recoveryCodes \in SUBSET Recovery
      BY <1>0, <2>2, CredentialParts DEF Enrolled
    <3>2. PICK code \in Useful(credential) :
                  /\ Read(c, "verifySecondFactor", code)
                  /\ IF Matches(credential, code) THEN Go(c, "claim")
                     ELSE Go(c, IF code \in credential.recoveryCodes THEN "claimRecovery" ELSE "fail")
      BY <2>2
    <3>3. code \in OneTime \cup Recovery \cup {None} /\ (Matches(credential, code) => code \in OneTime)
      BY <3>1 DEF Useful, Matches
    <3>. QED BY <1>0, <3>1, <3>2, <3>3 DEF Place, Given, Results
  <2>. QED BY <1>4, <2>1, <2>2 DEF VerifySecondFactor
<1>5. CASE TotpBegin(c)
  BY <1>0, <1>5 DEF TotpBegin, Place, Given, Results
<1>6. CASE TotpConfirm(c)
  <2>1. CASE Read(c, "totp.confirm", None) /\ Return(c, "unknown")
    BY <1>0, <2>1 DEF Place, Given, Results
  <2>2. CASE /\ credential # None /\ credential.totp # None
             /\ \E code \in OneTime :
                  Matches(credential, code) /\ Read(c, "totp.confirm", code) /\ Go(c, "claim")
    <3>1. credential.totp \in Totp
      BY <1>0, <2>2, CredentialParts
    <3>. QED BY <1>0, <2>2, <3>1 DEF Place, Given, Matches
  <2>. QED BY <1>6, <2>1, <2>2 DEF TotpConfirm
<1>7. CASE TotpRemove(c)
  BY <1>0, <1>7 DEF TotpRemove, Place, Given, Results
<1>8. CASE RegenerateRecoveryCodes(c)
  BY <1>0, <1>8 DEF RegenerateRecoveryCodes, Place, Given, Results, Enrolled
<1>9. CASE ResetIssue(c)
  BY <1>0, <1>9 DEF ResetIssue, Place, Given, Results
<1>. QED BY <1>1, <1>2, <1>3, <1>4, <1>5, <1>6, <1>7, <1>8, <1>9 DEF Begin

\* What a write does: the record it leaves is the one the call read but for the call's own fields.
LEMMA Writes ==
  ASSUME Types, Knows, NEW c \in Calls, Store(c)
  PROVE  /\ credential' \in Credential /\ UNCHANGED <<counters, spent, resets, sessions, now, plan, left, input>>
         /\ pc[c] \in {"fail", "succeed", "set", "strike", "begin", "confirm", "remove", "regenerate"}
         /\ seen' = seen \/ seen' = [seen EXCEPT ![c] = None]
         /\ \/ pc' = [pc EXCEPT ![c] = "list"] /\ UNCHANGED out /\ pc[c] = "set" /\ plan[c] = "reset.complete"
            \/ /\ pc' = [pc EXCEPT ![c] = "done"] /\ \E result \in Results : out' = [out EXCEPT ![c] = result]
               /\ pc[c] = "set" => plan[c] # "reset.complete"
<1> USE DEF world, memory, Go, Return, Write
<1>0. seen[c] \in Credential /\ pc[c] \in {"fail", "succeed", "set", "strike", "begin", "confirm", "remove", "regenerate"}
  BY DEF Knows, Given, Store, Fail, Succeed, StorePassword, StrikeRecovery, StoreSecret, StoreEnrolment, StoreRemoval,
         StoreRecoveryCodes
<1> DEFINE k == seen[c]
<1>1. /\ k.passwordHash \in Passwords /\ k.failedAttempts \in 0..(MaxFailedAttempts - 1)
      /\ k.lockedUntil \in 0..(MaxTime + Lockout) /\ k.totp \in Totp \cup {None}
      /\ k.recoveryCodes \in SUBSET Recovery
  BY <1>0, CredentialParts
<1>2. /\ now \in 0..MaxTime /\ 0 \in 0..(MaxFailedAttempts - 1) /\ 0 \in 0..(MaxTime + Lockout)
      /\ now + Lockout \in 0..(MaxTime + Lockout)
      /\ c \in Secrets /\ RecoveryOf(c) \in SUBSET Recovery
  BY Constants DEF Types
<1>3. CASE Fail(c)
  <2>1. k.failedAttempts + 1 < MaxFailedAttempts => k.failedAttempts + 1 \in 0..(MaxFailedAttempts - 1)
    BY <1>1, Constants
  <2>2. credential' \in Credential
    <3>1. CASE k.failedAttempts + 1 >= MaxFailedAttempts
      <4>1. [k EXCEPT !.failedAttempts = 0, !.lockedUntil = now + Lockout] \in Credential
        BY <1>0, <1>1, <1>2 DEF Credential
      <4>. QED BY <1>3, <3>1, <4>1 DEF Fail
    <3>2. CASE ~(k.failedAttempts + 1 >= MaxFailedAttempts)
      <4>0. k.failedAttempts + 1 \in 0..(MaxFailedAttempts - 1)
        BY <1>1, <2>1, <3>2, Constants
      <4>1. [k EXCEPT !.failedAttempts = k.failedAttempts + 1, !.lockedUntil = 0] \in Credential
        BY <1>0, <1>1, <1>2, <4>0 DEF Credential
      <4>2. credential' = [k EXCEPT !.failedAttempts = k.failedAttempts + 1, !.lockedUntil = 0]
        BY <1>0, <1>3, <3>2 DEF Fail, Credential
      <4>. QED BY <4>1, <4>2
    <3>. QED BY <3>1, <3>2
  <2>. QED BY <1>0, <1>3, <2>2 DEF Fail, Results
<1>4. CASE Succeed(c)
  <2>1. [k EXCEPT !.failedAttempts = 0, !.lockedUntil = 0] \in Credential
    BY <1>0, <1>1, <1>2 DEF Credential
  <2>2. credential \in Credential
    BY <1>0, NoneAssumption DEF Knows, Given, Types, TypeOK
  <2>. QED BY <1>0, <1>4, <2>1, <2>2 DEF Succeed, Results
<1>5. CASE StorePassword(c)
  <2>1. input[c] \in Passwords
    BY <1>5 DEF StorePassword, Knows, Given
  <2>2. credential' \in Credential
    BY <1>0, <1>1, <1>2, <1>5, <2>1 DEF StorePassword, Credential
  <2>. QED BY <1>0, <1>5, <2>2 DEF StorePassword, Results
<1>6. CASE StrikeRecovery(c)
  <2>1. credential' \in Credential
    BY <1>0, <1>1, <1>2, <1>6 DEF StrikeRecovery, Credential
  <2>. QED BY <1>0, <1>6, <2>1 DEF StrikeRecovery, Results
<1>7. CASE StoreSecret(c)
  <2>1. [secret |-> c, confirmedAt |-> FALSE] \in Totp
    BY <1>2 DEF Totp
  <2>2. credential' \in Credential
    BY <1>0, <1>1, <1>7, <2>1 DEF StoreSecret, Credential
  <2>. QED BY <1>0, <1>7, <2>2 DEF StoreSecret, Results
<1>8. CASE StoreEnrolment(c)
  <2>1. k.totp \in Totp
    BY <1>8 DEF StoreEnrolment, Knows, Given, Place
  <2>2. [secret |-> k.totp.secret, confirmedAt |-> TRUE] \in Totp
    BY <2>1 DEF Totp
  <2>3. credential' \in Credential
    BY <1>0, <1>1, <1>2, <1>8, <2>2 DEF StoreEnrolment, Credential
  <2>. QED BY <1>0, <1>8, <2>3 DEF StoreEnrolment, Results
<1>9. CASE StoreRemoval(c)
  <2>1. credential' \in Credential
    BY <1>0, <1>1, <1>9 DEF StoreRemoval, Credential
  <2>. QED BY <1>0, <1>9, <2>1 DEF StoreRemoval, Results
<1>10. CASE StoreRecoveryCodes(c)
  <2>1. credential' \in Credential
    BY <1>0, <1>1, <1>2, <1>10 DEF StoreRecoveryCodes, Credential
  <2>. QED BY <1>0, <1>10, <2>1 DEF StoreRecoveryCodes, Results
<1>. QED BY <1>3, <1>4, <1>5, <1>6, <1>7, <1>8, <1>9, <1>10 DEF Store

\* What a write remembers for the properties.
LEMMA WritePast ==
  ASSUME Types, NEW c \in Calls, Store(c)
  PROVE  /\ past' \in Memory
         /\ past'.started = past.started /\ past'.redeemed = past.redeemed
         /\ past'.matchedAt = past.matchedAt /\ past'.claimedAt = past.claimedAt
         /\ past'.failedAt = IF pc[c] = "fail" THEN [past.failedAt EXCEPT ![c] = now] ELSE past.failedAt
         /\ past'.before = IF pc[c] = "set" THEN [past.before EXCEPT ![c] = sessions] ELSE past.before
         /\ past'.orderly => past.orderly
<1>0. past \in Memory /\ now \in Nat /\ sessions \in SUBSET Calls
  BY Constants DEF Types, TypeOK
<1>1. CASE Fail(c)
  BY <1>0, <1>1 DEF Fail, Memory, Times
<1>2. CASE StorePassword(c)
  BY <1>0, <1>2 DEF StorePassword, Memory, Times
<1>3. CASE Succeed(c) \/ StrikeRecovery(c) \/ StoreSecret(c) \/ StoreEnrolment(c) \/ StoreRemoval(c) \/ StoreRecoveryCodes(c)
  <2>1. pc[c] \notin {"fail", "set"} /\ \E b \in BOOLEAN : past' = past \/ past' = [past EXCEPT !.orderly = past.orderly /\ b]
    BY <1>0, <1>3 DEF Succeed, StrikeRecovery, StoreSecret, StoreEnrolment, StoreRemoval, StoreRecoveryCodes, Write, Memory
  <2>. QED BY <1>0, <2>1 DEF Memory
<1>. QED BY <1>1, <1>2, <1>3 DEF Store

\* What the call knows when it has written.
LEMMA WriteKnows ==
  ASSUME Types, Knows, NEW c \in Calls, Store(c)
  PROVE  Place(c)' /\ Given(c)'
<1>0. /\ pc \in [Calls -> Places] /\ seen \in [Calls -> Credential \cup {None}] /\ out \in [Calls -> Results \cup {None}]
      /\ credential' \in Credential /\ credential' # None
      /\ UNCHANGED <<plan, input>> /\ seen'[c] \in {seen[c], None}
  BY Writes, CredentialParts DEF Types, TypeOK
<1>1. CASE pc' = [pc EXCEPT ![c] = "list"] /\ plan[c] = "reset.complete"
  BY <1>0, <1>1 DEF Place, Given
<1>2. CASE pc' = [pc EXCEPT ![c] = "done"]
  BY <1>0, <1>2 DEF Place, Given
<1>. QED BY <1>1, <1>2, Writes

\* A call leaves the others where they are.
LEMMA Alone ==
  ASSUME Types, Knows, NEW c \in Calls, Begin(c) \/ Store(c) \/ Other(c), NEW d \in Calls \ {c}
  PROVE  /\ pc'[d] = pc[d] /\ seen'[d] = seen[d] /\ input'[d] = input[d] /\ left'[d] = left[d] /\ out'[d] = out[d]
         /\ plan' = plan /\ (credential # None => credential' # None)
<1>1. CASE Begin(c)
  BY <1>1, BeginReads DEF Types, TypeOK
<1>2. CASE Store(c)
  BY <1>2, Writes, CredentialParts DEF Types, TypeOK
<1>3. CASE Other(c)
  <2> USE DEF Go, Return, world, memory, Types, TypeOK
  <2>1. CASE Create(c)
    BY <2>1 DEF Create
  <2>2. CASE StartSession(c)
    BY <2>2 DEF StartSession
  <2>3. CASE ClaimCounter(c)
    BY <2>3 DEF ClaimCounter
  <2>4. CASE ClaimRecovery(c)
    BY <2>4 DEF ClaimRecovery
  <2>5. CASE StoreReset(c)
    BY <2>5 DEF StoreReset
  <2>6. CASE ResetComplete(c)
    BY <2>6 DEF ResetComplete
  <2>7. CASE ResetFind(c)
    BY <2>7 DEF ResetFind
  <2>8. CASE ListSessions(c)
    BY <2>8 DEF ListSessions
  <2>9. CASE DestroySession(c)
    BY <2>9 DEF DestroySession
  <2>. QED BY <1>3, <2>1, <2>2, <2>3, <2>4, <2>5, <2>6, <2>7, <2>8, <2>9 DEF Other
<1>. QED BY <1>1, <1>2, <1>3

\* Every step keeps the types, and what the calls know.
LEMMA TypesNext == Types /\ Knows /\ [Next]_vars => Types' /\ Knows'
<1> SUFFICES ASSUME Types, Knows, [Next]_vars PROVE Types' /\ Knows'
  OBVIOUS
<1>1. CASE UNCHANGED vars
  BY <1>1 DEF vars, Types, TypeOK, Knows, Place, Given
<1>2. CASE Tick
  BY <1>2, Constants DEF Tick, memory, Types, TypeOK, Knows, Place, Given
<1>3. ASSUME NEW c \in Calls, Begin(c) \/ Store(c) \/ Other(c) PROVE Types' /\ Knows'
  <2>1. Knows' <=> Place(c)' /\ Given(c)'
    BY <1>3, Alone DEF Knows, Place, Given
  <2>2. CASE Begin(c)
    <3>1. /\ pc' \in [Calls -> Places] /\ out' \in [Calls -> Results \cup {None}]
          /\ input' \in [Calls -> Passwords \cup OneTime \cup Recovery \cup {None}]
          /\ seen' \in [Calls -> Credential \cup {None}]
      BY <2>2, BeginReads, BeginKnows DEF Types, TypeOK
    <3>2. \A d \in Calls : IF pc'[d] = "done" THEN out'[d] \in Results ELSE out'[d] = None
      BY <2>2, BeginReads DEF Types, TypeOK
    <3>3. past' \in Memory
      <4>1. now \in Nat /\ past \in Memory
        BY Constants DEF Types
      <4>. QED BY <2>2, <4>1, BeginReads DEF Memory, Times
    <3>. QED BY <2>1, <2>2, <3>1, <3>2, <3>3, BeginReads, BeginKnows DEF Types, TypeOK
  <2>3. CASE Store(c)
    <3>1. /\ pc' \in [Calls -> Places] /\ out' \in [Calls -> Results \cup {None}]
          /\ seen' \in [Calls -> Credential \cup {None}]
      BY <2>3, Writes DEF Types, TypeOK, Places
    <3>2. \A d \in Calls : IF pc'[d] = "done" THEN out'[d] \in Results ELSE out'[d] = None
      BY <2>3, Writes DEF Types, TypeOK
    <3>. QED BY <2>1, <2>3, <3>1, <3>2, Writes, WritePast, WriteKnows DEF Types, TypeOK
  <2>4. CASE Create(c)
    <3>1. input[c] \in Passwords
      BY <2>4 DEF Create, Knows, Given
    <3>2. credential' \in Credential \cup {None} /\ credential' # None
      BY <2>4, <3>1, CreatedType, NoneAssumption DEF Create, Types, TypeOK
    <3>3. Types'
      BY <2>4, <3>2 DEF Create, Return, world, Types, TypeOK, Results, Places
    <3>4. Place(c)' /\ Given(c)'
      BY <2>4, <3>2 DEF Create, Return, world, Types, Place, Given
    <3>. QED BY <2>1, <3>3, <3>4
  <2>5. CASE StartSession(c)
    <3>1. past' \in Memory
      BY <2>5 DEF StartSession, Types, Memory
    <3>2. Types'
      BY <2>5, <3>1 DEF StartSession, memory, Types, TypeOK
    <3>3. Place(c)' /\ Given(c)'
      BY <2>5 DEF StartSession, Knows, Place, Given
    <3>. QED BY <2>1, <3>2, <3>3
  <2>6. CASE ClaimCounter(c)
    <3>1. input[c].counter \in 0..(MaxTime + 1) /\ now + TotpTtl \in 0..(MaxTime + TotpTtl)
      BY <2>6, Constants DEF ClaimCounter, Knows, Given, OneTime, Types
    <3>2. past' \in Memory
      <4>1. past \in Memory /\ now \in Nat
        BY Constants DEF Types
      <4>. QED BY <2>6, <4>1 DEF ClaimCounter, Memory, Times
    <3>3. counters' \in [0..(MaxTime + 1) -> 0..(MaxTime + TotpTtl)]
      BY <2>6, <3>1 DEF ClaimCounter, Types, TypeOK
    <3>4. Types'
      BY <2>6, <3>2, <3>3 DEF ClaimCounter, Go, Return, Types, TypeOK, Places, Results
    <3>5. Place(c)' /\ Given(c)'
      BY <2>6 DEF ClaimCounter, Go, Return, Types, Knows, Place, Given
    <3>. QED BY <2>1, <3>4, <3>5
  <2>7. CASE ClaimRecovery(c)
    <3>1. input[c] \in Recovery
      BY <2>7 DEF ClaimRecovery, Knows, Given
    <3>2. Types'
      BY <2>7, <3>1 DEF ClaimRecovery, Go, Types, TypeOK, Places
    <3>3. Place(c)' /\ Given(c)'
      BY <2>7 DEF ClaimRecovery, Go, Types, Knows, Place, Given
    <3>. QED BY <2>1, <3>2, <3>3
  <2>8. CASE StoreReset(c)
    <3>1. now + ResetTtl \in 0..(MaxTime + ResetTtl)
      BY Constants DEF Types
    <3>2. Types'
      BY <2>8, <3>1 DEF StoreReset, Return, memory, Types, TypeOK, Places, Results
    <3>3. Place(c)' /\ Given(c)'
      BY <2>8 DEF StoreReset, Return, Types, Knows, Place, Given
    <3>. QED BY <2>1, <3>2, <3>3
  <2>9. CASE ResetComplete(c)
    <3>1. PICK token \in Calls, password \in Passwords :
            /\ pc[c] = "idle" /\ plan[c] = "reset.complete" /\ out[token] = "ok" /\ plan[token] = "reset.issue"
            /\ input' = [input EXCEPT ![c] = password]
            /\ IF resets[token] # None /\ resets[token] > now
               THEN /\ resets' = [resets EXCEPT ![token] = None]
                    /\ past' = [past EXCEPT !.redeemed = @ \cup {<<token, c>>}]
                    /\ Go(c, "find")
               ELSE Return(c, "invalid") /\ UNCHANGED <<resets, past>>
      BY <2>9 DEF ResetComplete
    <3>2. past' \in Memory
      BY <3>1 DEF Types, Memory
    <3>3. UNCHANGED <<credential, counters, spent, sessions, now, plan, seen, left>>
      BY <2>9 DEF ResetComplete, memory
    <3>4. Types'
      BY <3>1, <3>2, <3>3 DEF Go, Return, Types, TypeOK, Places, Results
    <3>5. credential # None
      BY <3>1 DEF Knows, Given
    <3>6. Place(c)' /\ Given(c)'
      BY <3>1, <3>3, <3>5 DEF Go, Return, Types, Knows, Place, Given
    <3>. QED BY <2>1, <3>4, <3>6
  <2>10. CASE ResetFind(c)
    <3>1. credential \in Credential /\ credential # None
      BY <2>10 DEF ResetFind, Knows, Given, Types, TypeOK
    <3>2. Types'
      BY <2>10, <3>1 DEF ResetFind, Go, world, Types, TypeOK, Places
    <3>3. Place(c)' /\ Given(c)'
      BY <2>10, <3>1 DEF ResetFind, Go, world, Types, TypeOK, Knows, Place, Given
    <3>. QED BY <2>1, <3>2, <3>3
  <2>11. CASE ListSessions(c)
    <3>1. Types'
      BY <2>11 DEF ListSessions, Go, world, Types, TypeOK, Places
    <3>2. Place(c)' /\ Given(c)'
      BY <2>11 DEF ListSessions, Go, world, Types, Knows, Place, Given
    <3>. QED BY <2>1, <3>1, <3>2
  <2>12. CASE DestroySession(c)
    <3>1. Types'
      BY <2>12 DEF DestroySession, Return, memory, Types, TypeOK, Places, Results
    <3>2. Place(c)' /\ Given(c)'
      BY <2>12 DEF DestroySession, Return, memory, Types, Knows, Place, Given
    <3>. QED BY <2>1, <3>1, <3>2
  <2>. QED BY <1>3, <2>2, <2>3, <2>4, <2>5, <2>6, <2>7, <2>8, <2>9, <2>10, <2>11, <2>12 DEF Other
<1>. QED BY <1>1, <1>2, <1>3, Steps

\* ... and what the properties remember of them.
LEMMA AlonePast ==
  ASSUME Types, Knows, NEW c \in Calls, Begin(c) \/ Store(c) \/ Other(c), NEW d \in Calls \ {c}
  PROVE  /\ past'.failedAt[d] = past.failedAt[d] /\ past'.matchedAt[d] = past.matchedAt[d]
         /\ past'.claimedAt[d] = past.claimedAt[d] /\ past'.before[d] = past.before[d]
<1>0. past \in Memory
  BY DEF Types
<1>1. CASE Begin(c)
  BY <1>0, <1>1, BeginReads DEF Memory, Times
<1>2. CASE Store(c)
  <2>1. past.failedAt \in [Calls -> Nat \cup {None}] /\ past.before \in [Calls -> SUBSET Calls]
    BY <1>0 DEF Memory, Times
  <2>2. /\ past'.matchedAt = past.matchedAt /\ past'.claimedAt = past.claimedAt
        /\ past'.failedAt = past.failedAt \/ past'.failedAt = [past.failedAt EXCEPT ![c] = now]
        /\ past'.before = past.before \/ past'.before = [past.before EXCEPT ![c] = sessions]
    BY <1>2, WritePast
  <2>3. past'.failedAt[d] = past.failedAt[d]
    BY <2>1, <2>2
  <2>4. past'.before[d] = past.before[d]
    BY <2>1, <2>2
  <2>. QED BY <2>2, <2>3, <2>4
<1>3. CASE Other(c)
  <2>1. \/ past' = past \/ past' = [past EXCEPT !.claimedAt[c] = now]
        \/ \E new : past' = [past EXCEPT !.started = new] \/ past' = [past EXCEPT !.redeemed = new]
    BY <1>3 DEF Other, Create, StartSession, ClaimCounter, ClaimRecovery, StoreReset, ResetComplete, ResetFind,
                ListSessions, DestroySession
  <2>. QED BY <1>0, <2>1 DEF Memory, Times
<1>. QED BY <1>1, <1>2, <1>3

\* A call that has ended takes no further step, but that the host may start a session on it.
LEMMA Final ==
  ASSUME Types, Knows, NEW c \in Calls, Begin(c) \/ Store(c) \/ Other(c), pc[c] = "done"
  PROVE  StartSession(c) /\ UNCHANGED <<pc, seen, input, left, out, plan, resets, spent, counters, credential>>
<1>1. ~Begin(c) /\ ~Store(c)
  BY BeginReads, Writes
<1>2. StartSession(c)
  <2>1. out[c] \in Results
    BY DEF Types, TypeOK
  <2>. QED BY <1>1 DEF Other, Create, ClaimCounter, ClaimRecovery, StoreReset, ResetComplete, ResetFind, ListSessions,
                       DestroySession
<1>. QED BY <1>2 DEF StartSession, memory

-----------------------------------------------------------------------------
(* What works once works once. *)

\* A call that has struck a recovery code, or is about to.
Redeeming(c) == pc[c] = "strike" \/ (Accepted(c) /\ input[c] \in Recovery)

\* A code that is being used is claimed, by one call.
Recoveries ==
  /\ \A c \in Calls : Redeeming(c) => input[c] \in spent
  /\ \A c, d \in Calls : Redeeming(c) /\ Redeeming(d) /\ input[c] = input[d] => c = d

\* No one-time code is spelled like a recovery code.
LEMMA CodesDiffer == OneTime \cap Recovery = {}
<1> SUFFICES ASSUME NEW o \in OneTime, o \in Recovery PROVE FALSE
  OBVIOUS
<1>1. PICK r, i : o = [issuer |-> r, place |-> i]
  BY DEF Recovery, RecoveryOf
<1>2. DOMAIN o = {"secret", "counter"}
  BY DEF OneTime
<1>3. DOMAIN o = {"issuer", "place"}
  BY <1>1
<1>. QED BY <1>2, <1>3

\* A call that redeems, and did not, has just claimed its code.
LEMMA RedeemingStep ==
  ASSUME Types, Knows, NEW c \in Calls, Begin(c) \/ Store(c) \/ Other(c), Redeeming(c)'
  PROVE  /\ input'[c] = input[c] /\ spent \subseteq spent'
         /\ Redeeming(c) \/ (spent' = spent \cup {input[c]} /\ input[c] \notin spent)
<1>0. pc \in [Calls -> Places] /\ out \in [Calls -> Results \cup {None}] /\ None \notin Results /\ "ok" \in Results
  BY NoneAssumption DEF Types, Results
<1>1. CASE Begin(c)
  <2>1. pc'[c] # "strike" /\ (pc'[c] = "done" => out'[c] # "ok")
    <3>1. Given(c)' /\ Place(c)' /\ pc[c] = "idle"
      BY <1>1, BeginKnows, BeginReads
    <3>2. pc'[c] # "strike"
      BY <1>0, <1>1 DEF Begin, Register, Authenticate, SetPassword, VerifySecondFactor, TotpBegin, TotpConfirm, TotpRemove,
                        RegenerateRecoveryCodes, ResetIssue, Go, Return
    <3>3. pc'[c] = "done" => out'[c] # "ok"
      BY <1>0, <1>1, BeginReads
    <3>. QED BY <3>2, <3>3
  <2>2. pc'[c] # "done" => out'[c] # "ok"
    BY <1>0, <1>1, BeginReads DEF Types, TypeOK
  <2>. QED BY <2>1, <2>2 DEF Redeeming, Accepted
<1>2. CASE Store(c)
  <2>1. /\ input' = input /\ spent' = spent /\ plan' = plan /\ pc'[c] \in {"list", "done"}
        /\ pc'[c] = "list" => out'[c] = out[c] /\ pc[c] = "set"
    BY <1>0, <1>2, Writes
  <2>2. Accepted(c)' /\ input[c] \in Recovery
    BY <2>1 DEF Redeeming, Accepted
  <2>3. pc[c] \in {"fail", "succeed", "strike"}
    BY <1>2, <2>1, <2>2, Writes DEF Accepted, Knows, Place
  <2>4. CASE pc[c] = "fail"
    <3>1. Fail(c)
      BY <1>2, <2>4 DEF Store, Succeed, StorePassword, StrikeRecovery, StoreSecret, StoreEnrolment, StoreRemoval,
                        StoreRecoveryCodes
    <3>. QED BY <1>0, <2>2, <3>1 DEF Fail, Return, Accepted
  <2>5. CASE pc[c] = "succeed"
    BY <2>1, <2>2, <2>5, CodesDiffer DEF Accepted, Knows, Given
  <2>6. CASE pc[c] = "strike"
    BY <2>1, <2>6 DEF Redeeming
  <2>. QED BY <2>3, <2>4, <2>5, <2>6
<1>3. CASE ClaimRecovery(c)
  BY <1>0, <1>3 DEF ClaimRecovery, Go, Redeeming, Accepted, Types, TypeOK
<1>4. CASE StartSession(c)
  BY <1>4 DEF StartSession, memory, Redeeming, Accepted
<1>5. CASE ClaimCounter(c)
  BY <1>0, <1>5 DEF ClaimCounter, Go, Return, Redeeming, Accepted, Types, TypeOK
<1>6. CASE Create(c) \/ StoreReset(c) \/ ResetFind(c) \/ ListSessions(c) \/ DestroySession(c)
  <2>1. plan'[c] # "verifySecondFactor"
    BY <1>6 DEF Create, StoreReset, ResetFind, ListSessions, DestroySession, world, memory, Knows, Place
  <2>2. pc'[c] # "strike"
    BY <1>0, <1>6 DEF Create, StoreReset, ResetFind, ListSessions, DestroySession, Go, Return
  <2>. QED BY <2>1, <2>2 DEF Redeeming, Accepted
<1>7. CASE ResetComplete(c)
  BY <1>0, <1>7 DEF ResetComplete, Go, Return, Redeeming, Accepted
<1>. QED BY <1>1, <1>2, <1>3, <1>4, <1>5, <1>6, <1>7 DEF Other

\* Recovery codes are used once, from the first state on and by every step.
LEMMA RecoveriesNext ==
  /\ Init => Recoveries
  /\ Types /\ Knows /\ Recoveries /\ [Next]_vars => Recoveries'
<1>1. ASSUME Init PROVE Recoveries
  BY <1>1, NoneAssumption DEF Init, Recoveries, Redeeming, Accepted, Results
<1>2. ASSUME Types, Knows, Recoveries, NEW c \in Calls, Begin(c) \/ Store(c) \/ Other(c) PROVE Recoveries'
  <2>1. ASSUME NEW d \in Calls \ {c}
        PROVE  input'[d] = input[d] /\ (Redeeming(d)' => Redeeming(d))
    BY <1>2, Alone DEF Redeeming, Accepted
  <2>2. spent \subseteq spent'
    <3>1. CASE Begin(c) \/ Store(c)
      BY <1>2, <3>1, BeginReads, Writes
    <3>2. CASE Other(c)
      BY <3>2 DEF Other, Create, StartSession, ClaimCounter, ClaimRecovery, StoreReset, ResetComplete, ResetFind,
                  ListSessions, DestroySession, world, memory
    <3>. QED BY <1>2, <3>1, <3>2
  <2>3. Redeeming(c)' => /\ input'[c] = input[c]
                         /\ Redeeming(c) \/ (spent' = spent \cup {input[c]} /\ input[c] \notin spent)
    BY <1>2, RedeemingStep
  <2>. QED BY <1>2, <2>1, <2>2, <2>3 DEF Recoveries
<1>3. ASSUME Recoveries, Tick \/ UNCHANGED vars PROVE Recoveries'
  BY <1>3 DEF Tick, memory, vars, Recoveries, Redeeming, Accepted
<1>. QED BY <1>1, <1>2, <1>3, Steps

\* When a call looked at the clock with its code in the window, and when it claimed the counter:
\* the claim outlives the window by a period.
Looked(c) ==
  /\ input[c] \in OneTime /\ past.matchedAt[c] \in Nat /\ past.matchedAt[c] <= now
  /\ input[c].counter <= past.matchedAt[c] + 1 /\ past.matchedAt[c] <= input[c].counter + 1
Held(c) ==
  /\ pc[c] \notin {"idle", "claim"} /\ Looked(c)
  /\ past.claimedAt[c] \in Nat /\ past.matchedAt[c] <= past.claimedAt[c]
  /\ past.claimedAt[c] + TotpTtl <= counters[input[c].counter]
Counters ==
  /\ \A c \in Calls : pc[c] = "claim" => Looked(c)
  /\ \A c \in Calls : past.claimedAt[c] # None => Held(c)
  /\ CounterOnce

\* Claiming a counter that another call has claimed before takes that long that one of them
\* was looked at in another period.
LEMMA ClaimedApart ==
  ASSUME Types, NEW c \in Calls, NEW d \in Calls, Held(d), Looked(c), input[c].counter = input[d].counter,
         ~Claimed(input[c].counter)
  PROVE  past.matchedAt[c] < now \/ past.matchedAt[d] < past.claimedAt[d]
<1> DEFINE n == input[c].counter
<1>1. n \in Nat /\ counters[n] \in Nat /\ now \in Nat
  BY Constants DEF Types, TypeOK, Looked, OneTime
<1>2. counters[n] <= now
  BY <1>1 DEF Claimed
<1>3. past.claimedAt[d] \in Nat /\ past.claimedAt[d] + 3 <= now /\ past.matchedAt[d] \in Nat
  BY <1>1, <1>2, Constants DEF Held, Looked
<1>4. past.matchedAt[c] \in Nat /\ past.matchedAt[c] <= n + 1 /\ past.matchedAt[c] <= now
      /\ n <= past.matchedAt[d] + 1 /\ past.matchedAt[d] <= past.claimedAt[d]
  BY DEF Held, Looked
<1>. QED BY <1>1, <1>3, <1>4

\* Counters are claimed once, from the first state on and by every step.
LEMMA CountersNext ==
  /\ Init => Counters
  /\ Types /\ Knows /\ Counters /\ [Next]_vars => Counters'
<1>1. ASSUME Init PROVE Counters
  BY <1>1 DEF Init, Counters, CounterOnce
<1>2. ASSUME Types, Counters, Tick PROVE Counters'
  <2>1. now' = now + 1 /\ now \in Nat
    BY <1>2, Constants DEF Tick, Types
  <2>2. UNCHANGED <<counters, pc, input, past>>
    BY <1>2 DEF Tick, memory
  <2>3. \A c \in Calls : Looked(c) => Looked(c)'
    BY <2>1, <2>2 DEF Looked
  <2>. QED BY <1>2, <2>2, <2>3 DEF Counters, CounterOnce, Held
<1>3. ASSUME Counters, UNCHANGED vars PROVE Counters'
  BY <1>3 DEF vars, Counters, CounterOnce, Held, Looked
<1>4. ASSUME Types, Knows, Counters, NEW c \in Calls, Begin(c) \/ Store(c) \/ Other(c) PROVE Counters'
  <2>0. past \in Memory /\ pc \in [Calls -> Places] /\ now \in Nat
    BY <1>4, Constants DEF Types
  <2>1. now' = now
    <3>1. CASE Begin(c) \/ Store(c)
      BY <1>4, <3>1, BeginReads, Writes
    <3>2. CASE Other(c)
      BY <3>2 DEF Other, Create, StartSession, ClaimCounter, ClaimRecovery, StoreReset, ResetComplete, ResetFind,
                  ListSessions, DestroySession, world, memory
    <3>. QED BY <1>4, <3>1, <3>2
  <2>2. ASSUME NEW d \in Calls \ {c}
        PROVE  /\ pc'[d] = pc[d] /\ input'[d] = input[d] /\ (Looked(d) <=> Looked(d)')
               /\ past'.claimedAt[d] = past.claimedAt[d] /\ past'.matchedAt[d] = past.matchedAt[d]
    BY <1>4, <2>1, Alone, AlonePast DEF Looked
  <2>3. CASE ClaimCounter(c) /\ ~Claimed(input[c].counter)
    <3> DEFINE n == input[c].counter
    <3>1. /\ pc[c] = "claim" /\ Looked(c) /\ n \in 0..(MaxTime + 1)
          /\ input' = input /\ counters' = [counters EXCEPT ![n] = now + TotpTtl]
          /\ past' = [past EXCEPT !.claimedAt[c] = now] /\ pc'[c] \in {"confirm", "succeed"}
      BY <1>4, <2>0, <2>3 DEF ClaimCounter, Go, Counters, Looked, OneTime
    <3>2. past'.claimedAt[c] = now /\ past'.matchedAt = past.matchedAt
      BY <2>0, <3>1 DEF Memory, Times
    <3>3. counters \in [0..(MaxTime + 1) -> 0..(MaxTime + TotpTtl)] /\ counters[n] <= now
      BY <1>4, <2>0, <2>3, <3>1, Constants DEF Types, TypeOK, Claimed
    <3>4. Looked(c)'
      BY <2>1, <3>1, <3>2 DEF Looked
    <3>5. Held(c)'
      BY <2>0, <2>1, <3>1, <3>2, <3>3, <3>4, Constants, SMTT(30) DEF Held, Looked
    <3>6. ASSUME NEW d \in Calls \ {c}, past'.claimedAt[d] # None PROVE Held(d)'
      <4>1. Held(d)
        BY <1>4, <2>2, <3>6 DEF Counters
      <4>2. input[d].counter \in 0..(MaxTime + 1) /\ counters[input[d].counter] \in Nat /\ past.claimedAt[d] \in Nat
        BY <3>3, <4>1, Constants, SMTT(30) DEF Held, Looked, OneTime
      <4>3. counters[input[d].counter] <= counters'[input[d].counter]
        <5>1. CASE input[d].counter = n
          BY <2>0, <3>1, <3>3, <4>2, <5>1, Constants
        <5>2. CASE input[d].counter # n
          BY <3>1, <3>3, <4>2, <5>2
        <5>. QED BY <5>1, <5>2
      <4>4. counters'[input[d].counter] \in Nat
        BY <2>0, <3>1, <3>3, <4>2, Constants
      <4>5. past.claimedAt[d] + TotpTtl <= counters'[input[d].counter]
        BY <4>1, <4>2, <4>3, <4>4, Constants DEF Held
      <4>. QED BY <2>2, <4>1, <4>5 DEF Held
    <3>7. ASSUME NEW d \in Calls \ {c}, past'.claimedAt[d] # None, input'[c].counter = input'[d].counter
          PROVE  past'.matchedAt[c] < past'.claimedAt[c] \/ past'.matchedAt[d] < past'.claimedAt[d]
      <4>1. Held(d)
        BY <1>4, <2>2, <3>7 DEF Counters
      <4>. QED BY <1>4, <2>2, <2>3, <3>1, <3>2, <3>7, <4>1, ClaimedApart
    <3>8. CounterOnce'
      <4> SUFFICES ASSUME NEW a \in Calls, NEW b \in Calls, a # b, past'.claimedAt[a] # None, past'.claimedAt[b] # None,
                          input'[a].counter = input'[b].counter
                   PROVE  past'.matchedAt[a] < past'.claimedAt[a] \/ past'.matchedAt[b] < past'.claimedAt[b]
        BY DEF CounterOnce
      <4>1. CASE a = c \/ b = c
        BY <3>7, <4>1
      <4>2. CASE a # c /\ b # c
        BY <1>4, <2>2, <4>2 DEF Counters, CounterOnce
      <4>. QED BY <4>1, <4>2
    <3>. QED BY <1>4, <2>2, <3>1, <3>5, <3>6, <3>8 DEF Counters
  <2>4. CASE ~(ClaimCounter(c) /\ ~Claimed(input[c].counter))
    <3>1. counters' = counters /\ past'.claimedAt = past.claimedAt
      <4>1. CASE Begin(c)
        BY <1>4, <2>0, <4>1, BeginReads DEF Memory
      <4>2. CASE Store(c)
        BY <1>4, <4>2, Writes, WritePast
      <4>3. CASE Other(c)
        BY <2>0, <2>4, <4>3 DEF Other, Create, StartSession, ClaimCounter, ClaimRecovery, StoreReset, ResetComplete,
                    ResetFind, ListSessions, DestroySession, world, memory, Memory
      <4>. QED BY <1>4, <4>1, <4>2, <4>3
    <3>2. pc[c] # "idle" => input'[c] = input[c] /\ past'.matchedAt = past.matchedAt /\ pc'[c] \notin {"idle", "claim"}
      <4>1. CASE Store(c)
        BY <1>4, <2>0, <4>1, Writes, WritePast
      <4>3. CASE StartSession(c)
        <5>1. pc[c] = "done"
          BY <1>4, <4>3, NoneAssumption DEF StartSession, Types, TypeOK, Results
        <5>. QED BY <2>0, <4>3, <5>1 DEF StartSession, Memory
      <4>2. CASE Other(c) /\ ~StartSession(c)
        BY <2>0, <2>4, <4>2 DEF Other, Create, ClaimCounter, ClaimRecovery, StoreReset, ResetComplete,
                    ResetFind, ListSessions, DestroySession, world, memory, Memory, Go, Return
      <4>. QED BY <1>4, <4>1, <4>2, <4>3, BeginReads
    <3>3. past'.claimedAt[c] # None => Held(c)'
      BY <1>4, <2>1, <3>1, <3>2 DEF Counters, Held, Looked
    <3>4. ASSUME pc'[c] = "claim" PROVE Looked(c)'
      <4>1. pc[c] = "idle"
        BY <3>2, <3>4
      <4>2. Begin(c)
        <5>1. ~Store(c)
          BY <1>4, <4>1, Writes
        <5>2. ~Other(c)
          BY <2>0, <3>4, <4>1 DEF Other, Create, StartSession, ClaimCounter, ClaimRecovery, StoreReset, ResetComplete,
                    ResetFind, ListSessions, DestroySession, Go, Return, world, memory
        <5>. QED BY <1>4, <5>1, <5>2
      <4>3. past'.matchedAt[c] = now /\ Matches(credential, input'[c])
        BY <1>4, <2>0, <3>4, <4>2, BeginReads DEF Memory, Times
      <4>. QED BY <2>0, <2>1, <4>3 DEF Looked, Matches, OneTime
    <3>5. CounterOnce'
      <4>1. \A d \in Calls : past'.claimedAt[d] # None =>
               input'[d] = input[d] /\ past'.matchedAt[d] = past.matchedAt[d] /\ past'.claimedAt[d] = past.claimedAt[d]
        BY <1>4, <2>2, <3>1, <3>2 DEF Counters, Held
      <4>. QED BY <1>4, <3>1, <4>1 DEF Counters, CounterOnce
    <3>. QED BY <1>4, <2>2, <3>1, <3>3, <3>4, <3>5 DEF Counters, Held
  <2>. QED BY <2>3, <2>4
<1>. QED BY <1>1, <1>2, <1>3, <1>4, Steps

\* A reset token that was redeemed is gone for good.
Redemptions ==
  /\ \A r \in past.redeemed : r[1] \in Calls /\ resets[r[1]] = None /\ out[r[1]] = "ok"
  /\ ResetOnce

\* Reset tokens are redeemed once, from the first state on and by every step.
LEMMA RedemptionsNext ==
  /\ Init => Redemptions
  /\ Types /\ Knows /\ Redemptions /\ [Next]_vars => Redemptions'
<1>1. ASSUME Init PROVE Redemptions
  BY <1>1 DEF Init, Redemptions, ResetOnce
<1>2. ASSUME Redemptions, Tick \/ UNCHANGED vars PROVE Redemptions'
  BY <1>2 DEF Tick, memory, vars, Redemptions, ResetOnce
<1>3. ASSUME Types, Knows, Redemptions, NEW c \in Calls, Begin(c) \/ Store(c) \/ Other(c) PROVE Redemptions'
  <2>0. /\ past \in Memory /\ resets \in [Calls -> (0..(MaxTime + ResetTtl)) \cup {None}]
        /\ out \in [Calls -> Results \cup {None}]
    BY <1>3 DEF Types, TypeOK
  <2>1. \A t \in Calls : out[t] = "ok" => out'[t] = "ok"
    <3>1. ASSUME out[c] = "ok" PROVE out'[c] = "ok"
      <4>1. pc[c] = "done"
        BY <1>3, <3>1, NoneAssumption DEF Types, TypeOK, Results
      <4>. QED BY <1>3, <3>1, <4>1, Final
    <3>. QED BY <1>3, <3>1, Alone
  <2>2. CASE UNCHANGED resets /\ past'.redeemed = past.redeemed
    BY <1>3, <2>1, <2>2 DEF Redemptions, ResetOnce
  <2>3. CASE StoreReset(c)
    <3>1. out[c] # "ok" /\ UNCHANGED past /\ resets' = [resets EXCEPT ![c] = now + ResetTtl]
      BY <1>3, <2>3, NoneAssumption DEF StoreReset, Types, TypeOK, Results
    <3>2. \A r \in past.redeemed : r[1] # c /\ resets'[r[1]] = resets[r[1]]
      BY <1>3, <2>0, <3>1 DEF Redemptions
    <3>. QED BY <1>3, <2>1, <3>1, <3>2 DEF Redemptions, ResetOnce
  <2>4. CASE ResetComplete(c)
    <3>1. PICK token \in Calls : /\ out[token] = "ok" /\ resets[token] # None
                                 /\ resets' = [resets EXCEPT ![token] = None]
                                 /\ past' = [past EXCEPT !.redeemed = past.redeemed \cup {<<token, c>>}]
                              \/ UNCHANGED <<resets, past>>
      BY <2>0, <2>4 DEF ResetComplete, Memory
    <3>2. CASE UNCHANGED <<resets, past>>
      BY <2>2, <3>2
    <3>3. CASE ~UNCHANGED <<resets, past>>
      <4>1. past'.redeemed = past.redeemed \cup {<<token, c>>} /\ resets[token] # None /\ out[token] = "ok"
            /\ \A t \in Calls : resets'[t] = IF t = token THEN None ELSE resets[t]
        BY <2>0, <3>1, <3>3 DEF Memory
      <4>2. \A r \in past.redeemed : r[1] # token
        BY <1>3, <4>1 DEF Redemptions
      <4>3. ResetOnce'
        BY <1>3, <4>1, <4>2 DEF Redemptions, ResetOnce
      <4>. QED BY <1>3, <2>1, <4>1, <4>3 DEF Redemptions
    <3>. QED BY <3>2, <3>3
  <2>5. CASE Begin(c)
    BY <1>3, <2>0, <2>2, <2>5, BeginReads DEF Memory
  <2>6. CASE Store(c)
    BY <1>3, <2>2, <2>6, Writes, WritePast
  <2>7. CASE Other(c) /\ ~StoreReset(c) /\ ~ResetComplete(c)
    BY <2>0, <2>2, <2>7 DEF Other, Create, StartSession, ClaimCounter, ClaimRecovery, ResetFind, ListSessions,
                            DestroySession, world, memory, Memory
  <2>. QED BY <1>3, <2>3, <2>4, <2>5, <2>6, <2>7
<1>. QED BY <1>1, <1>2, <1>3, Steps


-----------------------------------------------------------------------------
(* A reset ends the sessions there were. *)

\* A session's authentication is started on once; and while a reset destroys what it has listed,
\* the older sessions that are left are on its list.
Ended ==
  /\ sessions \subseteq past.started /\ \A c \in Calls : past.before[c] \subseteq past.started
  /\ \A c \in Calls : pc[c] = "destroy" => past.before[c] \cap sessions \subseteq left[c]
  /\ ResetEndsOlder

\* It is so from the first state on and by every step.
LEMMA EndedNext ==
  /\ Init => Ended
  /\ Types /\ Knows /\ Ended /\ [Next]_vars => Ended'
<1>1. ASSUME Init PROVE Ended
  BY <1>1, NoneAssumption DEF Init, Ended, ResetEndsOlder, Results
<1>2. ASSUME Ended, Tick \/ UNCHANGED vars PROVE Ended'
  BY <1>2 DEF Tick, memory, vars, Ended, ResetEndsOlder
<1>3. ASSUME Types, Knows, Ended, NEW c \in Calls, Begin(c) \/ Store(c) \/ Other(c) PROVE Ended'
  <2>0. /\ past \in Memory /\ pc \in [Calls -> Places] /\ out \in [Calls -> Results \cup {None}]
        /\ left \in [Calls -> SUBSET Calls] /\ sessions \in SUBSET Calls
        /\ \A d \in Calls : out[d] = "ok" => pc[d] = "done"
    BY <1>3, NoneAssumption DEF Types, TypeOK, Results
  <2>1. \A d \in Calls \ {c} : /\ pc'[d] = pc[d] /\ left'[d] = left[d] /\ out'[d] = out[d]
                               /\ past'.before[d] = past.before[d]
    BY <1>3, Alone, AlonePast
  <2>2. CASE StartSession(c)
    <3>1. /\ UNCHANGED <<pc, out, left, plan>> /\ past'.before = past.before /\ c \notin past.started
          /\ past'.started = past.started \cup {c} /\ sessions' = sessions \cup {c}
      BY <2>0, <2>2 DEF StartSession, Memory
    <3>2. \A d \in Calls : past.before[d] \cap sessions' = past.before[d] \cap sessions
      BY <1>3, <3>1 DEF Ended
    <3>. QED BY <1>3, <3>1, <3>2 DEF Ended, ResetEndsOlder
  <2>3. CASE Store(c)
    <3>1. UNCHANGED <<sessions, plan, left>> /\ past'.started = past.started /\ pc'[c] # "destroy"
          /\ \A d \in Calls : past'.before[d] = past.before[d] \/ past'.before[d] = sessions
      BY <1>3, <2>0, <2>3, Writes, WritePast, ZenonT(30) DEF Memory
    <3>2. plan[c] = "reset.complete" => out'[c] # "ok"
      <4>1. plan[c] = "reset.complete" => pc[c] = "set"
        BY <1>3, <2>3, Writes DEF Knows, Place
      <4>2. pc[c] = "set" /\ plan[c] = "reset.complete" => out' = out
        BY <1>3, <2>3, Writes
      <4>. QED BY <2>0, <4>1, <4>2
    <3>3. \A d \in Calls : past'.before[d] \subseteq past.started
      BY <1>3, <3>1 DEF Ended
    <3>. QED BY <1>3, <2>1, <3>1, <3>2, <3>3 DEF Ended, ResetEndsOlder
  <2>4. CASE ListSessions(c)
    <3>1. /\ UNCHANGED <<sessions, plan, out, past>> /\ left' = [left EXCEPT ![c] = sessions]
          /\ pc' = [pc EXCEPT ![c] = "destroy"]
      BY <2>4 DEF ListSessions, Go, world
    <3>. QED BY <1>3, <2>0, <2>1, <3>1 DEF Ended, ResetEndsOlder
  <2>5. CASE DestroySession(c)
    <3>1. pc[c] = "destroy" /\ UNCHANGED <<plan, past>> /\ sessions' \subseteq sessions
          /\ past.before[c] \cap sessions \subseteq left[c]
      BY <1>3, <2>5 DEF DestroySession, Ended
    <3>2. CASE left[c] = {}
      <4>1. UNCHANGED sessions /\ pc' = [pc EXCEPT ![c] = "done"]
        BY <2>5, <3>2 DEF DestroySession, Return
      <4>. QED BY <1>3, <2>0, <2>1, <3>1, <3>2, <4>1 DEF Ended, ResetEndsOlder
    <3>3. CASE left[c] # {}
      <4>1. PICK s : sessions' = sessions \ {s} /\ left' = [left EXCEPT ![c] = left[c] \ {s}] /\ UNCHANGED <<pc, out>>
        BY <2>5, <3>3 DEF DestroySession
      <4>2. past.before[c] \cap sessions' \subseteq left'[c]
        BY <2>0, <3>1, <4>1
      <4>. QED BY <1>3, <2>0, <2>1, <3>1, <4>1, <4>2 DEF Ended, ResetEndsOlder
    <3>. QED BY <3>2, <3>3
  <2>6. CASE Begin(c) \/ (Other(c) /\ ~StartSession(c) /\ ~ListSessions(c) /\ ~DestroySession(c))
    <3>1. /\ UNCHANGED <<sessions, plan, left>> /\ past'.started = past.started /\ past'.before = past.before
      <4>1. CASE Begin(c)
        BY <1>3, <2>0, <4>1, BeginReads DEF Memory
      <4>2. CASE Other(c) /\ ~StartSession(c) /\ ~ListSessions(c) /\ ~DestroySession(c)
        BY <2>0, <4>2 DEF Other, Create, ClaimCounter, ClaimRecovery, StoreReset, ResetComplete, ResetFind, world, memory,
                          Memory
      <4>. QED BY <2>6, <4>1, <4>2
    <3>2. pc'[c] # "destroy" /\ (plan[c] = "reset.complete" => out'[c] # "ok")
      <4>1. CASE Begin(c)
        <5>1. pc[c] = "idle" /\ out[c] # "ok"
          BY <1>3, <2>0, <4>1, BeginReads
        <5>2. out'[c] # "ok"
          BY <1>3, <2>0, <4>1, <5>1, BeginReads
        <5>3. pc'[c] # "destroy"
          BY <2>0, <4>1 DEF Begin, Register, Authenticate, SetPassword, VerifySecondFactor, TotpBegin, TotpConfirm,
                            TotpRemove, RegenerateRecoveryCodes, ResetIssue, Go, Return
        <5>. QED BY <5>2, <5>3
      <4>2. CASE Other(c) /\ ~StartSession(c) /\ ~ListSessions(c) /\ ~DestroySession(c)
        <5>1. pc[c] # "done"
          BY <1>3, <4>2, Final
        <5>2. pc'[c] # "destroy"
          BY <2>0, <4>2 DEF Other, Create, ClaimCounter, ClaimRecovery, StoreReset, ResetComplete, ResetFind, Go, Return
        <5>3. plan[c] = "reset.complete" => ResetComplete(c) \/ ResetFind(c)
          BY <1>3, <4>2 DEF Other, Create, ClaimCounter, ClaimRecovery, StoreReset, Knows, Place
        <5>4. ResetComplete(c) \/ ResetFind(c) => out'[c] # "ok"
          BY <2>0, <5>1 DEF ResetComplete, ResetFind, Go, Return
        <5>. QED BY <5>2, <5>3, <5>4
      <4>. QED BY <2>6, <4>1, <4>2
    <3>. QED BY <1>3, <2>1, <3>1, <3>2 DEF Ended, ResetEndsOlder
  <2>. QED BY <1>3, <2>2, <2>3, <2>4, <2>5, <2>6
<1>. QED BY <1>1, <1>2, <1>3, Steps

-----------------------------------------------------------------------------
(* Factors stay what their owner proved. *)

\* A secret that was there from the start, or one of whose codes somebody has shown.
Shown(s) ==
  s = First \/ \E c \in Calls : plan[c] = "totp.confirm" /\ past.claimedAt[c] # None /\ input[c].secret = s
Proper(k) ==
  /\ k.recoveryCodes # {} => Enrolled(k)
  /\ Enrolled(k) => Shown(k.totp.secret)

\* It is so of the record and of what any call may write back.
Factors ==
  /\ credential # None => Proper(credential)
  /\ \A c \in Calls :
       /\ seen[c] # None => Proper(seen[c])
       /\ pc[c] = "begin" => ~Enrolled(seen[c])
       /\ pc[c] = "regenerate" => Enrolled(seen[c])
       /\ pc[c] = "confirm" => past.claimedAt[c] # None

\* What was shown stays shown.
LEMMA ShownOn ==
  ASSUME Types, Knows, Counters, [Next]_vars, NEW s, Shown(s)
  PROVE  Shown(s)'
<1>1. CASE s = First
  BY <1>1 DEF Shown
<1>2. CASE s # First
  <2>1. PICK d \in Calls : plan[d] = "totp.confirm" /\ past.claimedAt[d] # None /\ input[d].secret = s
    BY <1>2 DEF Shown
  <2>2. pc[d] \notin {"idle", "claim"} /\ past \in Memory
    BY <2>1 DEF Counters, Held, Types
  <2>3. CASE Tick \/ UNCHANGED vars
    BY <2>1, <2>3 DEF Tick, memory, vars, Shown
  <2>4. ASSUME NEW c \in Calls, Begin(c) \/ Store(c) \/ Other(c)
        PROVE  plan'[d] = plan[d] /\ past'.claimedAt[d] = past.claimedAt[d] /\ input'[d] = input[d]
    <3>1. CASE d # c
      BY <2>4, <3>1, Alone, AlonePast
    <3>2. CASE d = c
      <4>1. ~Begin(c)
        BY <2>2, <3>2, BeginReads
      <4>2. CASE Store(c)
        BY <3>2, <4>2, Writes, WritePast
      <4>3. CASE Other(c)
        BY <2>2, <3>2, <4>3 DEF Other, Create, StartSession, ClaimCounter, ClaimRecovery, StoreReset, ResetComplete,
                    ResetFind, ListSessions, DestroySession, world, memory, Memory
      <4>. QED BY <2>4, <4>1, <4>2, <4>3
    <3>. QED BY <3>1, <3>2
  <2>. QED BY <2>1, <2>3, <2>4, Steps DEF Shown
<1>. QED BY <1>1, <1>2

\* A record that is written back is proper if the one that was read is.
LEMMA ProperWrites ==
  ASSUME Types, Knows, Factors, Counters, [Next]_vars, NEW c \in Calls, Store(c), NEW new, new = credential'
  PROVE  Proper(new)'
<1> DEFINE k == seen[c]
<1>0. k \in Credential /\ k # None /\ Proper(k) /\ c \in Secrets /\ RecoveryOf(c) \in SUBSET Recovery
  <2>1. k \in Credential
    BY DEF Knows, Given, Store, Fail, Succeed, StorePassword, StrikeRecovery, StoreSecret, StoreEnrolment, StoreRemoval,
           StoreRecoveryCodes
  <2>. QED BY <2>1, CredentialParts, Constants DEF Factors
<1>1. new # None
  BY Writes, NoneAssumption
<1>2. \A s : Shown(s) => Shown(s)'
  BY ShownOn
<1>3. ASSUME new.totp = k.totp, new.recoveryCodes \subseteq k.recoveryCodes PROVE Proper(new)'
  BY <1>0, <1>1, <1>2, <1>3 DEF Proper, Enrolled
<1>4. CASE Fail(c)
  BY <1>0, <1>3, <1>4 DEF Fail, Credential
<1>5. CASE Succeed(c)
  <2>1. CASE new = [k EXCEPT !.failedAttempts = 0, !.lockedUntil = 0]
    BY <1>0, <1>3, <2>1 DEF Credential
  <2>2. CASE new = credential
    <3>1. Proper(new)
      BY <1>1, <2>2 DEF Factors
    <3>. QED BY <1>2, <3>1 DEF Proper
  <2>. QED BY <1>5, <2>1, <2>2 DEF Succeed, Write
<1>6. CASE StorePassword(c)
  BY <1>0, <1>3, <1>6 DEF StorePassword, Credential
<1>7. CASE StrikeRecovery(c)
  BY <1>0, <1>3, <1>7 DEF StrikeRecovery, Write, Credential
<1>8. CASE StoreSecret(c)
  <2>1. new.totp = [secret |-> c, confirmedAt |-> FALSE] /\ new.recoveryCodes = k.recoveryCodes
    BY <1>0, <1>8 DEF StoreSecret, Write, Credential
  <2>2. k.recoveryCodes = {}
    BY <1>0, <1>8 DEF StoreSecret, Factors, Proper
  <2>. QED BY <2>1, <2>2 DEF Proper, Enrolled
<1>9. CASE StoreEnrolment(c)
  <2>1. new.totp = [secret |-> k.totp.secret, confirmedAt |-> TRUE] /\ new.recoveryCodes = RecoveryOf(c)
    BY <1>0, <1>9 DEF StoreEnrolment, Write, Credential
  <2>2. new.totp # None
    <3>1. k.totp \in Totp
      BY <1>9 DEF StoreEnrolment, Knows, Given, Place
    <3>2. new.totp \in Totp
      BY <2>1, <3>1 DEF Totp
    <3>. QED BY <3>2, NoneAssumption
  <2>3. Shown(new.totp.secret)
    BY <1>9, <2>1 DEF StoreEnrolment, Knows, Place, Given, Factors, Shown
  <2>. QED BY <1>1, <1>2, <2>1, <2>2, <2>3 DEF Proper, Enrolled
<1>10. CASE StoreRemoval(c)
  <2>1. new.totp = None /\ new.recoveryCodes = {}
    BY <1>0, <1>10 DEF StoreRemoval, Write, Credential
  <2>. QED BY <2>1 DEF Proper, Enrolled
<1>11. CASE StoreRecoveryCodes(c)
  <2>1. new.totp = k.totp
    BY <1>0, <1>11 DEF StoreRecoveryCodes, Write, Credential
  <2>2. Enrolled(k)
    BY <1>11 DEF StoreRecoveryCodes, Factors
  <2>. QED BY <1>0, <1>1, <1>2, <2>1, <2>2 DEF Proper, Enrolled
<1>. QED BY <1>4, <1>5, <1>6, <1>7, <1>8, <1>9, <1>10, <1>11 DEF Store

\* Factors stand, from the first state on and by every step.
LEMMA FactorsNext ==
  /\ Init => Factors
  /\ Types /\ Knows /\ Counters /\ Factors /\ [Next]_vars => Factors'
<1>1. ASSUME Init PROVE Factors
  <2>1. Proper(Created(First)) /\ Proper(FullyEnrolled)
    <3>1. Created(First).totp = None /\ Created(First).recoveryCodes = {}
      BY DEF Created
    <3>2. [secret |-> First, confirmedAt |-> TRUE] \in Totp
      BY Constants DEF Totp
    <3>3. FullyEnrolled.totp = [secret |-> First, confirmedAt |-> TRUE] /\ FullyEnrolled # None
      BY CreatedType, NoneAssumption DEF FullyEnrolled, Created
    <3>4. ~Enrolled(Created(First)) /\ Proper(Created(First))
      BY <3>1 DEF Proper, Enrolled
    <3>5. FullyEnrolled.totp # None /\ FullyEnrolled.totp.confirmedAt /\ FullyEnrolled.totp.secret = First
      <4> DEFINE totp == [secret |-> First, confirmedAt |-> TRUE]
      <4>1. totp.confirmedAt /\ totp.secret = First
        OBVIOUS
      <4>2. totp # None
        BY <3>2, NoneAssumption
      <4>3. FullyEnrolled.totp = totp
        BY <3>3
      <4> HIDE DEF totp
      <4>. QED BY <4>1, <4>2, <4>3
    <3>6. Proper(FullyEnrolled)
      BY <3>3, <3>5 DEF Proper, Enrolled, Shown
    <3>. QED BY <3>4, <3>6
  <2>. QED BY <1>1, <2>1 DEF Init, Factors
<1>2. ASSUME Factors, Tick \/ UNCHANGED vars PROVE Factors'
  BY <1>2 DEF Tick, memory, vars, Factors, Proper, Shown
<1>3. ASSUME Types, Knows, Counters, Factors, [Next]_vars, NEW c \in Calls, Begin(c) \/ Store(c) \/ Other(c)
      PROVE  Factors'
  <2>0. /\ pc \in [Calls -> Places] /\ seen \in [Calls -> Credential \cup {None}] /\ past \in Memory
        /\ now \in Nat
    BY <1>3, Constants DEF Types, TypeOK
  <2>1. \A k : Proper(k) => Proper(k)'
    <3> SUFFICES ASSUME NEW k, Proper(k) PROVE Proper(k)'
      OBVIOUS
    <3>1. Enrolled(k) => Shown(k.totp.secret)'
      BY <1>3, ShownOn DEF Proper
    <3>. QED BY <3>1 DEF Proper
  <2>2. \A d \in Calls \ {c} : pc'[d] = pc[d] /\ seen'[d] = seen[d] /\ past'.claimedAt[d] = past.claimedAt[d]
    BY <1>3, Alone, AlonePast
  <2>3. ASSUME NEW new, new = credential', new # None PROVE Proper(new)'
    <3>1. CASE Store(c)
      BY <1>3, <2>3, <3>1, ProperWrites
    <3>2. CASE new = credential
      BY <1>3, <2>1, <2>3, <3>2 DEF Factors
    <3>3. CASE Create(c)
      <4>1. CASE \E password : new = Created(password)
        BY <4>1 DEF Created, Proper, Enrolled
      <4>. QED BY <2>3, <3>2, <3>3, <4>1 DEF Create
    <3>. QED BY <1>3, <2>3, <3>1, <3>2, <3>3, BeginReads
             DEF Other, StartSession, ClaimCounter, ClaimRecovery, StoreReset, ResetComplete, ResetFind, ListSessions,
                 DestroySession
  <2>4. ASSUME NEW new, new = seen'[c], new # None PROVE Proper(new)'
    <3>1. CASE new = seen[c]
      BY <1>3, <2>1, <2>4, <3>1 DEF Factors
    <3>2. CASE new = credential
      BY <1>3, <2>1, <2>4, <3>2 DEF Factors
    <3>3. CASE Begin(c) \/ Store(c)
      BY <1>3, <2>0, <2>4, <3>1, <3>2, <3>3, BeginReads, Writes
    <3>4. CASE Other(c)
      BY <2>0, <2>4, <3>1, <3>2, <3>4
         DEF Other, Create, StartSession, ClaimCounter, ClaimRecovery, StoreReset, ResetComplete, ResetFind, ListSessions,
             DestroySession, world
    <3>. QED BY <1>3, <3>3, <3>4
  <2>5. /\ pc'[c] = "begin" => ~Enrolled(seen'[c])
        /\ pc'[c] = "regenerate" => Enrolled(seen'[c])
        /\ pc'[c] = "confirm" => past'.claimedAt[c] # None
    <3>1. CASE Begin(c)
      BY <2>0, <3>1 DEF Begin, Register, Authenticate, SetPassword, VerifySecondFactor, TotpBegin, TotpConfirm, TotpRemove,
                        RegenerateRecoveryCodes, ResetIssue, Read, Go, Return
    <3>2. CASE Store(c)
      BY <1>3, <2>0, <3>2, Writes
    <3>3. CASE ClaimCounter(c)
      BY <2>0, <3>3, NoneAssumption DEF ClaimCounter, Go, Return, Memory, Times
    <3>4. CASE StartSession(c)
      BY <1>3, <2>0, <3>4 DEF StartSession, Factors, Memory
    <3>5. CASE Other(c) /\ ~ClaimCounter(c) /\ ~StartSession(c)
      <4>1. pc'[c] \notin {"begin", "regenerate", "confirm"}
        <5>1. CASE pc'[c] # pc[c]
          BY <2>0, <3>5, <5>1 DEF Other, Create, ClaimRecovery, StoreReset, ResetComplete, ResetFind, ListSessions,
                          DestroySession, Go, Return
        <5>2. CASE pc'[c] = pc[c]
          BY <2>0, <3>5, <5>2 DEF Other, Create, ClaimRecovery, StoreReset, ResetComplete, ResetFind, ListSessions,
                          DestroySession, Go, Return
        <5>. QED BY <5>1, <5>2
      <4>. QED BY <4>1
    <3>. QED BY <1>3, <3>1, <3>2, <3>3, <3>4, <3>5
  <2>6. \A d \in Calls \ {c} : seen[d] # None => Proper(seen[d])
    BY <1>3 DEF Factors
  <2>7. ASSUME NEW d \in Calls, NEW new, new = seen'[d], new # None PROVE Proper(new)'
    BY <2>1, <2>2, <2>4, <2>6, <2>7
  <2>8. ASSUME NEW d \in Calls
        PROVE  /\ pc'[d] = "begin" => ~Enrolled(seen'[d])
               /\ pc'[d] = "regenerate" => Enrolled(seen'[d])
               /\ pc'[d] = "confirm" => past'.claimedAt[d] # None
    BY <1>3, <2>2, <2>5 DEF Factors
  <2>. QED BY <2>3, <2>7, <2>8 DEF Factors
<1>. QED BY <1>1, <1>2, <1>3, Steps

-----------------------------------------------------------------------------
(* Guesses are counted. *)

Failed(c) == past.failedAt[c] # None

\* The record k counts the wrong guesses since the last lock, B; every earlier one is older than
\* a lock before all of them, or before the record's own lock ends.
Counted(k) ==
  \E B \in SUBSET Calls :
    /\ IsFiniteSet(B) /\ Cardinality(B) = k.failedAttempts
    /\ \A b \in B : Failed(b)
    /\ \A c \in Calls \ B : Failed(c) =>
         /\ B = {} => past.failedAt[c] + Lockout <= k.lockedUntil
         /\ \A b \in B : past.failedAt[c] + Lockout <= past.failedAt[b]

\* A guess that may fail was let through by a record whose lock is over.
Guesses ==
  /\ \A c \in Calls : Failed(c) => pc[c] = "done" /\ past.failedAt[c] <= now /\ credential # None
  /\ \A c \in Calls :
       pc[c] = "fail" \/ (pc[c] \in {"claim", "claimRecovery"} /\ plan[c] = "verifySecondFactor")
       => seen[c].lockedUntil <= now
  /\ past.orderly /\ credential # None => Counted(credential)
  /\ GuessesAreCounted

\* One more wrong guess is counted, and no period of lockout sees too many.
LEMMA OneMore ==
  ASSUME Types, Knows, Guesses, NEW c \in Calls, Fail(c), past'.orderly
  PROVE  /\ Counted(credential)'
         /\ GuessesAreCounted'
<1> DEFINE k == seen[c]
           F == past.failedAt
<1>0. /\ past \in Memory /\ now \in Nat /\ Lockout \in Nat \ {0} /\ MaxFailedAttempts \in Nat \ {0}
      /\ F \in [Calls -> Nat \cup {None}] /\ None \notin Nat
  BY Constants, NoneAssumption DEF Types, Memory, Times
<1>1. /\ pc[c] = "fail" /\ k = credential /\ past.orderly /\ k \in Credential /\ k.lockedUntil <= now
      /\ F[c] = None
  BY <1>0 DEF Fail, Memory, Knows, Given, Guesses, Failed
<1>2. k.failedAttempts \in 0..(MaxFailedAttempts - 1) /\ k.lockedUntil \in Nat /\ k # None
  BY <1>0, <1>1, Constants, CredentialParts
<1>3. now' = now /\ past'.failedAt = [F EXCEPT ![c] = now]
  BY <1>0 DEF Fail, world, Memory
<1> DEFINE G == past'.failedAt
<1>4. G[c] = now /\ \A d \in Calls \ {c} : G[d] = F[d]
  BY <1>0, <1>3
<1>5. PICK B \in SUBSET Calls :
        /\ IsFiniteSet(B) /\ Cardinality(B) = k.failedAttempts
        /\ \A b \in B : Failed(b)
        /\ \A d \in Calls \ B : Failed(d) =>
             /\ B = {} => F[d] + Lockout <= k.lockedUntil
             /\ \A b \in B : F[d] + Lockout <= F[b]
  BY <1>1, <1>2 DEF Guesses, Counted
<1>6. c \notin B /\ IsFiniteSet(B \cup {c}) /\ Cardinality(B \cup {c}) = k.failedAttempts + 1
  <2>1. c \notin B
    BY <1>1, <1>5 DEF Failed
  <2>. QED BY <1>5, <2>1, FS_AddElement
<1>7. \A d \in Calls : Failed(d) => F[d] \in Nat /\ F[d] <= now
  BY <1>0 DEF Guesses, Failed
<1>8. \A d \in Calls \ (B \cup {c}) : Failed(d) => F[d] + Lockout <= now
  <2> SUFFICES ASSUME NEW d \in Calls \ (B \cup {c}), Failed(d) PROVE F[d] + Lockout <= now
    OBVIOUS
  <2>1. CASE B = {}
    BY <1>0, <1>1, <1>2, <1>5, <1>7, <2>1
  <2>2. CASE B # {}
    <3>1. PICK b \in B : TRUE
      BY <2>2
    <3>2. F[d] + Lockout <= F[b] /\ F[b] <= now /\ F[b] \in Nat /\ F[d] \in Nat
      BY <1>5, <1>7, <3>1
    <3>. QED BY <1>0, <3>2
  <2>. QED BY <2>1, <2>2
<1>9. Counted(credential)'
  <2>1. CASE k.failedAttempts + 1 >= MaxFailedAttempts
    <3>1. credential'.failedAttempts = 0 /\ credential'.lockedUntil = now + Lockout
      BY <1>1, <2>1 DEF Fail, Credential
    <3>2. IsFiniteSet({}) /\ Cardinality({}) = 0
      BY FS_EmptySet
    <3>3. \A d \in Calls : Failed(d)' => G[d] + Lockout <= now + Lockout
      <4>1. \A d \in Calls : Failed(d)' => G[d] \in Nat /\ G[d] <= now
        BY <1>0, <1>4, <1>7 DEF Failed
      <4>. QED BY <1>0, <4>1
    <3>. QED BY <3>1, <3>2, <3>3 DEF Counted
  <2>2. CASE ~(k.failedAttempts + 1 >= MaxFailedAttempts)
    <3>1. credential'.failedAttempts = k.failedAttempts + 1
      BY <1>1, <2>2 DEF Fail, Credential
    <3>2. \A b \in B \cup {c} : Failed(b)'
      BY <1>0, <1>4, <1>5, <1>6 DEF Failed
    <3>3. ASSUME NEW d \in Calls \ (B \cup {c}), Failed(d)', NEW b \in B \cup {c} PROVE G[d] + Lockout <= G[b]
      <4>1. Failed(d) /\ G[d] = F[d]
        BY <1>4, <3>3 DEF Failed
      <4>2. CASE b = c
        BY <1>4, <1>8, <4>1, <4>2
      <4>3. CASE b # c
        BY <1>4, <1>5, <1>6, <4>1, <4>3
      <4>. QED BY <4>2, <4>3
    <3>. QED BY <1>6, <3>1, <3>2, <3>3 DEF Counted
  <2>. QED BY <2>1, <2>2
<1>10. GuessesAreCounted'
  <2> SUFFICES ASSUME NEW t \in 0..MaxTime
               PROVE  Cardinality({d \in Calls : G[d] \in t..(t + Lockout - 1)}) <= MaxFailedAttempts
    BY DEF GuessesAreCounted
  <2> DEFINE W == {d \in Calls : G[d] \in t..(t + Lockout - 1)}
  <2>0. t \in Nat
    BY Constants
  <2>1. CASE now \in t..(t + Lockout - 1)
    <3>1. ASSUME NEW d \in W, d \notin B \cup {c} PROVE FALSE
      <4>1. G[d] = F[d] /\ G[d] \in Nat /\ t <= G[d]
        BY <1>0, <1>4, <2>0, <3>1
      <4>2. Failed(d)
        BY <1>0, <4>1 DEF Failed
      <4>3. F[d] + Lockout <= now /\ now <= t + Lockout - 1
        BY <1>8, <2>1, <3>1, <4>2
      <4>. QED BY <1>0, <2>0, <4>1, <4>3
    <3>2. W \subseteq B \cup {c}
      BY <3>1
    <3>3. Cardinality(W) <= k.failedAttempts + 1 /\ Cardinality(W) \in Nat
      BY <1>6, <3>2, FS_Subset, FS_CardinalityType
    <3>. QED BY <1>0, <1>2, <3>3
  <2>2. CASE now \notin t..(t + Lockout - 1)
    <3>1. W = {d \in Calls : F[d] \in t..(t + Lockout - 1)}
      <4>1. None \notin t..(t + Lockout - 1)
        BY <1>0, <2>0
      <4>. QED BY <1>1, <1>4, <2>2, <4>1
    <3>. QED BY <1>1, <3>1 DEF Guesses, GuessesAreCounted
  <2>. QED BY <2>1, <2>2
<1>. QED BY <1>9, <1>10

\* A write that is in order and is no failure leaves the count and the lock as they are.
LEMMA InOrder ==
  ASSUME Types, Knows, NEW c \in Calls, Store(c), ~Fail(c), past'.orderly
  PROVE  past.orderly /\ (credential # None => /\ credential'.failedAttempts = credential.failedAttempts
                                               /\ credential'.lockedUntil = credential.lockedUntil)
<1>0. past \in Memory /\ past.orderly
  BY WritePast DEF Types
<1>1. CASE Succeed(c)
  BY <1>0, <1>1 DEF Succeed, Write, Memory
<1>2. CASE StorePassword(c)
  BY <1>0, <1>2 DEF StorePassword, Memory
<1>3. CASE StrikeRecovery(c)
  BY <1>0, <1>3 DEF StrikeRecovery, Write, Memory
<1>4. CASE StoreSecret(c) \/ StoreEnrolment(c) \/ StoreRemoval(c) \/ StoreRecoveryCodes(c)
  <2>1. seen[c] = credential
    BY <1>0, <1>4 DEF StoreSecret, StoreEnrolment, StoreRemoval, StoreRecoveryCodes, Write, Memory
  <2>2. seen[c] \in Credential
    BY <1>4 DEF StoreSecret, StoreEnrolment, StoreRemoval, StoreRecoveryCodes, Knows, Given
  <2>. QED BY <1>0, <1>4, <2>1, <2>2
           DEF StoreSecret, StoreEnrolment, StoreRemoval, StoreRecoveryCodes, Write, Credential
<1>. QED BY <1>1, <1>2, <1>3, <1>4 DEF Store

\* What a call has read stands unlocked by the clock when it goes on to be refused.
LEMMA LetThrough ==
  ASSUME Types, Knows, Guesses, NEW c \in Calls, Begin(c) \/ Store(c) \/ Other(c),
         pc'[c] = "fail" \/ (pc'[c] \in {"claim", "claimRecovery"} /\ plan'[c] = "verifySecondFactor")
  PROVE  seen'[c].lockedUntil <= now
<1>0. /\ pc \in [Calls -> Places] /\ seen \in [Calls -> Credential \cup {None}] /\ now \in Nat
      /\ credential \in Credential \cup {None}
  BY Constants DEF Types, TypeOK
<1>1. CASE Begin(c)
  <2>1. credential # None /\ ~Locked(credential) /\ seen'[c] = credential
    BY <1>0, <1>1 DEF Begin, Register, Authenticate, SetPassword, VerifySecondFactor, TotpBegin, TotpConfirm, TotpRemove,
                      RegenerateRecoveryCodes, ResetIssue, Read, Go, Return, world, Enrolled
  <2>2. credential.lockedUntil \in Nat
    BY <1>0, <2>1, CredentialParts, Constants
  <2>. QED BY <1>0, <2>1, <2>2 DEF Locked
<1>2. CASE Store(c)
  BY <1>0, <1>2, Writes
<1>3. CASE Other(c)
  <2>1. /\ pc[c] = "fail" \/ (pc[c] \in {"claim", "claimRecovery"} /\ plan[c] = "verifySecondFactor")
        /\ seen'[c] = seen[c]
    BY <1>0, <1>3 DEF Other, Create, StartSession, ClaimCounter, ClaimRecovery, StoreReset, ResetComplete, ResetFind,
                ListSessions, DestroySession, Go, Return, world, memory, Knows, Place
  <2>. QED BY <2>1 DEF Guesses
<1>. QED BY <1>1, <1>2, <1>3

\* Guesses are counted, from the first state on and by every step.
LEMMA GuessesNext ==
  /\ Init => Guesses
  /\ Types /\ Knows /\ Guesses /\ [Next]_vars => Guesses'
<1>1. ASSUME Init PROVE Guesses
  <2>1. IsFiniteSet({}) /\ Cardinality({}) = 0
    BY FS_EmptySet
  <2>2. \A c \in Calls : past.failedAt[c] = None /\ pc[c] = "idle"
    BY <1>1 DEF Init
  <2>3. credential # None => credential.failedAttempts = 0
    <3>1. Created(First).failedAttempts = 0 /\ Created(First) \in Credential
      BY CreatedType, AccountsAssumption DEF Created
    <3>2. FullyEnrolled.failedAttempts = 0
      BY DEF FullyEnrolled, Created
    <3>. QED BY <1>1, <3>1, <3>2 DEF Init
  <2>4. credential # None => Counted(credential)
    BY <2>1, <2>2, <2>3 DEF Counted, Failed
  <2>5. GuessesAreCounted
    <3> SUFFICES ASSUME NEW t \in 0..MaxTime
                 PROVE  Cardinality({c \in Calls : past.failedAt[c] \in t..(t + Lockout - 1)}) <= MaxFailedAttempts
      BY DEF GuessesAreCounted
    <3>1. {c \in Calls : past.failedAt[c] \in t..(t + Lockout - 1)} = {}
      BY <2>2, Constants, NoneAssumption
    <3>. QED BY <2>1, <3>1, Constants
  <2>. QED BY <2>2, <2>4, <2>5 DEF Guesses, Failed
<1>2. ASSUME Types, Knows, Guesses, Tick PROVE Guesses'
  <2>1. now' = now + 1 /\ now \in Nat /\ UNCHANGED <<credential, past, pc, plan, seen>>
    BY <1>2, Constants DEF Tick, Types
  <2>2. \A c \in Calls : past.failedAt[c] \in Nat \cup {None}
    BY <1>2 DEF Types, Memory, Times
  <2>3. ASSUME NEW c \in Calls,
               pc[c] = "fail" \/ (pc[c] \in {"claim", "claimRecovery"} /\ plan[c] = "verifySecondFactor")
        PROVE  seen[c].lockedUntil <= now'
    <3>1. seen[c] \in Credential
      BY <1>2, <2>3 DEF Knows, Given
    <3>2. seen[c].lockedUntil \in Nat
      BY <3>1, CredentialParts, Constants
    <3>. QED BY <1>2, <2>1, <2>3, <3>2 DEF Guesses
  <2>4. \A c \in Calls : Failed(c) => past.failedAt[c] <= now'
    BY <1>2, <2>1, <2>2 DEF Guesses, Failed
  <2>5. past.orderly /\ credential # None => Counted(credential)'
    BY <1>2, <2>1 DEF Guesses, Counted, Failed
  <2>. QED BY <1>2, <2>1, <2>3, <2>4, <2>5 DEF Guesses, Failed, GuessesAreCounted
<1>3. ASSUME Guesses, UNCHANGED vars PROVE Guesses'
  BY <1>3 DEF vars, Guesses, Failed, Counted, GuessesAreCounted
<1>4. ASSUME Types, Knows, Guesses, NEW c \in Calls, Begin(c) \/ Store(c) \/ Other(c) PROVE Guesses'
  <2>0. past \in Memory /\ pc \in [Calls -> Places] /\ past.failedAt \in [Calls -> Nat \cup {None}] /\ now \in Nat
    BY <1>4, Constants DEF Types, Memory, Times
  <2>1. now' = now /\ (credential # None => credential' # None)
    <3>1. CASE Begin(c) \/ Store(c)
      BY <1>4, <3>1, BeginReads, Writes, CredentialParts
    <3>2. CASE Other(c)
      BY <3>2 DEF Other, Create, StartSession, ClaimCounter, ClaimRecovery, StoreReset, ResetComplete, ResetFind,
                  ListSessions, DestroySession, world, memory
    <3>. QED BY <1>4, <3>1, <3>2
  <2>2. ASSUME NEW d \in Calls,
               pc'[d] = "fail" \/ (pc'[d] \in {"claim", "claimRecovery"} /\ plan'[d] = "verifySecondFactor")
        PROVE  seen'[d].lockedUntil <= now'
    <3>1. CASE d = c
      BY <1>4, <2>1, <2>2, <3>1, LetThrough
    <3>2. CASE d # c
      BY <1>4, <2>1, <2>2, <3>2, Alone DEF Guesses
    <3>. QED BY <3>1, <3>2
  <2>3. CASE Fail(c)
    <3>1. pc'[c] = "done" /\ past'.failedAt[c] = now /\ credential' # None
      <4>1. pc[c] = "fail" /\ Store(c) /\ pc' = [pc EXCEPT ![c] = "done"]
        BY <2>3 DEF Fail, Return, Store
      <4>2. past'.failedAt = [past.failedAt EXCEPT ![c] = now]
        BY <1>4, <4>1, WritePast
      <4>3. credential' # None
        BY <1>4, <4>1, Writes, CredentialParts
      <4>. QED BY <2>0, <4>1, <4>2, <4>3
    <3>2. \A d \in Calls : Failed(d)' => pc'[d] = "done" /\ past'.failedAt[d] <= now' /\ credential' # None
      <4>1. ASSUME NEW d \in Calls \ {c}, Failed(d)' PROVE pc'[d] = "done" /\ past'.failedAt[d] <= now'
        BY <1>4, <2>1, <4>1, Alone, AlonePast DEF Guesses, Failed
      <4>. QED BY <2>0, <2>1, <3>1, <4>1
    <3>3. past'.orderly => Counted(credential)' /\ GuessesAreCounted'
      BY <1>4, <2>3, OneMore
    <3>. QED BY <2>2, <3>2, <3>3 DEF Guesses, GuessesAreCounted
  <2>4. CASE ~Fail(c)
    <3>1. past'.failedAt = past.failedAt /\ (past'.orderly => past.orderly)
      <4>1. CASE Begin(c)
        BY <1>4, <2>0, <4>1, BeginReads DEF Memory
      <4>2. CASE Store(c)
        <5>1. pc[c] # "fail"
          BY <2>4, <4>2 DEF Store, Succeed, StorePassword, StrikeRecovery, StoreSecret, StoreEnrolment, StoreRemoval,
                            StoreRecoveryCodes
        <5>. QED BY <1>4, <4>2, <5>1, WritePast
      <4>3. CASE Other(c)
        BY <2>0, <4>3 DEF Other, Create, StartSession, ClaimCounter, ClaimRecovery, StoreReset, ResetComplete, ResetFind,
                  ListSessions, DestroySession, Memory
      <4>. QED BY <1>4, <4>1, <4>2, <4>3
    <3>2. \A d \in Calls : Failed(d) => pc'[d] = "done"
      BY <1>4, Alone, Final DEF Guesses
    <3>3. \A d \in Calls : Failed(d)' <=> Failed(d)
      BY <3>1 DEF Failed
    <3>4. \A d \in Calls : Failed(d)' => pc'[d] = "done" /\ past'.failedAt[d] <= now' /\ credential' # None
      BY <1>4, <2>1, <3>1, <3>2, <3>3 DEF Guesses
    <3>5. ASSUME past'.orderly, credential' # None PROVE Counted(credential)'
      <4>1. CASE credential # None /\ credential'.failedAttempts = credential.failedAttempts
                 /\ credential'.lockedUntil = credential.lockedUntil
        <5>1. Counted(credential)
          BY <1>4, <3>1, <3>5, <4>1 DEF Guesses
        <5>. QED BY <3>1, <4>1, <5>1 DEF Counted, Failed
      <4>2. CASE credential = None
        <5>1. \A d \in Calls : ~Failed(d)'
          BY <1>4, <3>3, <4>2 DEF Guesses
        <5>2. credential'.failedAttempts = 0
          <6>1. Create(c)
            <7>1. ~Begin(c)
              BY <1>4, <3>5, <4>2, BeginReads
            <7>2. ~Store(c)
              BY <1>4, <4>2, Writes, CredentialParts DEF Knows, Given
            <7>. QED BY <1>4, <3>5, <4>2, <7>1, <7>2
                     DEF Other, StartSession, ClaimCounter, ClaimRecovery, StoreReset, ResetComplete, ResetFind,
                         ListSessions, DestroySession, world, memory
          <6>. QED BY <4>2, <6>1 DEF Create, Created
        <5>3. IsFiniteSet({}) /\ Cardinality({}) = 0
          BY FS_EmptySet
        <5>. QED BY <5>1, <5>2, <5>3 DEF Counted
      <4>3. CASE credential # None /\ Store(c)
        BY <1>4, <2>4, <3>5, <4>1, <4>3, InOrder
      <4>4. CASE credential # None /\ (Begin(c) \/ Other(c))
        <5>1. credential' = credential
          BY <1>4, <4>4, BeginReads DEF Other, Create, StartSession, ClaimCounter, ClaimRecovery, StoreReset,
             ResetComplete, ResetFind, ListSessions, DestroySession, world, memory
        <5>. QED BY <4>1, <4>4, <5>1
      <4>. QED BY <1>4, <4>2, <4>3, <4>4
    <3>6. GuessesAreCounted'
      BY <1>4, <3>1 DEF Guesses, GuessesAreCounted
    <3>. QED BY <2>2, <3>4, <3>5, <3>6 DEF Guesses
  <2>. QED BY <2>3, <2>4
<1>. QED BY <1>1, <1>2, <1>3, <1>4, Steps

-----------------------------------------------------------------------------
(* Theorems. *)

\* Together: the strengthening all four properties follow from.
IInv == Types /\ Knows /\ Recoveries /\ Counters /\ Redemptions /\ Ended /\ Factors /\ Guesses

\* The strengthened invariant holds of every behaviour.
THEOREM Invariance == Spec => []IInv
<1>1. Init => IInv
  BY TypesInit, RecoveriesNext, CountersNext, RedemptionsNext, EndedNext, FactorsNext, GuessesNext DEF IInv
<1>2. IInv /\ [Next]_vars => IInv'
  BY TypesNext, RecoveriesNext, CountersNext, RedemptionsNext, EndedNext, FactorsNext, GuessesNext DEF IInv
<1>. QED BY <1>1, <1>2, PTL DEF Spec

\* Through every stale write of every operation: a recovery code signs in once, a reset token sets
\* one password, and a counter is accepted once, unless a period passes between a call's look at
\* the clock and its claim (accounts/index.ts:229-243, 272, 329-335).
THEOREM WorksOnce == Spec => []SpentOnce
<1>1. IInv => RecoveryOnce
  <2> SUFFICES ASSUME IInv, NEW c \in Calls, NEW d \in Calls, Accepted(c), Accepted(d), input[c] \in Recovery,
                      input[c] = input[d]
               PROVE  c = d
    BY DEF RecoveryOnce
  <2>. QED BY DEF IInv, Recoveries, Redeeming
<1>2. IInv => SpentOnce
  BY <1>1 DEF IInv, SpentOnce, Counters, Redemptions
<1>. QED BY <1>2, Invariance, PTL

\* A reset that answers ok has ended every session that was there when the new password was
\* stored, whoever signs in meanwhile (accounts/index.ts:336-338).
THEOREM ResetEnds == Spec => []ResetEndsOlder
<1>1. IInv => ResetEndsOlder
  BY DEF IInv, Ended
<1>. QED BY <1>1, Invariance, PTL

\* While every attempt reads what the one before it wrote, and none is right, a lockout sees no more
\* than maxFailedAttempts guesses, for every such limit and lockout (accounts/index.ts:136-148).
THEOREM Counts == Spec => []GuessesAreCounted
<1>1. IInv => GuessesAreCounted
  BY DEF IInv, Guesses
<1>. QED BY <1>1, Invariance, PTL

\* Recovery codes stand only beside a second factor, and a second factor in force has shown a code of
\* its own secret, whichever whole records the calls write back (accounts/index.ts:268-290).
THEOREM Stands == Spec => []FactorsStand
<1>1. IInv => FactorsStand
  BY DEF IInv, Factors, FactorsStand, CodesNeedAFactor, FactorWasProven, Proper, Shown, Enrolled
<1>. QED BY <1>1, Invariance, PTL

-----------------------------------------------------------------------------
(* Signing in through an upstream: the inductive invariant of the broker, BrokerInv. *)

Handoff == [provider : Providers, browser : Browsers, expires : Nat]
Session == [id : Accounts, account : Accounts, idp : Providers \cup {Absent}, sid : Sids \cup {Absent}]
CallbackPc == {"idle", "consume", "exchange", "look", "link", "signIn", "done"}
CallbackState ==
  [pc : CallbackPc, state : Starts \cup {Absent}, provider : Providers \cup {Absent},
   account : Accounts \cup {Absent}, opened : Browsers \cup {Absent}, of : Starts \cup {Absent},
   sid : Sids \cup {Absent}]
NoticeState ==
  [pc : {"idle", "find", "list", "end", "done"}, token : Tokens \cup {Absent}, at : Nat,
   account : Accounts \cup {Absent}, left : SUBSET Session, before : SUBSET Session]

\* The types of the variables, and what a callback knows from each await on.
BrokerTypes ==
  /\ policy \in Policies /\ clock \in Nat
  /\ handoffs \in [Starts -> Handoff \cup {Absent}]
  /\ identities \in [Providers -> Accounts \cup {Absent}]
  /\ signedIn \subseteq Session
  /\ claimed \subseteq Tokens \X Nat
  /\ callback \in [Callbacks -> CallbackState]
  /\ \A c \in Callbacks :
       /\ callback[c].pc \notin {"idle", "done"} =>
            callback[c].state \in Starts /\ callback[c].provider \in Providers
       /\ callback[c].pc \in {"link", "signIn"} => callback[c].account \in Accounts
  /\ notice \in [Notices -> NoticeState]
  /\ \A n \in Notices : IF notice[n].pc = "idle" THEN notice[n].token = Absent ELSE notice[n].token \in Tokens

\* A handoff that is gone was completed, by a callback of the browser that holds it.
Spent(s) == \E e \in completed : e[1] = s
Handoffs ==
  /\ \A e \in completed : e[1] \in Starts /\ handoffs[e[1]] = Absent /\ e[3] = e[4]
  /\ \A e, f \in completed : e[1] = f[1] => e = f
  /\ \A c \in Callbacks : callback[c].pc = "consume" =>
       LET s == callback[c].state IN
       /\ handoffs[s] = Absent => Spent(s)
       /\ handoffs[s] # Absent => handoffs[s].browser = callback[c].opened

\* A callback has taken no ID token before its exchange.
Answered ==
  /\ AnsweredHere
  /\ \A c \in Callbacks : callback[c].pc \in {"idle", "consume", "exchange"} => callback[c].of = Absent

\* An account stands for an identity of p: it was made for one, or its own address, by
\* which this host links, is one that p has verified.
Made(a, p) == callback[a].pc \in {"link", "signIn", "done"} /\ callback[a].provider = p
StandsFor(a, p) ==
  IF a = Local THEN policy = "verified-email" /\ p \in vouched ELSE Made(a, p)
Links ==
  /\ \A p \in Providers : identities[p] # Absent => StandsFor(identities[p], p)
  /\ \A c \in Callbacks :
       callback[c].pc \in {"link", "signIn"} => StandsFor(callback[c].account, callback[c].provider)
  /\ \A s \in signedIn : s.idp # Absent => StandsFor(s.account, s.idp)

\* A logout token's acceptance is remembered at least until it was MaxAge ago.
Claims ==
  /\ \A n \in Notices : notice[n].pc # "idle" =>
       LET t == notice[n].token IN
       /\ t.iat <= notice[n].at /\ notice[n].at <= clock
       /\ \E e \in claimed : e[1] = t /\ notice[n].at + MaxAge <= e[2]

\* A session, stored or remembered, that an upstream opened has the name of its callback, which
\* is over: no other is stored under it.
Opener(s) == IF s.id = Local THEN s.idp = Absent ELSE callback[s.id].pc = "done"
Openers ==
  /\ \A s \in signedIn : Opener(s)
  /\ \A n \in Notices : \A s \in notice[n].before : Opener(s)

\* A logout call holds, until it ends them, the sessions it is about that it found and that are there.
Lists ==
  \A n \in Notices : notice[n].pc = "end" =>
    /\ \A s \in notice[n].left : About(n, s)
    /\ \A s \in notice[n].before : About(n, s) /\ s \in signedIn => s \in notice[n].left

BrokerInv == BrokerTypes /\ Handoffs /\ Answered /\ Links /\ Claims /\ AcceptedOnceInside /\ Openers /\ Lists
-----------------------------------------------------------------------------
(* Its types. *)

\* Replacing one callback's state by a well-typed one that knows what its place requires.
LEMMA CallbackUpdate ==
  ASSUME BrokerTypes, NEW c \in Callbacks, NEW new \in CallbackState,
         callback' = [callback EXCEPT ![c] = new],
         new.pc \notin {"idle", "done"} => new.state \in Starts /\ new.provider \in Providers,
         new.pc \in {"link", "signIn"} => new.account \in Accounts
  PROVE  /\ callback' \in [Callbacks -> CallbackState]
         /\ \A d \in Callbacks :
              /\ callback'[d].pc \notin {"idle", "done"} =>
                   callback'[d].state \in Starts /\ callback'[d].provider \in Providers
              /\ callback'[d].pc \in {"link", "signIn"} => callback'[d].account \in Accounts
BY DEF BrokerTypes

\* A callback that ends knows nothing any more.
LEMMA StoppedType == Stopped \in CallbackState /\ Stopped.pc = "done"
BY DEF Stopped, Resting, CallbackState, CallbackPc

\* What an exchange takes is nothing or the ID token for the very handoff it completes.
LEMMA TakenHere ==
  ASSUME NEW p \in Providers, NEW s \in Starts, NEW r \in Endings[p][s]
  PROVE  r \in {s, Absent}
<1>1. PICK a \in Possible(p, s) : r = Taken(p, s, a)
  BY DEF Endings
<1>2. Ending(p, s, a) = "identity" => a.reply = s
  BY DEF Ending, NonceMatches
<1>. QED BY <1>1, <1>2 DEF Taken

\* The initial states are well typed.
LEMMA BrokerTypesInit == BrokerInit => BrokerTypes
BY BrokerAssumption
   DEF BrokerInit, BrokerTypes, Resting, CallbackState, CallbackPc, NoticeState, Accounts, Session, Unheard

\* Every step keeps the types.
LEMMA BrokerTypesNext == BrokerTypes /\ [BrokerNext]_brokerVars => BrokerTypes'
<1> SUFFICES ASSUME BrokerTypes, [BrokerNext]_brokerVars PROVE BrokerTypes'
  OBVIOUS
<1> USE DEF leg, upstreams
<1>1. CASE TimePasses
  BY <1>1 DEF BrokerTypes, TimePasses
<1>2. ASSUME NEW s \in Starts, Start(s) PROVE BrokerTypes'
  <2>1. PICK b \in Browsers, p \in Providers :
          handoffs' = [handoffs EXCEPT ![s] = [provider |-> p, browser |-> b, expires |-> clock + HandoffTtl]]
    BY <1>2, BrokerAssumption DEF Start, Select
  <2>2. [provider |-> p, browser |-> b, expires |-> clock + HandoffTtl] \in Handoff
    BY BrokerAssumption DEF Handoff, BrokerTypes
  <2>. QED BY <1>2, <2>1, <2>2 DEF BrokerTypes, Start
<1>3. ASSUME NEW c \in Callbacks, Find(c) PROVE BrokerTypes'
  <2>1. PICK s \in Starts, b \in Browsers :
          /\ callback[c].pc = "idle" /\ handoffs[s] # Absent
          /\ callback' = [callback EXCEPT ![c] =
               IF handoffs[s].expires > clock /\ handoffs[s].browser = b
               THEN [@ EXCEPT !.pc = "consume", !.state = s, !.provider = handoffs[s].provider, !.opened = b]
               ELSE Stopped]
    BY <1>3 DEF Find
  <2> DEFINE new == IF handoffs[s].expires > clock /\ handoffs[s].browser = b
               THEN [callback[c] EXCEPT !.pc = "consume", !.state = s, !.provider = handoffs[s].provider, !.opened = b]
               ELSE Stopped
  <2>2. callback[c] \in CallbackState /\ handoffs[s] \in Handoff
    BY <2>1 DEF BrokerTypes
  <2>3. /\ new \in CallbackState
        /\ new.pc \notin {"idle", "done"} => new.state \in Starts /\ new.provider \in Providers
        /\ new.pc \notin {"link", "signIn"}
    BY <2>2, StoppedType DEF CallbackState, CallbackPc, Handoff
  <2>4. callback' = [callback EXCEPT ![c] = new]
    BY <2>1 DEF BrokerTypes
  <2>. QED BY <1>3, <2>3, <2>4, CallbackUpdate DEF BrokerTypes, Find
<1>4. ASSUME NEW c \in Callbacks, Consume(c) PROVE BrokerTypes'
  <2>1. callback[c] \in CallbackState /\ callback[c].pc = "consume" /\ callback[c].state \in Starts
        /\ callback[c].provider \in Providers
    BY <1>4 DEF BrokerTypes, Consume
  <2>2. CASE callback' = [callback EXCEPT ![c].pc = "exchange"]
    <3> DEFINE new == [callback[c] EXCEPT !.pc = "exchange"]
    <3>1. new \in CallbackState /\ new.pc = "exchange" /\ new.state \in Starts /\ new.provider \in Providers
      BY <2>1 DEF CallbackState, CallbackPc
    <3>2. callback' = [callback EXCEPT ![c] = new]
      BY <2>2 DEF BrokerTypes
    <3>3. handoffs' \in [Starts -> Handoff \cup {Absent}]
      BY <1>4 DEF Consume, BrokerTypes
    <3>. QED BY <1>4, <3>1, <3>2, <3>3, CallbackUpdate DEF BrokerTypes, Consume
  <2>3. CASE callback' = [callback EXCEPT ![c] = Stopped] /\ UNCHANGED handoffs
    BY <1>4, <2>3, StoppedType, CallbackUpdate DEF BrokerTypes, Consume
  <2>. QED BY <1>4, <2>2, <2>3 DEF Consume
<1>5. ASSUME NEW c \in Callbacks, Exchange(c) PROVE BrokerTypes'
  <2>1. callback[c] \in CallbackState /\ callback[c].state \in Starts /\ callback[c].provider \in Providers
    BY <1>5 DEF BrokerTypes, Exchange
  <2>2. PICK s \in Endings[callback[c].provider][callback[c].state], sid \in Sids \cup {Absent} :
          callback' = [callback EXCEPT ![c] =
            IF s = Absent THEN Stopped ELSE [@ EXCEPT !.pc = "look", !.of = s, !.sid = sid]]
    BY <1>5 DEF Exchange
  <2>3. s \in Starts \cup {Absent}
    BY <2>1, TakenHere
  <2> DEFINE new == IF s = Absent THEN Stopped ELSE [callback[c] EXCEPT !.pc = "look", !.of = s, !.sid = sid]
  <2>4. /\ new \in CallbackState
        /\ new.pc \notin {"idle", "done"} => new.state \in Starts /\ new.provider \in Providers
        /\ new.pc \notin {"link", "signIn"}
    BY <2>1, <2>3, StoppedType DEF CallbackState, CallbackPc
  <2>5. callback' = [callback EXCEPT ![c] = new]
    BY <2>2 DEF BrokerTypes
  <2>. QED BY <1>5, <2>4, <2>5, CallbackUpdate DEF BrokerTypes, Exchange
<1>6. ASSUME NEW c \in Callbacks, Look(c) PROVE BrokerTypes'
  <2>1. callback[c] \in CallbackState /\ callback[c].state \in Starts /\ callback[c].provider \in Providers
    BY <1>6 DEF BrokerTypes, Look
  <2>2. PICK new : callback' = [callback EXCEPT ![c] = new]
               /\ \/ new = Stopped
                  \/ identities[callback[c].provider] # Absent
                     /\ new = [callback[c] EXCEPT !.pc = "signIn", !.account = identities[callback[c].provider]]
                  \/ \E a \in Accounts : new = [callback[c] EXCEPT !.pc = "link", !.account = a]
    BY <1>6 DEF Look, BrokerTypes, Accounts
  <2>3. identities[callback[c].provider] \in Accounts \cup {Absent}
    BY <2>1 DEF BrokerTypes
  <2>4. /\ new \in CallbackState
        /\ new.pc \notin {"idle", "done"} => new.state \in Starts /\ new.provider \in Providers
        /\ new.pc \in {"link", "signIn"} => new.account \in Accounts
    BY <2>1, <2>2, <2>3, StoppedType DEF CallbackState, CallbackPc
  <2>. QED BY <1>6, <2>2, <2>4, CallbackUpdate DEF BrokerTypes, Look
<1>7. ASSUME NEW c \in Callbacks, Link(c) \/ SignIn(c) PROVE BrokerTypes'
  <2>1. callback[c] \in CallbackState /\ callback[c].state \in Starts /\ callback[c].provider \in Providers
        /\ callback[c].account \in Accounts
    BY <1>7 DEF BrokerTypes, Link, SignIn
  <2>2. PICK at \in {"signIn", "done"} : callback' = [callback EXCEPT ![c] = [callback[c] EXCEPT !.pc = at]]
    BY <1>7 DEF Link, SignIn, BrokerTypes
  <2> DEFINE new == [callback[c] EXCEPT !.pc = at]
  <2>3. new \in CallbackState /\ new.state \in Starts /\ new.provider \in Providers /\ new.account \in Accounts
    BY <2>1 DEF CallbackState, CallbackPc
  <2>4. identities' \in [Providers -> Accounts \cup {Absent}]
    BY <1>7, <2>1 DEF BrokerTypes, Link, SignIn
  <2>5. signedIn' \subseteq Session
    <3>1. callback[c].sid \in Sids \cup {Absent} /\ c \in Accounts
      BY <2>1 DEF CallbackState, Accounts
    <3>2. [id |-> c, account |-> callback[c].account, idp |-> callback[c].provider, sid |-> callback[c].sid] \in Session
      BY <2>1, <3>1 DEF Session
    <3>. QED BY <1>7, <3>2 DEF BrokerTypes, Link, SignIn
  <2>. QED BY <1>7, <2>2, <2>3, <2>4, <2>5, CallbackUpdate DEF BrokerTypes, Link, SignIn
<1>8. ASSUME NEW p \in Providers, Unlink(p) PROVE BrokerTypes'
  BY <1>8 DEF BrokerTypes, Unlink
<1>9. ASSUME NEW n \in Notices, Accept(n) PROVE BrokerTypes'
  <2>1. PICK t \in Tokens : Claim(t) /\ notice' = [notice EXCEPT ![n] =
          [Unheard EXCEPT !.pc = IF t.sid = Absent THEN "find" ELSE "list", !.token = t, !.at = clock]]
    BY <1>9 DEF Accept
  <2> DEFINE new == [Unheard EXCEPT !.pc = IF t.sid = Absent THEN "find" ELSE "list", !.token = t, !.at = clock]
  <2>2. clock + MaxAge \in Nat
    BY BrokerAssumption DEF BrokerTypes
  <2>3. claimed' \subseteq Tokens \X Nat
    BY <2>1, <2>2 DEF BrokerTypes, Claim
  <2>4. new \in NoticeState /\ new.pc # "idle" /\ new.token = t
    BY DEF NoticeState, BrokerTypes, Unheard
  <2>. QED BY <1>9, <2>1, <2>3, <2>4 DEF BrokerTypes, Accept
<1>10. ASSUME NEW n \in Notices, FindIdentity(n) PROVE BrokerTypes'
  <2> DEFINE account == identities[notice[n].token.provider]
             new == IF account = Absent THEN Heeded(n) ELSE [notice[n] EXCEPT !.pc = "list", !.account = account]
  <2>1. notice[n] \in NoticeState /\ notice[n].token \in Tokens /\ notice[n].token.provider \in Providers
    BY <1>10, BrokerAssumption DEF BrokerTypes, FindIdentity
  <2>2. account \in Accounts \cup {Absent}
    BY <2>1 DEF BrokerTypes
  <2>3. new \in NoticeState /\ new.pc # "idle" /\ new.token = notice[n].token
    BY <2>1, <2>2 DEF NoticeState, Heeded
  <2>4. notice' = [notice EXCEPT ![n] = new]
    BY <1>10 DEF FindIdentity, BrokerTypes
  <2>. QED BY <1>10, <2>1, <2>3, <2>4 DEF BrokerTypes, FindIdentity
<1>11. ASSUME NEW n \in Notices, List(n) PROVE BrokerTypes'
  <2> DEFINE found == Named(notice[n].token, notice[n].account)
             new == [notice[n] EXCEPT !.pc = "end", !.left = found, !.before = signedIn]
  <2>1. notice[n] \in NoticeState /\ found \in SUBSET Session /\ signedIn \in SUBSET Session /\ notice[n].token \in Tokens
    BY <1>11 DEF BrokerTypes, Named, List
  <2>2. new \in NoticeState /\ new.pc # "idle" /\ new.token = notice[n].token
    BY <2>1 DEF NoticeState
  <2>3. notice' = [notice EXCEPT ![n] = new]
    BY <1>11 DEF List, BrokerTypes
  <2>. QED BY <1>11, <2>1, <2>2, <2>3 DEF BrokerTypes, List
<1>12. ASSUME NEW n \in Notices, EndSession(n) PROVE BrokerTypes'
  <2>1. notice[n] \in NoticeState /\ notice[n].pc = "end" /\ notice[n].token \in Tokens
    BY <1>12 DEF BrokerTypes, EndSession
  <2>2. PICK new \in NoticeState : new.pc # "idle" /\ new.token = notice[n].token
                                   /\ notice' = [notice EXCEPT ![n] = new]
    <3>1. CASE notice[n].left = {}
      <4>1. Heeded(n) \in NoticeState /\ Heeded(n).pc # "idle" /\ Heeded(n).token = notice[n].token
        BY <2>1 DEF NoticeState, Heeded
      <4>2. notice' = [notice EXCEPT ![n] = Heeded(n)]
        BY <1>12, <3>1 DEF EndSession, BrokerTypes
      <4>. QED BY <2>1, <4>1, <4>2 DEF NoticeState
    <3>2. CASE notice[n].left # {}
      <4>1. PICK s : notice' = [notice EXCEPT ![n] = [notice[n] EXCEPT !.left = notice[n].left \ {s}]]
        BY <1>12, <3>2 DEF EndSession, BrokerTypes
      <4>2. [notice[n] EXCEPT !.left = notice[n].left \ {s}] \in NoticeState
        BY <2>1 DEF NoticeState
      <4>. QED BY <2>1, <4>1, <4>2 DEF NoticeState
    <3>. QED BY <3>1, <3>2
  <2>3. signedIn' \subseteq Session
    BY <1>12 DEF EndSession, BrokerTypes
  <2>. QED BY <1>12, <2>1, <2>2, <2>3 DEF BrokerTypes, EndSession
<1>13. CASE UNCHANGED brokerVars
  BY <1>13 DEF BrokerTypes, brokerVars
<1>. QED BY <1>1, <1>2, <1>3, <1>4, <1>5, <1>6, <1>7, <1>8, <1>9, <1>10, <1>11, <1>12, <1>13 DEF BrokerNext

-----------------------------------------------------------------------------
(* A handoff completes once, and what it is answered is its own. *)

\* What a callback's step does to the one that takes it, and that it leaves the others alone.
LEMMA Onwards ==
  ASSUME BrokerTypes, [BrokerNext]_brokerVars, NEW c \in Callbacks
  PROVE  /\ callback[c].pc = "done" => callback'[c] = callback[c]
         /\ callback[c].pc \in {"link", "signIn"} =>
              /\ callback'[c].pc \in {"link", "signIn", "done"}
              /\ callback'[c].provider = callback[c].provider /\ callback'[c].account = callback[c].account
<1> USE DEF leg, upstreams
<1>1. CASE UNCHANGED callback
  BY <1>1
<1>2. ASSUME NEW d \in Callbacks, Find(d) \/ Consume(d) \/ Exchange(d) \/ Look(d)
      PROVE  callback[d].pc \notin {"link", "signIn", "done"} /\ (d # c => callback'[c] = callback[c])
  BY <1>2 DEF Find, Consume, Exchange, Look, BrokerTypes
<1>3. ASSUME NEW d \in Callbacks, Link(d) \/ SignIn(d)
      PROVE  /\ callback[d].pc \in {"link", "signIn"} /\ (d # c => callback'[c] = callback[c])
             /\ callback'[d].pc \in {"signIn", "done"}
             /\ callback'[d].provider = callback[d].provider /\ callback'[d].account = callback[d].account
  BY <1>3 DEF Link, SignIn, BrokerTypes, CallbackState
<1>. QED BY <1>1, <1>2, <1>3
         DEF BrokerNext, TimePasses, Start, Unlink, Accept, FindIdentity, List, EndSession, brokerVars

\* Handoffs holds at first: no handoff has been made, and no callback has come.
LEMMA HandoffsInit == BrokerInit => Handoffs /\ Answered
BY DEF BrokerInit, Handoffs, Answered, AnsweredHere, Resting

\* Every step keeps Handoffs: only Consume completes a handoff, one that is there, and leaves
\* none; and a start takes a name that no handoff ever had.
LEMMA HandoffsNext == BrokerTypes /\ Handoffs /\ [BrokerNext]_brokerVars => Handoffs'
<1> SUFFICES ASSUME BrokerTypes, Handoffs, [BrokerNext]_brokerVars PROVE Handoffs'
  OBVIOUS
<1> USE DEF leg, upstreams
<1>1. CASE UNCHANGED <<handoffs, completed, callback>>
  BY <1>1 DEF Handoffs, Spent
<1>2. ASSUME NEW s \in Starts, Start(s) PROVE Handoffs'
  <2>1. handoffs[s] = Absent /\ ~Spent(s) /\ \A q \in Starts : q # s => handoffs'[q] = handoffs[q]
    BY <1>2 DEF Start, Spent, BrokerTypes
  <2>2. \A c \in Callbacks : callback[c].pc = "consume" => callback[c].state \in Starts \ {s}
    BY <2>1 DEF Handoffs, BrokerTypes
  <2>. QED BY <1>2, <2>1, <2>2 DEF Start, Handoffs, Spent
<1>3. ASSUME NEW c \in Callbacks, Find(c) PROVE Handoffs'
  <2>1. PICK s \in Starts, b \in Browsers :
          /\ callback[c].pc = "idle" /\ handoffs[s] # Absent
          /\ callback' = [callback EXCEPT ![c] =
               IF handoffs[s].expires > clock /\ handoffs[s].browser = b
               THEN [@ EXCEPT !.pc = "consume", !.state = s, !.provider = handoffs[s].provider, !.opened = b]
               ELSE Stopped]
    BY <1>3 DEF Find
  <2>2. callback'[c].pc = "consume" =>
          callback'[c].state = s /\ handoffs[s] # Absent /\ handoffs[s].browser = callback'[c].opened
    BY <2>1, StoppedType DEF BrokerTypes, CallbackState
  <2>3. \A d \in Callbacks \ {c} : callback'[d] = callback[d]
    BY <2>1 DEF BrokerTypes
  <2>4. UNCHANGED <<handoffs, completed>>
    BY <1>3 DEF Find
  <2>. QED BY <2>2, <2>3, <2>4 DEF Handoffs, Spent
<1>4. ASSUME NEW c \in Callbacks, Consume(c) PROVE Handoffs'
  <2> DEFINE s == callback[c].state
  <2>1. callback[c].pc = "consume" /\ s \in Starts /\ callback'[c].pc # "consume"
        /\ \A d \in Callbacks \ {c} : callback'[d] = callback[d]
    BY <1>4, StoppedType DEF Consume, BrokerTypes, CallbackState
  <2>2. CASE UNCHANGED <<handoffs, completed>>
    BY <2>1, <2>2 DEF Handoffs, Spent
  <2>3. CASE /\ handoffs[s] # Absent /\ handoffs' = [handoffs EXCEPT ![s] = Absent]
             /\ completed' = completed \cup {<<s, c, handoffs[s].browser, callback[c].opened>>}
    <3>1. handoffs[s].browser = callback[c].opened /\ ~Spent(s)
      BY <2>1, <2>3 DEF Handoffs, Spent
    <3>2. \A q \in Starts : handoffs'[q] = IF q = s THEN Absent ELSE handoffs[q]
      BY <2>3 DEF BrokerTypes
    <3>3. \A e \in completed' : e[1] \in Starts /\ handoffs'[e[1]] = Absent /\ e[3] = e[4]
      BY <2>1, <2>3, <3>1, <3>2 DEF Handoffs
    <3>4. \A e, f \in completed' : e[1] = f[1] => e = f
      BY <2>3, <3>1 DEF Handoffs, Spent
    <3>5. \A q \in Starts : q = s \/ Spent(q) => Spent(q)'
      <4> DEFINE e == <<s, c, handoffs[s].browser, callback[c].opened>>
      <4>1. e \in completed' /\ e[1] = s /\ completed \subseteq completed'
        BY <2>3
      <4>. QED BY <4>1 DEF Spent
    <3>6. ASSUME NEW d \in Callbacks, callback'[d].pc = "consume", NEW q \in Starts, q = callback'[d].state
          PROVE  /\ handoffs'[q] = Absent => Spent(q)'
                 /\ handoffs'[q] # Absent => handoffs'[q].browser = callback'[d].opened
      <4>1. d # c /\ callback'[d] = callback[d]
        BY <2>1, <3>6
      <4>2. /\ handoffs[q] = Absent => Spent(q)
            /\ handoffs[q] # Absent => handoffs[q].browser = callback[d].opened
        BY <3>6, <4>1 DEF Handoffs
      <4>. QED BY <3>2, <3>5, <4>1, <4>2
    <3>7. \A d \in Callbacks : callback'[d].pc = "consume" => callback'[d].state \in Starts
      BY <2>1 DEF BrokerTypes
    <3>. QED BY <3>3, <3>4, <3>6, <3>7 DEF Handoffs, Spent
  <2>. QED BY <1>4, <2>2, <2>3 DEF Consume
<1>5. ASSUME NEW c \in Callbacks, Exchange(c) \/ Look(c) \/ Link(c) \/ SignIn(c) PROVE Handoffs'
  <2>1. \A d \in Callbacks \ {c} : callback'[d] = callback[d]
    BY <1>5 DEF Exchange, Look, Link, SignIn, BrokerTypes
  <2>2. callback'[c].pc # "consume"
    <3>1. CASE Exchange(c)
      BY <3>1, StoppedType DEF Exchange, BrokerTypes, CallbackState
    <3>2. CASE Look(c)
      BY <3>2, StoppedType DEF Look, BrokerTypes, CallbackState
    <3>3. CASE Link(c) \/ SignIn(c)
      BY <3>3 DEF Link, SignIn, BrokerTypes, CallbackState
    <3>. QED BY <1>5, <3>1, <3>2, <3>3
  <2>3. UNCHANGED <<handoffs, completed>>
    BY <1>5 DEF Exchange, Look, Link, SignIn
  <2>. QED BY <2>1, <2>2, <2>3 DEF Handoffs, Spent
<1>. QED BY <1>1, <1>2, <1>3, <1>4, <1>5
         DEF BrokerNext, TimePasses, Unlink, Accept, FindIdentity, List, EndSession, brokerVars

\* Every step keeps Answered: only Exchange takes an ID token, by its nonce.
LEMMA AnsweredNext == BrokerTypes /\ Answered /\ [BrokerNext]_brokerVars => Answered'
<1> DEFINE Right(d) == /\ d.of # Absent => d.of = d.state
                       /\ d.pc \in {"idle", "consume", "exchange"} => d.of = Absent
<1> SUFFICES ASSUME BrokerTypes, \A d \in Callbacks : Right(callback[d]), [BrokerNext]_brokerVars, NEW c \in Callbacks
             PROVE  Right(callback'[c])
  BY DEF Answered, AnsweredHere
<1> USE DEF leg, upstreams
<1>0. callback[c] \in CallbackState /\ Right(callback[c]) /\ Right(Stopped)
  BY DEF BrokerTypes, Stopped, Resting
<1>1. CASE callback'[c] = callback[c]
  BY <1>0, <1>1
<1>2. CASE Find(c)
  BY <1>0, <1>2 DEF Find, BrokerTypes, CallbackState
<1>3. CASE Consume(c)
  BY <1>0, <1>3 DEF Consume, BrokerTypes, CallbackState
<1>4. CASE Exchange(c)
  <2>1. callback[c].state \in Starts /\ callback[c].provider \in Providers
    BY <1>4 DEF Exchange, BrokerTypes
  <2>2. PICK s \in Endings[callback[c].provider][callback[c].state], sid \in Sids \cup {Absent} :
          callback' = [callback EXCEPT ![c] =
            IF s = Absent THEN Stopped ELSE [@ EXCEPT !.pc = "look", !.of = s, !.sid = sid]]
    BY <1>4 DEF Exchange
  <2>3. s \in {callback[c].state, Absent}
    BY <2>1, TakenHere
  <2>. QED BY <1>0, <2>2, <2>3 DEF BrokerTypes, CallbackState
<1>5. CASE Look(c)
  <2>1. callback[c].pc = "look" /\ \/ callback'[c] = Stopped
                                   \/ \E a, at : at \in {"signIn", "link"}
                                        /\ callback'[c] = [callback[c] EXCEPT !.pc = at, !.account = a]
    BY <1>5 DEF Look, BrokerTypes
  <2>. QED BY <1>0, <2>1 DEF CallbackState
<1>6. CASE Link(c) \/ SignIn(c)
  BY <1>0, <1>6 DEF Link, SignIn, BrokerTypes, CallbackState
<1>7. ASSUME NEW d \in Callbacks \ {c}, Find(d) \/ Consume(d) \/ Exchange(d) \/ Look(d) \/ Link(d) \/ SignIn(d)
      PROVE  callback'[c] = callback[c]
  BY <1>7 DEF Find, Consume, Exchange, Look, Link, SignIn, BrokerTypes
<1>. QED BY <1>1, <1>2, <1>3, <1>4, <1>5, <1>6, <1>7
         DEF BrokerNext, TimePasses, Start, Unlink, Accept, FindIdentity, List, EndSession, brokerVars

-----------------------------------------------------------------------------
(* Nobody is signed in to somebody else's account. *)

\* An account that stands for an identity does so from then on.
LEMMA StandsOn ==
  ASSUME BrokerTypes, [BrokerNext]_brokerVars, NEW a \in Accounts, NEW p \in Providers, StandsFor(a, p)
  PROVE  StandsFor(a, p)'
<1> USE DEF leg, upstreams
<1>1. policy' = policy /\ vouched \subseteq vouched'
  BY DEF BrokerNext, TimePasses, Start, Find, Consume, Exchange, Look, Link, SignIn, Unlink,
         Accept, FindIdentity, List, EndSession, brokerVars
<1>2. CASE a = Local
  BY <1>1, <1>2 DEF StandsFor
<1>3. CASE a # Local
  <2>1. a \in Callbacks /\ callback[a].pc \in {"link", "signIn", "done"} /\ callback[a].provider = p
    BY <1>3 DEF StandsFor, Made, Accounts
  <2>2. callback'[a].pc \in {"link", "signIn", "done"} /\ callback'[a].provider = p
    BY <2>1, Onwards
  <2>. QED BY <1>3, <2>2 DEF StandsFor, Made
<1>. QED BY <1>2, <1>3

\* An address the host links by is one the upstream says it has verified: the flag is about
\* the address it came with, or it is dropped.
LEMMA HeardIsVerified ==
  ASSUME NEW p \in Providers, NEW heard \in Heard[p], heard[1].email = Local, heard[1].verified
  PROVE  Local \in heard[2]
<1>1. PICK said \in Upstream : heard = <<Mapped(p, Merged(said)), Verified(said)>>
  BY DEF Heard
<1>2. Mapped(p, Merged(said)).email = Local /\ Mapped(p, Merged(said)).verified
  BY <1>1
<1>3. Merged(said).email = Local /\ Merged(said).verified
  BY <1>2 DEF Mapped
<1>4. Local # Absent
  BY BrokerAssumption
<1>5. Local \in Verified(said)
  <2>1. CASE ~said.info.same
    BY <1>3, <1>4, <2>1 DEF Merged, Verified
  <2>2. CASE said.info.same
    <3>1. \/ said.email = Local
          \/ said.info.email = Local
      BY <1>3, <2>2 DEF Merged
    <3>2. said.verified \/ said.info.verified
      BY <1>3, <2>2 DEF Merged
    <3>. QED BY <1>4, <2>2, <3>1, <3>2 DEF Verified
  <2>. QED BY <2>1, <2>2
<1>. QED BY <1>1, <1>5

\* What linkIdentity decides on stands for the identity it heard about.
LEMMA LookStands ==
  ASSUME BrokerTypes, Links, NEW c \in Callbacks, Look(c), callback'[c].pc \in {"link", "signIn"},
         NEW a \in Accounts, a = callback'[c].account
  PROVE  StandsFor(a, callback[c].provider)' /\ callback'[c].provider = callback[c].provider
<1> DEFINE p == callback[c].provider
<1>1. callback[c].pc = "look" /\ p \in Providers /\ callback[c] \in CallbackState
  BY DEF Look, BrokerTypes
<1>2. PICK heard \in Heard[p] :
        LET candidate == policy # "subject" /\ heard[1].email = Local /\ heard[1].verified
        IN /\ callback' = [callback EXCEPT ![c] =
                IF identities[p] # Absent THEN [@ EXCEPT !.pc = "signIn", !.account = identities[p]]
                ELSE IF candidate /\ policy = "interactive" THEN Stopped
                ELSE [@ EXCEPT !.pc = "link", !.account = IF candidate THEN Local ELSE c]]
           /\ vouched' = IF Local \in heard[2] THEN vouched \cup {p} ELSE vouched
  BY DEF Look
<1>3. UNCHANGED <<policy, identities>> /\ \A d \in Callbacks \ {c} : callback'[d] = callback[d]
  BY DEF Look, leg, BrokerTypes
<1>4. callback'[c].provider = p
  BY <1>1, <1>2, StoppedType DEF BrokerTypes, CallbackState
<1>5. CASE identities[p] # Absent
  <2>1. a = identities[p] /\ StandsFor(a, p)
    BY <1>1, <1>2, <1>5 DEF Links, BrokerTypes, CallbackState
  <2>2. a # Local => a \in Callbacks /\ a # c
    BY <1>1, <2>1 DEF StandsFor, Made, Accounts
  <2>3. vouched \subseteq vouched'
    BY <1>2
  <2>. QED BY <1>3, <1>4, <2>1, <2>2, <2>3 DEF StandsFor, Made
<1>6. CASE identities[p] = Absent
  <2>1. callback'[c].pc = "link"
        /\ a = IF policy # "subject" /\ heard[1].email = Local /\ heard[1].verified THEN Local ELSE c
    BY <1>1, <1>2, <1>6, StoppedType DEF BrokerTypes, CallbackState
  <2>2. CASE a = Local
    <3>1. policy \notin {"subject", "interactive"} /\ heard[1].email = Local /\ heard[1].verified
      BY <1>1, <1>2, <1>6, <2>1, <2>2, StoppedType, BrokerAssumption DEF BrokerTypes, CallbackState
    <3>2. Local \in heard[2]
      BY <1>1, <3>1, HeardIsVerified
    <3>3. policy = "verified-email"
      BY <3>1, BrokerAssumption DEF BrokerTypes
    <3>. QED BY <1>2, <1>3, <1>4, <2>2, <3>2, <3>3 DEF StandsFor
  <2>3. CASE a # Local
    BY <1>4, <2>1, <2>3 DEF StandsFor, Made
  <2>. QED BY <2>2, <2>3
<1>. QED BY <1>4, <1>5, <1>6

\* Links holds at first: nothing is linked.
LEMMA LinksInit == BrokerInit => Links
BY DEF BrokerInit, Links, Resting

\* Every step keeps Links: a link is written for an account that stands for the identity, and
\* a session is opened on one.
LEMMA LinksNext == BrokerTypes /\ Links /\ [BrokerNext]_brokerVars => Links'
<1> SUFFICES ASSUME BrokerTypes, Links, [BrokerNext]_brokerVars PROVE Links'
  OBVIOUS
<1> USE DEF leg, upstreams
<1>1. BrokerTypes' /\ \A a \in Accounts, p \in Providers : StandsFor(a, p) => StandsFor(a, p)'
  BY BrokerTypesNext, StandsOn
<1>2. ASSUME NEW p \in Providers, NEW a \in Accounts, a = identities'[p], a # Absent PROVE StandsFor(a, p)'
  <2>1. CASE identities'[p] = identities[p]
    BY <1>1, <1>2, <2>1 DEF Links
  <2>2. ASSUME NEW c \in Callbacks, Link(c), callback[c].provider = p PROVE StandsFor(a, p)'
    <3>1. callback[c].pc = "link" /\ a = callback[c].account
      BY <1>2, <2>2 DEF Link, BrokerTypes
    <3>2. StandsFor(a, p)
      BY <2>2, <3>1 DEF Links
    <3>. QED BY <1>1, <3>2
  <2>3. CASE identities'[p] = Absent
    BY <1>2, <2>3
  <2>. QED BY <2>1, <2>2, <2>3
           DEF BrokerNext, TimePasses, Start, Find, Consume, Exchange, Look, Link, SignIn, Unlink,
               Accept, FindIdentity, List, EndSession, brokerVars, BrokerTypes
<1>3. ASSUME NEW c \in Callbacks, callback'[c].pc \in {"link", "signIn"}, NEW a \in Accounts,
              a = callback'[c].account, NEW p \in Providers, p = callback'[c].provider
       PROVE  StandsFor(a, p)'
  <2>1. CASE callback[c].pc \in {"link", "signIn"}
    <3>1. a = callback[c].account /\ p = callback[c].provider
      BY <1>3, <2>1, Onwards
    <3>. QED BY <1>1, <2>1, <3>1 DEF Links
  <2>2. CASE callback[c].pc \notin {"link", "signIn"}
    <3>1. Look(c)
      <4>1. CASE Find(c)
        BY <1>3, <4>1, StoppedType DEF Find, BrokerTypes, CallbackState
      <4>2. CASE Consume(c)
        BY <1>3, <4>2, StoppedType DEF Consume, BrokerTypes, CallbackState
      <4>3. CASE Exchange(c)
        BY <1>3, <4>3, StoppedType DEF Exchange, BrokerTypes, CallbackState
      <4>4. CASE Link(c) \/ SignIn(c)
        BY <2>2, <4>4 DEF Link, SignIn
      <4>5. callback'[c] # callback[c]
        BY <1>3, <2>2
      <4>6. ASSUME NEW d \in Callbacks \ {c},
                    Find(d) \/ Consume(d) \/ Exchange(d) \/ Look(d) \/ Link(d) \/ SignIn(d)
            PROVE  callback'[c] = callback[c]
        BY <4>6 DEF Find, Consume, Exchange, Look, Link, SignIn, BrokerTypes
      <4>. QED BY <4>1, <4>2, <4>3, <4>4, <4>5, <4>6
               DEF BrokerNext, TimePasses, Start, Unlink, Accept, FindIdentity, List, EndSession, brokerVars
    <3>2. StandsFor(a, callback[c].provider)' /\ callback'[c].provider = callback[c].provider
      BY <1>3, <3>1, LookStands
    <3>. QED BY <1>3, <3>2 DEF StandsFor, Made
  <2>. QED BY <2>1, <2>2
<1>4. ASSUME NEW s \in signedIn', s.idp # Absent PROVE StandsFor(s.account, s.idp)'
  <2>1. s \in Session /\ s.account \in Accounts /\ s.idp \in Providers
    BY <1>1, <1>4 DEF BrokerTypes, Session
  <2>2. CASE s \in signedIn
    BY <1>1, <1>4, <2>1, <2>2 DEF Links
  <2>3. ASSUME NEW c \in Callbacks, SignIn(c), s \notin signedIn PROVE StandsFor(s.account, s.idp)'
    <3>1. callback[c].pc = "signIn" /\ s.account = callback[c].account /\ s.idp = callback[c].provider
      BY <2>3 DEF SignIn
    <3>. QED BY <1>1, <2>1, <3>1 DEF Links
  <2>. QED BY <2>2, <2>3
           DEF BrokerNext, TimePasses, Start, Find, Consume, Exchange, Look, Link, Unlink,
               Accept, FindIdentity, List, EndSession, brokerVars
<1>5. /\ identities' \in [Providers -> Accounts \cup {Absent}] /\ signedIn' \subseteq Session
      /\ \A c \in Callbacks : callback'[c].pc \in {"link", "signIn"} =>
           callback'[c].account \in Accounts /\ callback'[c].provider \in Providers
  BY <1>1 DEF BrokerTypes
<1>6. \A p \in Providers : identities'[p] # Absent => identities'[p] \in Accounts
  BY <1>5
<1>. QED BY <1>2, <1>3, <1>4, <1>5, <1>6 DEF Links

-----------------------------------------------------------------------------
(* A logout token is accepted once, and ends what it names. *)

\* What a step does to a logout call: it stays what it was, it is accepted, or it goes on with
\* the token it has.
LEMMA NoticeSteps ==
  ASSUME BrokerTypes, [BrokerNext]_brokerVars, NEW n \in Notices
  PROVE  \/ notice'[n] = notice[n]
         \/ Accept(n)
         \/ FindIdentity(n)
         \/ List(n)
         \/ EndSession(n)
BY ZenonT(30)
   DEF BrokerNext, TimePasses, Start, Find, Consume, Exchange, Look, Link, SignIn, Unlink,
       Accept, FindIdentity, List, EndSession, brokerVars, leg, upstreams, BrokerTypes

\* What a call that is over has: its token still, and no memory.
LEMMA HeededKeeps ==
  ASSUME BrokerTypes, NEW n \in Notices
  PROVE  /\ Heeded(n).pc = "done" /\ Heeded(n).before = {}
         /\ Heeded(n).token = notice[n].token /\ Heeded(n).at = notice[n].at
BY DEF Heeded, BrokerTypes, NoticeState

\* Looking for the identity ends the call or makes it list, of the token it has.
LEMMA FindKeeps ==
  ASSUME BrokerTypes, NEW n \in Notices, FindIdentity(n)
  PROVE  /\ notice[n].pc = "find" /\ notice'[n].pc \in {"list", "done"}
         /\ notice'[n].token = notice[n].token /\ notice'[n].at = notice[n].at
         /\ notice'[n].before \subseteq notice[n].before
<1> DEFINE account == identities[notice[n].token.provider]
           on == [notice[n] EXCEPT !.pc = "list", !.account = account]
<1>1. notice[n].pc = "find" /\ notice'[n] = IF account = Absent THEN Heeded(n) ELSE on
  BY DEF FindIdentity, BrokerTypes
<1>2. on.pc = "list" /\ on.token = notice[n].token /\ on.at = notice[n].at /\ on.before = notice[n].before
  BY DEF BrokerTypes, NoticeState
<1>. QED BY <1>1, <1>2, HeededKeeps

\* Ending takes one session off what is left, or finds nothing left and is over.
LEMMA EndKeeps ==
  ASSUME BrokerTypes, NEW n \in Notices, EndSession(n)
  PROVE  /\ notice[n].pc = "end" /\ notice'[n].pc \in {"end", "done"}
         /\ notice'[n].token = notice[n].token /\ notice'[n].at = notice[n].at
         /\ notice'[n].before \subseteq notice[n].before
         /\ notice'[n].pc = "done" => notice[n].left = {}
         /\ notice'[n].pc = "end" =>
              \E s \in notice[n].left :
                /\ signedIn' = signedIn \ {s} /\ notice'[n].left = notice[n].left \ {s}
                /\ notice'[n].before = notice[n].before /\ notice'[n].account = notice[n].account
<1>1. notice[n].pc = "end"
  BY DEF EndSession
<1>2. CASE notice[n].left = {}
  <2>1. notice'[n] = Heeded(n)
    BY <1>2 DEF EndSession, BrokerTypes
  <2>. QED BY <1>1, <1>2, <2>1, HeededKeeps
<1>3. CASE notice[n].left # {}
  <2>1. PICK s \in notice[n].left : signedIn' = signedIn \ {s} /\ notice' = [notice EXCEPT ![n].left = @ \ {s}]
    BY <1>3 DEF EndSession
  <2>2. /\ notice'[n].left = notice[n].left \ {s} /\ notice'[n].before = notice[n].before
        /\ notice'[n].account = notice[n].account /\ notice'[n].pc = notice[n].pc
        /\ notice'[n].token = notice[n].token /\ notice'[n].at = notice[n].at
    BY <2>1 DEF BrokerTypes, NoticeState
  <2>. QED BY <1>1, <2>1, <2>2
<1>. QED BY <1>2, <1>3

\* A call under way keeps its token and the time at which it took it.
LEMMA NoticeKeeps ==
  ASSUME BrokerTypes, [BrokerNext]_brokerVars, NEW n \in Notices, notice[n].pc # "idle"
  PROVE  /\ notice'[n].pc # "idle"
         /\ notice'[n].token = notice[n].token /\ notice'[n].at = notice[n].at
<1>1. CASE notice'[n] = notice[n]
  BY <1>1
<1>2. CASE Accept(n)
  BY <1>2 DEF Accept
<1>3. CASE List(n)
  BY <1>3 DEF List, BrokerTypes, NoticeState
<1>. QED BY <1>1, <1>2, <1>3, NoticeSteps, FindKeeps, EndKeeps

\* The claims hold at first: nothing was accepted.
LEMMA ClaimsInit == BrokerInit => Claims /\ AcceptedOnceInside
BY DEF BrokerInit, Claims, AcceptedOnceInside, Unheard

\* A second acceptance of a token comes when the claim of the first has run out, which is the
\* last second in which a token of that age is taken.
LEMMA AcceptedAgain ==
  ASSUME BrokerTypes, Claims, NEW m \in Notices, NEW n \in Notices, m # n, Accept(n),
         notice[m].pc # "idle", notice[m].token = notice'[n].token
  PROVE  notice[m].token.iat + MaxAge = notice'[n].at
<1>1. PICK t \in Tokens : /\ clock <= t.iat + MaxAge /\ ~Remembered(t)
                          /\ notice'[n].token = t /\ notice'[n].at = clock
  BY DEF Accept, Unheard, BrokerTypes
<1>2. notice'[n].at = clock /\ notice[m].token = t /\ t.iat \in Nat
  BY <1>1, BrokerAssumption
<1>3. PICK e \in claimed : e[1] = t /\ notice[m].at + MaxAge <= e[2]
  BY <1>2 DEF Claims
<1>4. e[2] <= clock /\ e[2] \in Nat
  BY <1>1, <1>3 DEF Remembered, BrokerTypes
<1>5. t.iat <= notice[m].at
  BY <1>2 DEF Claims
<1>6. t.iat \in Nat /\ notice[m].at \in Nat /\ clock \in Nat /\ MaxAge \in Nat
  BY <1>2, BrokerAssumption DEF BrokerTypes, NoticeState
<1>. QED BY <1>1, <1>2, <1>3, <1>4, <1>5, <1>6

\* Every step keeps the claims, and no token is accepted twice but in that second.
LEMMA ClaimsNext ==
  BrokerTypes /\ Claims /\ AcceptedOnceInside /\ [BrokerNext]_brokerVars => Claims' /\ AcceptedOnceInside'
<1> SUFFICES ASSUME BrokerTypes, Claims, AcceptedOnceInside, [BrokerNext]_brokerVars
             PROVE  Claims' /\ AcceptedOnceInside'
  OBVIOUS
<1> USE DEF leg, upstreams
<1>1. clock' \in Nat /\ clock \in Nat /\ clock <= clock' /\ MaxAge \in Nat
  <2>1. clock' = clock \/ clock' = clock + 1
    BY DEF BrokerNext, TimePasses, Start, Find, Consume, Exchange, Look, Link, SignIn, Unlink,
           Accept, FindIdentity, List, EndSession, brokerVars
  <2>. QED BY <2>1, BrokerAssumption DEF BrokerTypes
<1>3. ASSUME NEW n \in Notices, notice[n].pc # "idle"
      PROVE  \E e \in claimed' : e[1] = notice[n].token /\ notice[n].at + MaxAge <= e[2]
  <2>1. PICK e \in claimed : e[1] = notice[n].token /\ notice[n].at + MaxAge <= e[2]
    BY <1>3 DEF Claims
  <2>2. CASE claimed' = claimed
    BY <2>1, <2>2
  <2>3. ASSUME NEW t \in Tokens, Claim(t), clock' = clock
        PROVE  \E f \in claimed' : f[1] = notice[n].token /\ notice[n].at + MaxAge <= f[2]
    <3>1. CASE t = notice[n].token
      <4>1. <<t, clock + MaxAge>> \in claimed'
        BY <2>3 DEF Claim
      <4>2. notice[n].at \in Nat /\ notice[n].at <= clock
        BY <1>3 DEF Claims, BrokerTypes, NoticeState
      <4>. QED BY <1>1, <3>1, <4>1, <4>2
    <3>2. CASE t # notice[n].token
      BY <2>1, <2>3, <3>2 DEF Claim
    <3>. QED BY <3>1, <3>2
  <2>. QED BY <2>2, <2>3
           DEF BrokerNext, TimePasses, Start, Find, Consume, Exchange, Look, Link, SignIn, Unlink,
               Accept, FindIdentity, List, EndSession, brokerVars
<1>4. ASSUME NEW n \in Notices, notice'[n].pc # "idle"
      PROVE  /\ notice'[n].token.iat <= notice'[n].at /\ notice'[n].at <= clock'
             /\ \E e \in claimed' : e[1] = notice'[n].token /\ notice'[n].at + MaxAge <= e[2]
  <2>1. CASE notice[n].pc # "idle"
    <3>1. notice'[n].token = notice[n].token /\ notice'[n].at = notice[n].at
      BY <2>1, NoticeKeeps
    <3>2. notice[n].at \in Nat /\ notice[n].at <= clock /\ notice[n].token.iat <= notice[n].at
      BY <2>1 DEF Claims, BrokerTypes, NoticeState
    <3>. QED BY <1>1, <1>3, <2>1, <3>1, <3>2
  <2>2. CASE notice[n].pc = "idle"
    <3>1. Accept(n)
      BY <1>4, <2>2, NoticeSteps DEF FindIdentity, List, EndSession
    <3>2. PICK t \in Tokens : /\ Claim(t) /\ clock' = clock /\ t.iat <= clock
                              /\ notice'[n].token = t /\ notice'[n].at = clock
      BY <3>1 DEF Accept, Unheard, BrokerTypes
    <3>3. notice'[n].token = t /\ notice'[n].at = clock /\ t.iat <= clock
      BY <3>2
    <3>4. <<t, clock + MaxAge>> \in claimed'
      BY <3>2 DEF Claim
    <3>. QED BY <1>1, <3>2, <3>3, <3>4
  <2>. QED BY <2>1, <2>2
<1>5. ASSUME NEW m \in Notices, NEW n \in Notices, m # n, notice'[m].token # Absent,
              notice'[m].token = notice'[n].token
      PROVE  notice'[m].token.iat + MaxAge \in {notice'[m].at, notice'[n].at}
  <2>1. BrokerTypes'
    BY BrokerTypesNext
  <2>2. notice'[m].pc # "idle" /\ notice'[n].pc # "idle"
    BY <1>5, <2>1 DEF BrokerTypes
  <2>3. CASE notice[m].pc # "idle" /\ notice[n].pc # "idle"
    BY <1>5, <2>3, NoticeKeeps DEF AcceptedOnceInside
  <2>4. CASE notice[m].pc # "idle" /\ notice[n].pc = "idle"
    <3>1. Accept(n)
      BY <2>2, <2>4, NoticeSteps DEF FindIdentity, List, EndSession
    <3>. QED BY <1>5, <2>4, <3>1, NoticeKeeps, AcceptedAgain
  <2>5. CASE notice[m].pc = "idle" /\ notice[n].pc # "idle"
    <3>1. Accept(m)
      BY <2>2, <2>5, NoticeSteps DEF FindIdentity, List, EndSession
    <3>. QED BY <1>5, <2>5, <3>1, NoticeKeeps, AcceptedAgain
  <2>6. CASE notice[m].pc = "idle" /\ notice[n].pc = "idle"
    <3>1. Accept(n) /\ Accept(m)
      BY <2>2, <2>6, NoticeSteps DEF FindIdentity, List, EndSession
    <3>. QED BY <1>5, <2>2, <2>6, <3>1 DEF Accept, BrokerTypes
  <2>. QED BY <2>3, <2>4, <2>5, <2>6
<1>. QED BY <1>4, <1>5 DEF Claims, AcceptedOnceInside

\* Lists holds at first: only the session of the local account is there, and there are no calls.
LEMMA ListsInit == BrokerInit => Openers /\ Lists
BY DEF BrokerInit, Openers, Opener, Lists, Unheard

\* A session whose callback is over stays such.
LEMMA OpenerOn ==
  ASSUME BrokerTypes, [BrokerNext]_brokerVars, NEW s \in Session, Opener(s)
  PROVE  Opener(s)'
BY Onwards DEF Opener, Session, Accounts

\* A session a step adds is of the callback that takes it, whose last step it is.
LEMMA OpenedBy ==
  ASSUME BrokerTypes, [BrokerNext]_brokerVars, NEW s \in signedIn', s \notin signedIn
  PROVE  s.id \in Callbacks /\ callback[s.id].pc = "signIn" /\ callback'[s.id].pc = "done"
<1> USE DEF leg, upstreams
<1>1. ASSUME NEW c \in Callbacks, SignIn(c)
      PROVE  s.id = c /\ callback[c].pc = "signIn" /\ callback'[c].pc = "done"
  BY <1>1 DEF SignIn, BrokerTypes, CallbackState
<1>. QED BY <1>1
         DEF BrokerNext, TimePasses, Start, Find, Consume, Exchange, Look, Link, Unlink, Accept, FindIdentity, List,
             EndSession, brokerVars

\* What a logout call remembers of the sessions there were, it has listed.
LEMMA BeforeKeeps ==
  ASSUME BrokerTypes, [BrokerNext]_brokerVars, NEW n \in Notices
  PROVE  notice'[n].before \subseteq notice[n].before \cup signedIn
<1>1. CASE notice'[n] = notice[n]
  BY <1>1
<1>2. CASE Accept(n)
  BY <1>2 DEF Accept, Unheard, BrokerTypes
<1>3. CASE List(n)
  BY <1>3 DEF List, BrokerTypes, NoticeState
<1>. QED BY <1>1, <1>2, <1>3, NoticeSteps, FindKeeps, EndKeeps

\* Every step keeps Openers: a session is opened by the last step of its callback.
LEMMA OpenersNext == BrokerTypes /\ Openers /\ [BrokerNext]_brokerVars => Openers'
<1> SUFFICES ASSUME BrokerTypes, Openers, [BrokerNext]_brokerVars PROVE Openers'
  OBVIOUS
<1>1. ASSUME NEW s \in Session, Opener(s) PROVE Opener(s)'
  BY <1>1, OpenerOn
<1>2. ASSUME NEW s \in signedIn' PROVE Opener(s)'
  <2>1. CASE s \in signedIn
    BY <1>1, <2>1 DEF Openers, BrokerTypes
  <2>2. CASE s \notin signedIn
    BY <2>2, OpenedBy, BrokerAssumption DEF Opener
  <2>. QED BY <2>1, <2>2
<1>3. ASSUME NEW n \in Notices, NEW s \in notice'[n].before PROVE Opener(s)'
  <2>1. s \in Session /\ Opener(s)
    BY <1>3, BeforeKeeps DEF Openers, BrokerTypes, NoticeState
  <2>. QED BY <1>1, <2>1
<1>. QED BY <1>2, <1>3 DEF Openers

\* Every step keeps Lists: what a call has found and has yet to end it holds, and whoever signs
\* in after it listed, be it under the same sid, has a session of another name.
LEMMA ListsNext == BrokerTypes /\ Openers /\ Lists /\ [BrokerNext]_brokerVars => Lists'
<1> SUFFICES ASSUME BrokerTypes, Openers, Lists, [BrokerNext]_brokerVars,
                    NEW n \in Notices, notice'[n].pc = "end"
             PROVE  /\ \A s \in notice'[n].left : About(n, s)'
                    /\ \A s \in notice'[n].before : About(n, s)' /\ s \in signedIn' => s \in notice'[n].left
  BY DEF Lists
<1>1. CASE List(n)
  <2>1. /\ notice'[n].left = Named(notice[n].token, notice[n].account) /\ notice'[n].before = signedIn
        /\ notice'[n].token = notice[n].token /\ notice'[n].account = notice[n].account
    BY <1>1 DEF List, BrokerTypes, NoticeState
  <2>. QED BY <2>1 DEF Named, About
<1>2. CASE EndSession(n)
  <2>1. PICK s \in notice[n].left :
          /\ signedIn' = signedIn \ {s} /\ notice'[n].left = notice[n].left \ {s}
          /\ notice'[n].before = notice[n].before /\ notice'[n].account = notice[n].account
    BY <1>2, EndKeeps
  <2>2. notice[n].pc = "end" /\ notice'[n].token = notice[n].token
    BY <1>2, EndKeeps
  <2>. QED BY <2>1, <2>2 DEF Lists, About
<1>3. CASE notice'[n] = notice[n]
  <2>1. ASSUME NEW s \in notice[n].before, About(n, s), s \in signedIn' PROVE s \in signedIn
    <3>1. Opener(s)
      BY DEF Openers
    <3>2. s \notin signedIn => s.id \in Callbacks /\ callback[s.id].pc = "signIn"
      BY <2>1, OpenedBy
    <3>. QED BY <3>1, <3>2, BrokerAssumption DEF Opener
  <2>2. \A s : About(n, s)' <=> About(n, s)
    BY <1>3 DEF About
  <2>. QED BY <1>3, <2>1, <2>2 DEF Lists
<1>4. ~Accept(n)
  BY DEF Accept, Unheard, BrokerTypes
<1>5. ~FindIdentity(n)
  BY FindKeeps
<1>. QED BY <1>1, <1>2, <1>3, <1>4, <1>5, NoticeSteps

-----------------------------------------------------------------------------
(* Theorems about the broker. *)

\* The strengthened invariant holds of every behaviour.
THEOREM BrokerInvariance == BrokerSpec => []BrokerInv
<1>1. BrokerInit => BrokerInv
  BY BrokerTypesInit, HandoffsInit, LinksInit, ClaimsInit, ListsInit DEF BrokerInv
<1>2. BrokerInv /\ [BrokerNext]_brokerVars => BrokerInv'
  BY BrokerTypesNext, HandoffsNext, AnsweredNext, LinksNext, ClaimsNext, OpenersNext, ListsNext DEF BrokerInv
<1>. QED BY <1>1, <1>2, PTL DEF BrokerSpec

\* Whatever callback URLs are opened and logout tokens arrive, in whatever order and by whomever:
\* a handoff completes once, in the browser that began it, and a logout token is accepted once,
\* but for the last second of its life (broker.ts, broker/logout.ts).
THEOREM AcceptsOnce == BrokerSpec => []EachOnce
<1>1. BrokerInv => EachOnce
  BY DEF BrokerInv, Handoffs, EachOnce, HandoffOnce
<1>. QED BY <1>1, BrokerInvariance, PTL

\* upstreamFailure tells an outage from a refusal, but for an ID token it can no longer see.
LEMMA FailuresToldApart == ToldApart
<1> SUFFICES ASSUME NEW p \in Providers, NEW s \in Starts, NEW a \in Possible(p, s), ~a.error
             PROVE  LET down == ~a.up \/ (a.code # Absent /\ IssuerMatches(p, a) /\ a.reply = "silent") IN
                    /\ down => Ending(p, s, a) = "temporarily_unavailable"
                    /\ Ending(p, s, a) = "temporarily_unavailable" => down \/ a.reply \in {"bare"} \cup (Starts \ {s})
  BY DEF ToldApart
<1>1. a \in Answers /\ "silent" \notin Starts
  BY BrokerAssumption DEF Possible
<1>2. CASE ~a.up
  BY <1>2 DEF Ending
<1>3. CASE a.up /\ a.code = Absent
  BY <1>3 DEF Ending
<1>4. CASE a.up /\ a.code # Absent
  <2>1. Ending(p, s, a) = IF ~IssuerMatches(p, a) \/ a.reply \in {"error", "unverified"} THEN "access_denied"
                          ELSE IF a.reply = s THEN "identity" ELSE "temporarily_unavailable"
    BY <1>4 DEF Ending, NonceMatches
  <2>2. a.reply \in {"silent", "error", "bare", "unverified"} \cup Starts
    BY <1>1 DEF Answers
  <2>. QED BY <1>1, <1>4, <2>1, <2>2
<1>. QED BY <1>1, <1>2, <1>3, <1>4 DEF Answers

\* However the callbacks of several tabs, the links and the unlinks cross: nobody is signed in to
\* an account that was not made for an identity of that upstream, nor linked by an address it has
\* verified; and it is the ID token of the handoff's own request that signs somebody in
\* (broker.ts, upstreams/linking.ts, core/src/flow.ts).
THEOREM SignsInTheRightOne == BrokerSpec => []LegsEndRight
<1>1. BrokerInv => NoTakeover /\ AnsweredHere
  <2> SUFFICES ASSUME BrokerInv, NEW s \in signedIn, s.idp # Absent
               PROVE  IF s.account = Local THEN policy = "verified-email" /\ s.idp \in vouched
                      ELSE callback[s.account].provider = s.idp
    BY DEF BrokerInv, NoTakeover, Answered
  <2>. QED BY DEF BrokerInv, Links, StandsFor, Made
<1>2. BrokerInv => LegsEndRight
  BY <1>1, FailuresToldApart DEF LegsEndRight
<1>. QED BY <1>2, BrokerInvariance, PTL

\* An upstream ends only sessions it opened, under the sid its token gives or for the account it is
\* about; and a logout call is over only when every such session there was when it listed them is
\* gone, however many, and whoever signs in under the same sid meanwhile (broker/logout.ts).
THEOREM EndsWhatItNames == BrokerSpec => LogoutExact
<1>1. ASSUME BrokerInv, BrokerNext PROVE EndsItsOwn /\ EndsAll
  <2> USE DEF leg, upstreams
  <2>1. ASSUME NEW s \in signedIn \ signedIn' PROVE \E n \in Notices : notice[n].pc = "end" /\ About(n, s)
    <3>1. PICK n \in Notices : EndSession(n)
      BY <1>1, <2>1 DEF BrokerNext, TimePasses, Start, Find, Consume, Exchange, Look, Link, SignIn,
                        Unlink, Accept, FindIdentity, List
    <3>2. notice[n].pc = "end" /\ s \in notice[n].left
      BY <2>1, <3>1 DEF EndSession
    <3>. QED BY <1>1, <3>2 DEF BrokerInv, Lists
  <2>2. ASSUME NEW n \in Notices, notice[n].pc = "end", notice'[n].pc = "done",
               NEW s \in notice[n].before, About(n, s)
        PROVE  s \notin signedIn
    <3>1. EndSession(n)
      BY <1>1, <2>2, NoticeSteps DEF BrokerInv, Accept, FindIdentity, List
    <3>2. notice[n].left = {}
      BY <1>1, <2>2, <3>1, EndKeeps DEF BrokerInv
    <3>. QED BY <1>1, <2>2, <3>2 DEF BrokerInv, Lists
  <2>. QED BY <2>1, <2>2 DEF EndsItsOwn, EndsAll
<1>2. BrokerInv /\ [BrokerNext]_brokerVars => [EndsItsOwn /\ EndsAll]_brokerVars
  BY <1>1
<1>. QED BY <1>2, BrokerInvariance, PTL DEF BrokerSpec, LogoutExact
================================================================================
