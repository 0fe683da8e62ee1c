------------------------- MODULE TokenGrants_proofs -------------------------
(* Theorems about TokenGrants, for every value of its constants. *)
EXTENDS TokenGrants, TLAPS

-----------------------------------------------------------------------------
(* Types. *)

\* Every name of a token is in Id.
LEMMA Ids ==
  /\ \A a \in Authorizations : Code(a) \in Id
  /\ \A r \in Redemptions : Access(r) \in Id /\ Refresh(r) \in Id
BY DEF Id

\* The clock is a natural number.
LEMMA ClockIsNat ==
  ASSUME StoreOK PROVE now \in Nat
BY TtlAssumption DEF StoreOK

\* Replacing one token request's record by a well-typed one.
LEMMA RedemptionUpdate ==
  ASSUME RedemptionsOK, NEW r \in Redemptions, NEW new \in RedemptionState,
         Knows(new), red' = [red EXCEPT ![r] = new]
  PROVE  RedemptionsOK'
<1>1. red' \in [Redemptions -> RedemptionState]
  BY DEF RedemptionsOK
<1>2. ASSUME NEW q \in Redemptions PROVE Knows(red'[q])
  <2>1. CASE q = r
    BY <2>1 DEF RedemptionsOK
  <2>2. CASE q # r
    BY <2>2 DEF RedemptionsOK
  <2>. QED BY <2>1, <2>2
<1>. QED BY <1>1, <1>2 DEF RedemptionsOK, Knows

\* A step that only moves a request on keeps what it knows.
LEMMA GotoType ==
  ASSUME RedemptionsOK, NEW r \in Redemptions, NEW pc \in RedemptionPc,
         red[r].pc \notin {"idle", "refused"}, Goto(r, pc)
  PROVE  RedemptionsOK'
<1> DEFINE new == [red[r] EXCEPT !.pc = pc]
<1>1. red[r] \in RedemptionState /\ Knows(red[r])
  BY DEF RedemptionsOK
<1>2. new \in RedemptionState
  BY <1>1 DEF RedemptionState
<1>3. Knows(new)
  <2>1. new.seen = red[r].seen /\ new.client = red[r].client /\ new.token = red[r].token
    BY <1>1 DEF RedemptionState
  <2>. QED BY <1>1, <2>1 DEF Knows
<1>4. red' = [red EXCEPT ![r] = new]
  BY DEF RedemptionsOK, Goto
<1>. QED BY <1>2, <1>3, <1>4, RedemptionUpdate

\* What a request under way has read is an artifact, shown by a client.
LEMMA KnowsType ==
  ASSUME RedemptionsOK, NEW r \in Redemptions, red[r].pc \notin {"idle", "refused"}
  PROVE  /\ red[r] \in RedemptionState
         /\ red[r].seen \in Artifact /\ red[r].client \in Clients /\ red[r].token \in Id
BY DEF RedemptionsOK, Knows

\* Reading the presented artifact keeps the requests well typed.
LEMMA FindType ==
  ASSUME TypeOK, NEW r \in Redemptions, NEW i \in Id, NEW c \in Clients,
         NEW otherwise \in SUBSET RedemptionPc, Find(r, i, c, otherwise)
  PROVE  RedemptionsOK'
<1>1. PICK pc \in AfterFind(i, c, otherwise) :
        red' = [red EXCEPT ![r] =
          [@ EXCEPT !.pc = pc, !.client = c, !.token = i, !.seen = store[i],
                    !.consent = IF store[i] = None THEN {} ELSE consent[store[i].grant],
                    !.revoked = store[i] # None /\ store[i].grant \notin grants,
                    !.ended = store[i] # None /\ ~SessionLive(store[i].session)]]
  BY DEF Find
<1> DEFINE new == [red[r] EXCEPT !.pc = pc, !.client = c, !.token = i, !.seen = store[i],
                    !.consent = IF store[i] = None THEN {} ELSE consent[store[i].grant],
                    !.revoked = store[i] # None /\ store[i].grant \notin grants,
                    !.ended = store[i] # None /\ ~SessionLive(store[i].session)]
<1>2. pc \in RedemptionPc /\ (pc # "refused" => store[i] \in Artifact)
  BY DEF AfterFind, Live, RedemptionPc, TypeOK, StoreOK
<1>3. store[i] \in Artifact \cup {None}
      /\ (IF store[i] = None THEN {} ELSE consent[store[i].grant]) \in SUBSET Scopes
  BY DEF TypeOK, StoreOK, Artifact
<1>4. red[r] \in RedemptionState
  BY DEF TypeOK, RedemptionsOK
<1>5. new \in RedemptionState /\ Knows(new)
  BY <1>2, <1>3, <1>4 DEF RedemptionState, Knows
<1>6. red' = [red EXCEPT ![r] = new]
  BY <1>1 DEF TypeOK, RedemptionsOK
<1>. QED BY <1>5, <1>6, RedemptionUpdate DEF TypeOK

\* Minimum of three naturals is one of them and below each.
LEMMA MinimumOfThree ==
  ASSUME NEW a \in Nat, NEW b \in Nat, NEW c \in Nat
  PROVE  /\ Minimum({a, b, c}) \in {a, b, c}
         /\ Minimum({a, b, c}) <= a /\ Minimum({a, b, c}) <= b /\ Minimum({a, b, c}) <= c
<1>1. \E m \in {a, b, c} : \A n \in {a, b, c} : m <= n
  <2>1. CASE a <= b /\ a <= c
    BY <2>1
  <2>2. CASE b <= a /\ b <= c
    BY <2>2
  <2>3. CASE c <= a /\ c <= b
    BY <2>3
  <2>. QED BY <2>1, <2>2, <2>3
<1>. QED BY <1>1 DEF Minimum

\* What issueRefreshToken stores is well typed.
LEMMA RefreshTypes ==
  ASSUME TypeOK, NEW r \in Redemptions, red[r].pc \notin {"idle", "refused"}
  PROVE  FamilyEnd(r) \in Nat /\ RefreshExpiry(r) \in Nat
<1>1. now \in Nat /\ red[r].seen \in Artifact
  BY ClockIsNat, KnowsType DEF TypeOK
<1>2. FamilyEnd(r) \in Nat
  BY <1>1, TtlAssumption DEF FamilyEnd, Artifact
<1>3. SessionEnd[red[r].seen.session] \in Nat /\ now + RefreshTtl \in Nat
  BY <1>1, TtlAssumption DEF Artifact
<1>. QED BY <1>2, <1>3, MinimumOfThree DEF RefreshExpiry

\* The initial states are well typed.
LEMMA TypeInit == Init => TypeOK
<1> SUFFICES ASSUME Init PROVE TypeOK
  OBVIOUS
<1>1. StoreOK
  BY TtlAssumption DEF Init, StoreOK
<1>2. AuthorizationsOK
  BY DEF Init, AuthorizationsOK, AuthorizationState
<1>3. RedemptionsOK
  BY DEF Init, RedemptionsOK, RedemptionState, RedemptionPc, Knows
<1>4. RevocationsOK
  BY DEF Init, RevocationsOK, RevocationState
<1>5. SweepsOK
  BY DEF Init, SweepsOK, SweepState
<1>. QED BY <1>1, <1>2, <1>3, <1>4, <1>5 DEF TypeOK

\* Every step keeps the types.
LEMMA TypeNext == TypeOK /\ [Next]_vars => TypeOK'
<1> SUFFICES ASSUME TypeOK, [Next]_vars PROVE TypeOK'
  OBVIOUS
<1> USE DEF TypeOK
<1>1. ASSUME NEW a \in Authorizations, NEW s \in Sessions, NEW g \in Grants, NEW asked \in SUBSET Scopes,
              Authorize(a, s, g, asked)
       PROVE  TypeOK'
  <2>1. AuthorizationsOK'
    BY <1>1, ClockIsNat, TtlAssumption, ConstantsAssumption
       DEF AuthorizationsOK, AuthorizationState, Artifact, Authorize
  <2>2. StoreOK' /\ RedemptionsOK' /\ RevocationsOK' /\ SweepsOK'
    BY <1>1 DEF StoreOK, RedemptionsOK, Knows, RevocationsOK, SweepsOK, Authorize
  <2>. QED BY <2>1, <2>2
<1>2. ASSUME NEW a \in Authorizations,
              issueCode(a)
       PROVE  TypeOK'
  <2>1. StoreOK'
    BY <1>2, Ids, ClockIsNat, TtlAssumption
       DEF StoreOK, issueCode, Upsert, AuthorizationsOK, AuthorizationState, Artifact
  <2>2. AuthorizationsOK'
    BY <1>2, ClockIsNat, TtlAssumption, ConstantsAssumption
       DEF AuthorizationsOK, AuthorizationState, Artifact, issueCode
  <2>3. RedemptionsOK' /\ RevocationsOK' /\ SweepsOK'
    BY <1>2 DEF RedemptionsOK, Knows, RevocationsOK, SweepsOK, issueCode
  <2>. QED BY <2>1, <2>2, <2>3
<1>3. ASSUME NEW a \in Authorizations,
              IndexCode(a)
       PROVE  TypeOK'
  <2>1. StoreOK'
    BY <1>3, Ids DEF StoreOK, IndexCode, AuthorizationsOK, Artifact
  <2>2. AuthorizationsOK'
    BY <1>3, ClockIsNat, TtlAssumption, ConstantsAssumption
       DEF AuthorizationsOK, AuthorizationState, Artifact, IndexCode
  <2>3. RedemptionsOK' /\ RevocationsOK' /\ SweepsOK'
    BY <1>3 DEF RedemptionsOK, Knows, RevocationsOK, SweepsOK, IndexCode
  <2>. QED BY <2>1, <2>2, <2>3
<1>4. ASSUME NEW r \in Redemptions, NEW i \in Id, NEW c \in Clients,
              authorizationCodeGrant(r, i, c)
       PROVE  TypeOK'
  <2>1. RedemptionsOK'
    <3>1. PICK otherwise \in SUBSET RedemptionPc : Find(r, i, c, otherwise)
      BY <1>4 DEF authorizationCodeGrant, RedemptionPc
    <3>. QED BY <3>1, FindType
  <2>2. StoreOK' /\ AuthorizationsOK' /\ RevocationsOK' /\ SweepsOK'
    BY <1>4 DEF StoreOK, AuthorizationsOK, RevocationsOK, SweepsOK, authorizationCodeGrant, Find
  <2>. QED BY <2>1, <2>2
<1>5. ASSUME NEW r \in Redemptions, NEW i \in Id, NEW c \in Clients,
              refreshTokenGrant(r, i, c)
       PROVE  TypeOK'
  <2>1. RedemptionsOK'
    <3>1. PICK otherwise \in SUBSET RedemptionPc : Find(r, i, c, otherwise)
      BY <1>5 DEF refreshTokenGrant, RedemptionPc
    <3>. QED BY <3>1, FindType
  <2>2. StoreOK' /\ AuthorizationsOK' /\ RevocationsOK' /\ SweepsOK'
    BY <1>5 DEF StoreOK, AuthorizationsOK, RevocationsOK, SweepsOK, refreshTokenGrant, Find
  <2>. QED BY <2>1, <2>2
<1>6. ASSUME NEW r \in Redemptions,
              ConsumeRow(r)
       PROVE  TypeOK'
  <2>1. StoreOK'
    BY <1>6, KnowsType DEF StoreOK, ConsumeRow
  <2>2. RedemptionsOK'
    <3> DEFINE new == [red[r] EXCEPT !.won = TRUE, !.pc = AfterConsume(r)]
    <3>1. CASE Goto(r, "revoke")
      BY <1>6, <3>1, GotoType DEF ConsumeRow, RedemptionPc
    <3>2. CASE red' = [red EXCEPT ![r].won = TRUE, ![r].pc = AfterConsume(r)]
      <4>1. red[r] \in RedemptionState /\ Knows(red[r]) /\ red[r].pc \notin {"idle", "refused"}
        BY <1>6 DEF ConsumeRow, RedemptionsOK
      <4>2. new \in RedemptionState /\ Knows(new)
        BY <4>1 DEF RedemptionState, RedemptionPc, AfterConsume, Knows
      <4>3. red' = [red EXCEPT ![r] = new]
        BY <3>2 DEF RedemptionsOK
      <4>. QED BY <4>2, <4>3, RedemptionUpdate
    <3>. QED BY <1>6, <3>1, <3>2 DEF ConsumeRow
  <2>3. AuthorizationsOK' /\ RevocationsOK' /\ SweepsOK'
    BY <1>6 DEF AuthorizationsOK, RevocationsOK, SweepsOK, ConsumeRow
  <2>. QED BY <2>1, <2>2, <2>3
<1>7. ASSUME NEW r \in Redemptions,
              ConsumeRead(r)
       PROVE  TypeOK'
  <2>1. RedemptionsOK'
    BY <1>7, GotoType DEF ConsumeRead, RedemptionPc
  <2>2. StoreOK' /\ AuthorizationsOK' /\ RevocationsOK' /\ SweepsOK'
    BY <1>7 DEF StoreOK, AuthorizationsOK, RevocationsOK, SweepsOK, ConsumeRead
  <2>. QED BY <2>1, <2>2
<1>8. ASSUME NEW r \in Redemptions,
              ConsumeInsert(r)
       PROVE  TypeOK'
  <2>1. StoreOK'
    BY <1>8, KnowsType DEF StoreOK, ConsumeInsert
  <2>2. RedemptionsOK'
    <3> DEFINE new == [red[r] EXCEPT !.won = TRUE, !.pc = AfterConsume(r)]
    <3>1. CASE Goto(r, "revoke")
      BY <1>8, <3>1, GotoType DEF ConsumeInsert, RedemptionPc
    <3>2. CASE red' = [red EXCEPT ![r].won = TRUE, ![r].pc = AfterConsume(r)]
      <4>1. red[r] \in RedemptionState /\ Knows(red[r]) /\ red[r].pc \notin {"idle", "refused"}
        BY <1>8 DEF ConsumeInsert, RedemptionsOK
      <4>2. new \in RedemptionState /\ Knows(new)
        BY <4>1 DEF RedemptionState, RedemptionPc, AfterConsume, Knows
      <4>3. red' = [red EXCEPT ![r] = new]
        BY <3>2 DEF RedemptionsOK
      <4>. QED BY <4>2, <4>3, RedemptionUpdate
    <3>. QED BY <1>8, <3>1, <3>2 DEF ConsumeInsert
  <2>3. AuthorizationsOK' /\ RevocationsOK' /\ SweepsOK'
    BY <1>8 DEF AuthorizationsOK, RevocationsOK, SweepsOK, ConsumeInsert
  <2>. QED BY <2>1, <2>2, <2>3
<1>9. ASSUME NEW r \in Redemptions,
              LoadGrant(r)
       PROVE  TypeOK'
  <2>1. RedemptionsOK'
    <3> DEFINE scopes == IF IsCode(red[r].token) THEN red[r].seen.scopes
                         ELSE red[r].seen.scopes \cap consent[red[r].seen.grant]
               new == [red[r] EXCEPT !.granted = scopes, !.pc = "session"]
    <3>1. red[r].pc = "grant" /\ red[r] \in RedemptionState /\ Knows(red[r])
      BY <1>9 DEF LoadGrant, RedemptionsOK
    <3>2. CASE Goto(r, "refused")
      BY <3>1, <3>2, GotoType DEF RedemptionPc
    <3>3. CASE red' = [red EXCEPT ![r].granted = scopes, ![r].pc = "session"]
      <4>1. scopes \in SUBSET Scopes
        BY <3>1 DEF Knows, Artifact
      <4>2. new \in RedemptionState /\ Knows(new)
        BY <3>1, <4>1 DEF RedemptionState, RedemptionPc, Knows
      <4>3. red' = [red EXCEPT ![r] = new]
        BY <3>3 DEF RedemptionsOK
      <4>. QED BY <4>2, <4>3, RedemptionUpdate
    <3>. QED BY <1>9, <3>2, <3>3 DEF LoadGrant
  <2>2. StoreOK' /\ AuthorizationsOK' /\ RevocationsOK' /\ SweepsOK'
    BY <1>9 DEF StoreOK, AuthorizationsOK, RevocationsOK, SweepsOK, LoadGrant
  <2>. QED BY <2>1, <2>2
<1>10. ASSUME NEW r \in Redemptions,
              loadGrantAndSession(r)
       PROVE  TypeOK'
  <2>1. RedemptionsOK'
    <3>1. red[r].pc = "session" /\ red[r] \in RedemptionState /\ Knows(red[r])
      BY <1>10 DEF loadGrantAndSession, RedemptionsOK
    <3>2. CASE Goto(r, "refused")
      BY <3>1, <3>2, GotoType DEF RedemptionPc
    <3>3. ASSUME NEW scopes \in SUBSET Scopes, NEW pc \in RedemptionPc,
                 red' = [red EXCEPT ![r].scopes = scopes, ![r].pc = pc]
          PROVE  RedemptionsOK'
      <4> DEFINE new == [red[r] EXCEPT !.scopes = scopes, !.pc = pc]
      <4>1. new \in RedemptionState /\ Knows(new)
        BY <3>1 DEF RedemptionState, RedemptionPc, Knows
      <4>2. red' = [red EXCEPT ![r] = new]
        BY <3>3 DEF RedemptionsOK
      <4>. QED BY <4>1, <4>2, RedemptionUpdate
    <3>4. red[r].granted \in SUBSET Scopes
      BY <3>1 DEF RedemptionState
    <3>. QED BY <1>10, <3>2, <3>3, <3>4 DEF loadGrantAndSession, RedemptionPc
  <2>2. StoreOK' /\ AuthorizationsOK' /\ RevocationsOK' /\ SweepsOK'
    BY <1>10 DEF StoreOK, AuthorizationsOK, RevocationsOK, SweepsOK, loadGrantAndSession
  <2>. QED BY <2>1, <2>2
<1>11. ASSUME NEW r \in Redemptions,
              loadGrantAndSignIn(r)
       PROVE  TypeOK'
  <2>1. RedemptionsOK'
    <3>1. red[r].pc = "session" /\ red[r] \in RedemptionState /\ Knows(red[r])
      BY <1>11 DEF loadGrantAndSignIn, RedemptionsOK
    <3>2. CASE Goto(r, "refused")
      BY <3>1, <3>2, GotoType DEF RedemptionPc
    <3>3. ASSUME NEW scopes \in SUBSET Scopes, NEW pc \in RedemptionPc,
                 red' = [red EXCEPT ![r].scopes = scopes, ![r].pc = pc]
          PROVE  RedemptionsOK'
      <4> DEFINE new == [red[r] EXCEPT !.scopes = scopes, !.pc = pc]
      <4>1. new \in RedemptionState /\ Knows(new)
        BY <3>1 DEF RedemptionState, RedemptionPc, Knows
      <4>2. red' = [red EXCEPT ![r] = new]
        BY <3>3 DEF RedemptionsOK
      <4>. QED BY <4>1, <4>2, RedemptionUpdate
    <3>4. red[r].granted \in SUBSET Scopes
      BY <3>1 DEF RedemptionState
    <3>. QED BY <1>11, <3>2, <3>3, <3>4 DEF loadGrantAndSignIn, RedemptionPc
  <2>2. StoreOK' /\ AuthorizationsOK' /\ RevocationsOK' /\ SweepsOK'
    BY <1>11 DEF StoreOK, AuthorizationsOK, RevocationsOK, SweepsOK, loadGrantAndSignIn
  <2>. QED BY <2>1, <2>2
<1>12. ASSUME NEW r \in Redemptions,
              AddClient(r)
       PROVE  TypeOK'
  <2>1. StoreOK'
    BY <1>12, KnowsType DEF StoreOK, AddClient, Artifact
  <2>2. RedemptionsOK'
    BY <1>12, GotoType DEF AddClient, RedemptionPc
  <2>3. AuthorizationsOK' /\ RevocationsOK' /\ SweepsOK'
    BY <1>12 DEF AuthorizationsOK, RevocationsOK, SweepsOK, AddClient
  <2>. QED BY <2>1, <2>2, <2>3
<1>13. ASSUME NEW r \in Redemptions,
              issueAccessToken(r)
       PROVE  TypeOK'
  <2>1. StoreOK'
    BY <1>13, Ids, ClockIsNat, TtlAssumption, KnowsType
       DEF StoreOK, issueAccessToken, Upsert, Issued, Artifact, RedemptionState
  <2>2. RedemptionsOK'
    BY <1>13, GotoType DEF issueAccessToken, RedemptionPc
  <2>3. AuthorizationsOK' /\ RevocationsOK' /\ SweepsOK'
    BY <1>13 DEF AuthorizationsOK, RevocationsOK, SweepsOK, issueAccessToken
  <2>. QED BY <2>1, <2>2, <2>3
<1>14. ASSUME NEW r \in Redemptions,
              IndexAccess(r)
       PROVE  TypeOK'
  <2>1. StoreOK'
    <3>1. red[r].pc \notin {"idle", "refused"}
      BY <1>14 DEF IndexAccess
    <3>2. red[r].seen.grant \in Grants
      BY <3>1, KnowsType DEF Artifact
    <3>3. <<red[r].seen.grant, Access(r)>> \in Grants \X Id
      BY <3>2, Ids, Zenon
    <3>. QED BY <1>14, <3>3 DEF StoreOK, IndexAccess
  <2>2. RedemptionsOK'
    BY <1>14, GotoType DEF IndexAccess, RedemptionPc
  <2>3. AuthorizationsOK' /\ RevocationsOK' /\ SweepsOK'
    BY <1>14 DEF AuthorizationsOK, RevocationsOK, SweepsOK, IndexAccess
  <2>. QED BY <2>1, <2>2, <2>3
<1>15. ASSUME NEW r \in Redemptions,
              issueRefreshToken(r)
       PROVE  TypeOK'
  <2>1. StoreOK'
    BY <1>15, Ids, KnowsType, RefreshTypes
       DEF StoreOK, issueRefreshToken, Upsert, Issued, Artifact, RedemptionState
  <2>2. RedemptionsOK'
    BY <1>15, GotoType DEF issueRefreshToken, RedemptionPc
  <2>3. AuthorizationsOK' /\ RevocationsOK' /\ SweepsOK'
    BY <1>15 DEF AuthorizationsOK, RevocationsOK, SweepsOK, issueRefreshToken
  <2>. QED BY <2>1, <2>2, <2>3
<1>16. ASSUME NEW r \in Redemptions,
              KeepRefreshToken(r)
       PROVE  TypeOK'
  <2>1. RedemptionsOK'
    BY <1>16, GotoType DEF KeepRefreshToken, RedemptionPc
  <2>2. StoreOK' /\ AuthorizationsOK' /\ RevocationsOK' /\ SweepsOK'
    BY <1>16 DEF StoreOK, AuthorizationsOK, RevocationsOK, SweepsOK, KeepRefreshToken
  <2>. QED BY <2>1, <2>2
<1>17. ASSUME NEW r \in Redemptions,
              IndexRefresh(r)
       PROVE  TypeOK'
  <2>1. StoreOK'
    <3>1. red[r].pc \notin {"idle", "refused"}
      BY <1>17 DEF IndexRefresh
    <3>2. red[r].seen.grant \in Grants
      BY <3>1, KnowsType DEF Artifact
    <3>3. <<red[r].seen.grant, Refresh(r)>> \in Grants \X Id
      BY <3>2, Ids, Zenon
    <3>. QED BY <1>17, <3>3 DEF StoreOK, IndexRefresh
  <2>2. RedemptionsOK'
    BY <1>17, GotoType DEF IndexRefresh, RedemptionPc
  <2>3. AuthorizationsOK' /\ RevocationsOK' /\ SweepsOK'
    BY <1>17 DEF AuthorizationsOK, RevocationsOK, SweepsOK, IndexRefresh
  <2>. QED BY <2>1, <2>2, <2>3
<1>18. ASSUME NEW r \in Redemptions,
              Fail(r)
       PROVE  TypeOK'
  <2>1. RedemptionsOK'
    BY <1>18, GotoType DEF Fail, RedemptionPc
  <2>2. StoreOK' /\ AuthorizationsOK' /\ RevocationsOK' /\ SweepsOK'
    BY <1>18 DEF StoreOK, AuthorizationsOK, RevocationsOK, SweepsOK, Fail
  <2>. QED BY <2>1, <2>2
<1>19. ASSUME NEW p \in Redemptions \cup Revocations,
              DeleteRows(p)
       PROVE  TypeOK'
  <2>1. StoreOK'
    BY <1>19 DEF StoreOK, DeleteRows, DeleteGrantRows
  <2>2. SweepsOK'
    BY <1>19 DEF SweepsOK, SweepState, DeleteRows, Begin, OfGrant
  <2>3. AuthorizationsOK' /\ RedemptionsOK' /\ RevocationsOK'
    BY <1>19 DEF AuthorizationsOK, RedemptionsOK, Knows, RevocationsOK, DeleteRows
  <2>. QED BY <2>1, <2>2, <2>3
<1>20. ASSUME NEW p \in Redemptions \cup Revocations,
              ScanKeys(p)
       PROVE  TypeOK'
  <2>1. SweepsOK'
    BY <1>20 DEF SweepsOK, SweepState, ScanKeys, Begin, OfGrant, GrantKeys
  <2>2. StoreOK' /\ AuthorizationsOK' /\ RedemptionsOK' /\ RevocationsOK'
    BY <1>20 DEF StoreOK, AuthorizationsOK, RedemptionsOK, Knows, RevocationsOK, ScanKeys
  <2>. QED BY <2>1, <2>2
<1>21. ASSUME NEW p \in Redemptions \cup Revocations, NEW i \in Id,
              DestroyKey(p, i)
       PROVE  TypeOK'
  <2>1. StoreOK'
    BY <1>21 DEF StoreOK, DestroyKey
  <2>2. SweepsOK'
    BY <1>21 DEF SweepsOK, SweepState, DestroyKey
  <2>3. AuthorizationsOK' /\ RedemptionsOK' /\ RevocationsOK'
    BY <1>21 DEF AuthorizationsOK, RedemptionsOK, Knows, RevocationsOK, DestroyKey
  <2>. QED BY <2>1, <2>2, <2>3
<1>22. ASSUME NEW v \in Revocations, NEW g \in Grants,
              RevokeConsent(v, g)
       PROVE  TypeOK'
  <2>1. RevocationsOK'
    BY <1>22 DEF RevocationsOK, RevocationState, RevokeConsent
  <2>2. StoreOK' /\ AuthorizationsOK' /\ RedemptionsOK' /\ SweepsOK'
    BY <1>22 DEF StoreOK, AuthorizationsOK, RedemptionsOK, Knows, SweepsOK, RevokeConsent
  <2>. QED BY <2>1, <2>2
<1>23. ASSUME NEW v \in Revocations, NEW i \in Id, NEW c \in Clients,
              RevokeToken(v, i, c)
       PROVE  TypeOK'
  <2>1. RevocationsOK'
    BY <1>23, ZenonT(30) DEF RevocationsOK, RevocationState, RevokeToken, Live, StoreOK, Artifact
  <2>2. StoreOK' /\ AuthorizationsOK' /\ RedemptionsOK' /\ SweepsOK'
    BY <1>23 DEF StoreOK, AuthorizationsOK, RedemptionsOK, Knows, SweepsOK, RevokeToken
  <2>. QED BY <2>1, <2>2
<1>24. ASSUME NEW v \in Revocations,
              DestroyGrant(v)
       PROVE  TypeOK'
  <2>1. StoreOK'
    BY <1>24 DEF StoreOK, DestroyGrant, RevocationsOK
  <2>2. RevocationsOK'
    BY <1>24 DEF RevocationsOK, RevocationState, DestroyGrant
  <2>3. AuthorizationsOK' /\ RedemptionsOK' /\ SweepsOK'
    BY <1>24 DEF AuthorizationsOK, RedemptionsOK, Knows, SweepsOK, DestroyGrant
  <2>. QED BY <2>1, <2>2, <2>3
<1>25. ASSUME NEW v \in Revocations,
              DestroyAccess(v)
       PROVE  TypeOK'
  <2>1. StoreOK'
    BY <1>25 DEF StoreOK, DestroyAccess, RevocationsOK
  <2>2. RevocationsOK'
    BY <1>25 DEF RevocationsOK, RevocationState, DestroyAccess
  <2>3. AuthorizationsOK' /\ RedemptionsOK' /\ SweepsOK'
    BY <1>25 DEF AuthorizationsOK, RedemptionsOK, Knows, SweepsOK, DestroyAccess
  <2>. QED BY <2>1, <2>2, <2>3
<1>26. ASSUME NEW v \in Revocations,
              FailRevocation(v)
       PROVE  TypeOK'
  <2>1. RevocationsOK'
    BY <1>26 DEF RevocationsOK, RevocationState, FailRevocation
  <2>2. StoreOK' /\ AuthorizationsOK' /\ RedemptionsOK' /\ SweepsOK'
    BY <1>26 DEF StoreOK, AuthorizationsOK, RedemptionsOK, Knows, SweepsOK, FailRevocation
  <2>. QED BY <2>1, <2>2
<1>27. ASSUME NEW s \in Sessions,
              EndSession(s)
       PROVE  TypeOK'
  <2>1. StoreOK'
    BY <1>27 DEF StoreOK, EndSession
  <2>2. AuthorizationsOK' /\ RedemptionsOK' /\ RevocationsOK' /\ SweepsOK'
    BY <1>27 DEF AuthorizationsOK, RedemptionsOK, Knows, RevocationsOK, SweepsOK, EndSession
  <2>. QED BY <2>1, <2>2
<1>28. ASSUME NEW g \in Grants, NEW kept \in SUBSET Scopes,
              NarrowConsent(g, kept)
       PROVE  TypeOK'
  <2>1. StoreOK'
    BY <1>28 DEF StoreOK, NarrowConsent
  <2>2. AuthorizationsOK' /\ RedemptionsOK' /\ RevocationsOK' /\ SweepsOK'
    BY <1>28 DEF AuthorizationsOK, RedemptionsOK, Knows, RevocationsOK, SweepsOK, NarrowConsent
  <2>. QED BY <2>1, <2>2
<1>29. CASE Tick
  <2>1. StoreOK'
    BY <1>29, TtlAssumption DEF StoreOK, Tick
  <2>2. AuthorizationsOK' /\ RedemptionsOK' /\ RevocationsOK' /\ SweepsOK'
    BY <1>29 DEF AuthorizationsOK, RedemptionsOK, Knows, RevocationsOK, SweepsOK, Tick
  <2>. QED BY <2>1, <2>2
<1>30. CASE UNCHANGED vars
  BY <1>30 DEF vars, StoreOK, AuthorizationsOK, RedemptionsOK, Knows, RevocationsOK, SweepsOK
<1>. QED
  BY <1>1, <1>2, <1>3, <1>4, <1>5, <1>6, <1>7, <1>8, <1>9, <1>10, <1>11, <1>12, <1>13, <1>14,
     <1>15, <1>16, <1>17, <1>18, <1>19, <1>20, <1>21, <1>22, <1>23, <1>24, <1>25, <1>26, <1>27,
     <1>28, <1>29, <1>30
     DEF Next, AuthorizationStep, RedemptionStep, SweepStep

\* The variables keep their types, and a request under way holds what it needs.
THEOREM TypeCorrect == Spec => []TypeOK
BY TypeInit, TypeNext, PTL DEF Spec

-----------------------------------------------------------------------------
(* Single use.  Lineage is inductive: OneHeir alone is not, because a kv     *)
(* consume may win for an artifact that is already gone.                     *)

\* Tokens of different kinds or of different requests have different names.
LEMMA Names ==
  /\ \A a, b \in Authorizations : Code(a) = Code(b) => a = b
  /\ \A r, q \in Redemptions : Refresh(r) = Refresh(q) => r = q
  /\ \A r, q \in Redemptions : Access(r) = Access(q) => r = q
  /\ \A a \in Authorizations, r \in Redemptions :
       Code(a) # Refresh(r) /\ Code(a) # Access(r)
  /\ \A r, q \in Redemptions : Refresh(r) # Access(q)
BY DEF Code, Refresh, Access

\* Most steps leave every token, and who spent what, as it was.
Steady ==
  /\ \A a \in Authorizations :
       /\ auth'[a].pc # "idle" => auth'[a].code.family = a
       /\ auth[a].pc \in {"index", "issued"} => auth'[a].pc \in {"index", "issued"}
       /\ auth[a].pc = "issued" => auth'[a].pc = "issued"
  /\ \A a \in Authorizations : store'[Code(a)] \in {store[Code(a)], None}
  /\ \A r \in Redemptions : store'[Refresh(r)] \in {store[Refresh(r)], None}
  /\ \A r \in Redemptions : store'[Access(r)] # None =>
       red[r].seen # None /\ store'[Access(r)].family = red[r].seen.family
  /\ consumed' = consumed
  /\ \A r \in Redemptions :
       /\ red'[r].seen = red[r].seen /\ red'[r].token = red[r].token
       /\ red'[r].won = red[r].won /\ red'[r].client = red[r].client
       /\ red'[r].pc = "idle" => red[r].pc = "idle"
       /\ red[r].pc = "issued" => red'[r].pc = "issued"
       /\ red[r].pc \in {"indexRefresh", "issued", "failed"}
            => red'[r].pc \in {"indexRefresh", "issued", "failed"}
       /\ red'[r].pc \in IssuingPc /\ SingleUse(red[r].token, red[r].client) =>
            \/ red[r].pc \in IssuingPc
            \/ IsCode(red[r].token) /\ red[r].pc \in {"grant", "session"}
       /\ IsCode(red[r].token) /\ red'[r].pc \in {"grant", "session"}
            => red[r].pc \in {"grant", "session"}
       /\ red[r].won /\ red'[r].pc \in SpendingPc => red[r].pc \in SpendingPc
       /\ red'[r].pc \notin RefusedPc => red[r].pc \notin RefusedPc

\* What was read of a token names an authorization as its family.
LEMMA SeenFamily ==
  ASSUME TypeOK, NEW r \in Redemptions, red[r].seen # None
  PROVE  red[r].seen \in Artifact /\ red[r].seen.family \in Authorizations
BY DEF TypeOK, RedemptionsOK, RedemptionState, Artifact

\* A steady step makes no token unspent.
LEMMA UnspentStays ==
  ASSUME Steady, Lineage, NEW i \in Id, NEW f \in Authorizations, Unspent(i, f)'
  PROVE  Unspent(i, f)
<1>1. FamilyIs(i, f) /\ i \notin consumed
  BY DEF Unspent, FamilyIs, Steady
<1>2. Known(i)
  <2>1. CASE store'[i] # None
    <3>1. i = Code(f) \/ \E q \in Redemptions : i = Refresh(q)
      BY <1>1 DEF FamilyIs
    <3>. QED BY <2>1, <3>1 DEF Steady, Known
  <2>2. CASE \E r \in Redemptions : red'[r].seen # None /\ red'[r].token = i
    BY <2>2 DEF Steady, Known
  <2>. QED BY <2>1, <2>2 DEF Unspent, Known
<1>. QED BY <1>1, <1>2 DEF Unspent

\* A steady step keeps Lineage.
LEMMA SteadyStep ==
  ASSUME TypeOK, Steady, Lineage
  PROVE  Lineage'
<1>1. Presented'
  BY DEF Lineage, Presented, Steady
<1>2. Descent'
  <2>1. \A a \in Authorizations :
          /\ auth'[a].pc # "idle" => auth'[a].code.family = a
          /\ store'[Code(a)] # None =>
               auth'[a].pc \in {"index", "issued"} /\ store'[Code(a)].family = a
    BY DEF Lineage, Descent, Steady
  <2>2. ASSUME NEW r \in Redemptions
        PROVE  /\ store'[Refresh(r)] # None =>
                    /\ red'[r].pc \in {"indexRefresh", "issued", "failed"}
                    /\ red'[r].seen # None
                    /\ store'[Refresh(r)].family = red'[r].seen.family
               /\ store'[Access(r)] # None =>
                    red'[r].seen # None /\ store'[Access(r)].family = red'[r].seen.family
    BY DEF Lineage, Descent, Steady
  <2>3. ASSUME NEW r \in Redemptions, red'[r].seen # None
        PROVE  FamilyIs(red[r].token, red[r].seen.family)'
    BY <2>3 DEF Lineage, Descent, Steady, FamilyIs
  <2>4. ASSUME NEW r \in Redemptions, red'[r].seen # None
        PROVE  auth'[red'[r].seen.family].pc \in {"index", "issued"}
    <3>1. red'[r].seen = red[r].seen /\ auth[red[r].seen.family].pc \in {"index", "issued"}
      BY <2>4 DEF Lineage, Descent, Steady
    <3>2. red[r].seen.family \in Authorizations
      BY <2>4, SeenFamily DEF Steady
    <3>. QED BY <3>1, <3>2 DEF Steady
  <2>. QED BY <2>1, <2>2, <2>3, <2>4 DEF Descent
<1>3. Winners'
  <2>1. \A r \in Redemptions : Issuing(r)' => red'[r].pc \in IssuingPc
    BY DEF Issuing
  <2>. QED BY <2>1 DEF Lineage, Winners, Steady, Issuing
<1>4. OneUnspent'
  <2>1. ASSUME NEW f \in Authorizations, NEW r \in Redemptions, HeirRequest(r, f)'
        PROVE  HeirRequest(r, f)
    BY <2>1 DEF HeirRequest, Spending, Steady
  <2>. QED BY <2>1, UnspentStays DEF Lineage, OneUnspent
<1>5. Agreed'
  <2>1. ASSUME NEW r \in Redemptions, red[r].seen # None
        PROVE  store'[red[r].token] \in {red[r].seen, None}
    <3>1. \/ \E a \in Authorizations : red[r].token = Code(a)
          \/ \E q \in Redemptions : red[r].token = Refresh(q)
      BY <2>1 DEF Lineage, Presented
    <3>2. store[red[r].token] \in {red[r].seen, None}
      BY <2>1 DEF Lineage, Agreed
    <3>. QED BY <3>1, <3>2 DEF Steady
  <2>. QED BY <2>1 DEF Lineage, Agreed, Steady
<1>. QED BY <1>1, <1>2, <1>3, <1>4, <1>5 DEF Lineage

\* Request r goes to pc and keeps what it read.
Moves(r, pc) ==
  /\ red'[r].pc = pc
  /\ \A q \in Redemptions :
       /\ red'[q].seen = red[q].seen /\ red'[q].token = red[q].token
       /\ red'[q].won = red[q].won /\ red'[q].client = red[q].client
       /\ q # r => red'[q].pc = red[q].pc

\* Goto only changes where a request is.
LEMMA GotoMoves ==
  ASSUME RedemptionsOK, NEW r \in Redemptions, NEW pc, Goto(r, pc)
  PROVE  Moves(r, pc)
<1>1. red[r] \in RedemptionState
  BY DEF RedemptionsOK
<1>2. red' = [red EXCEPT ![r] = [red[r] EXCEPT !.pc = pc]]
  BY DEF Goto
<1>3. /\ red'[r] = [red[r] EXCEPT !.pc = pc]
      /\ \A q \in Redemptions : q # r => red'[q] = red[q]
  BY <1>2 DEF RedemptionsOK
<1>. QED BY <1>1, <1>3 DEF RedemptionState, Moves

\* Taking over the scopes of the grant leaves alone what Lineage speaks of.
LEMMA GrantedMoves ==
  ASSUME RedemptionsOK, NEW r \in Redemptions, NEW pc, NEW g,
         red' = [red EXCEPT ![r].granted = g, ![r].pc = pc]
  PROVE  Moves(r, pc)
<1> DEFINE x == [red[r] EXCEPT !.granted = g]
<1>1. red[r] \in RedemptionState
  BY DEF RedemptionsOK
<1>2. /\ red'[r] = [x EXCEPT !.pc = pc]
      /\ \A q \in Redemptions : q # r => red'[q] = red[q]
  BY DEF RedemptionsOK
<1>3. [x EXCEPT !.pc = pc].pc = pc
  BY <1>1 DEF RedemptionState
<1>4. /\ [x EXCEPT !.pc = pc].seen = red[r].seen /\ [x EXCEPT !.pc = pc].token = red[r].token
  BY <1>1 DEF RedemptionState
<1>5. [x EXCEPT !.pc = pc].client = red[r].client
  BY <1>1 DEF RedemptionState
<1>6. [x EXCEPT !.pc = pc].won = red[r].won
  BY <1>1 DEF RedemptionState
<1> HIDE DEF x
<1>. QED BY <1>2, <1>3, <1>4, <1>5, <1>6, Zenon DEF Moves

\* So does settling on the scopes to issue.
LEMMA ScopesMoves ==
  ASSUME RedemptionsOK, NEW r \in Redemptions, NEW pc, NEW g,
         red' = [red EXCEPT ![r].scopes = g, ![r].pc = pc]
  PROVE  Moves(r, pc)
<1> DEFINE x == [red[r] EXCEPT !.scopes = g]
<1>1. red[r] \in RedemptionState
  BY DEF RedemptionsOK
<1>2. /\ red'[r] = [x EXCEPT !.pc = pc]
      /\ \A q \in Redemptions : q # r => red'[q] = red[q]
  BY DEF RedemptionsOK
<1>3. [x EXCEPT !.pc = pc].pc = pc
  BY <1>1 DEF RedemptionState
<1>4. /\ [x EXCEPT !.pc = pc].seen = red[r].seen /\ [x EXCEPT !.pc = pc].token = red[r].token
  BY <1>1 DEF RedemptionState
<1>5. [x EXCEPT !.pc = pc].client = red[r].client
  BY <1>1 DEF RedemptionState
<1>6. [x EXCEPT !.pc = pc].won = red[r].won
  BY <1>1 DEF RedemptionState
<1> HIDE DEF x
<1>. QED BY <1>2, <1>3, <1>4, <1>5, <1>6, Zenon DEF Moves

\* Moving on to pc is a steady step when pc is not a way into issuing that the
\* request was not on already.
LEMMA MoveSteady ==
  ASSUME TypeOK, Lineage, NEW r \in Redemptions, NEW pc, Moves(r, pc),
         pc # "idle", red[r].pc # "issued",
         red[r].pc \in {"indexRefresh", "failed"} => pc \in {"issued", "failed"},
         pc \in IssuingPc /\ SingleUse(red[r].token, red[r].client) =>
           \/ red[r].pc \in IssuingPc
           \/ IsCode(red[r].token) /\ red[r].pc \in {"grant", "session"},
         IsCode(red[r].token) /\ pc \in {"grant", "session"} => red[r].pc \in {"grant", "session"},
         red[r].won /\ pc \in SpendingPc => red[r].pc \in SpendingPc,
         pc \notin RefusedPc => red[r].pc \notin RefusedPc,
         auth' = auth, consumed' = consumed,
         \A i \in Id : ~IsAccess(i) => store'[i] = store[i],
         \A q \in Redemptions : store'[Access(q)] # None =>
            red[q].seen # None /\ store'[Access(q)].family = red[q].seen.family
  PROVE  Steady
<1>1. /\ red'[r].pc = pc
      /\ \A q \in Redemptions :
           /\ red'[q].seen = red[q].seen /\ red'[q].token = red[q].token
           /\ red'[q].won = red[q].won /\ red'[q].client = red[q].client
           /\ q # r => red'[q].pc = red[q].pc
  BY DEF Moves
<1>2. /\ \A a \in Authorizations : store'[Code(a)] \in {store[Code(a)], None}
      /\ \A q \in Redemptions : store'[Refresh(q)] \in {store[Refresh(q)], None}
  BY Ids, Names DEF IsAccess
<1>3. ASSUME NEW a \in Authorizations
      PROVE  /\ auth'[a].pc # "idle" => auth'[a].code.family = a
             /\ auth[a].pc \in {"index", "issued"} => auth'[a].pc \in {"index", "issued"}
             /\ auth[a].pc = "issued" => auth'[a].pc = "issued"
  BY DEF Lineage, Descent
<1>4. ASSUME NEW q \in Redemptions
      PROVE  /\ red'[q].pc = "idle" => red[q].pc = "idle"
             /\ red[q].pc = "issued" => red'[q].pc = "issued"
             /\ red[q].pc \in {"indexRefresh", "issued", "failed"}
                  => red'[q].pc \in {"indexRefresh", "issued", "failed"}
             /\ red'[q].pc \in IssuingPc /\ SingleUse(red[q].token, red[q].client) =>
                  \/ red[q].pc \in IssuingPc
                  \/ IsCode(red[q].token) /\ red[q].pc \in {"grant", "session"}
             /\ IsCode(red[q].token) /\ red'[q].pc \in {"grant", "session"}
                  => red[q].pc \in {"grant", "session"}
             /\ red[q].won /\ red'[q].pc \in SpendingPc => red[q].pc \in SpendingPc
             /\ red'[q].pc \notin RefusedPc => red[q].pc \notin RefusedPc
  <2>1. CASE q = r
    BY <1>1, <2>1
  <2>2. CASE q # r
    BY <1>1, <2>2
  <2>. QED BY <2>1, <2>2
<1>. QED BY <1>1, <1>2, <1>3, <1>4 DEF Steady

\* So is a step that leaves the token requests alone and only takes tokens away.
LEMMA ElsewhereSteady ==
  ASSUME TypeOK, Lineage, red' = red, auth' = auth, consumed' = consumed,
         \A i \in Id : store'[i] \in {store[i], None}
  PROVE  Steady
<1>1. /\ \A a \in Authorizations : store'[Code(a)] \in {store[Code(a)], None}
      /\ \A r \in Redemptions : store'[Refresh(r)] \in {store[Refresh(r)], None}
      /\ \A r \in Redemptions : store'[Access(r)] \in {store[Access(r)], None}
  BY Ids
<1>. QED BY <1>1 DEF Steady, Lineage, Descent

\* Lineage holds initially: no token, and no request that has read one.
LEMMA LineageInit == Init => Lineage
BY Ids DEF Init, Lineage, Presented, Descent, Agreed, Winners, OneUnspent, Unspent, Known,
   HeirRequest, Spending, Issuing, IssuingPc

\* What the winner of a consume changes in its record.
LEMMA ConsumeFields ==
  ASSUME RedemptionsOK, NEW r \in Redemptions, NEW pc,
         red' = [red EXCEPT ![r].won = TRUE, ![r].pc = pc]
  PROVE  /\ red'[r].pc = pc /\ red'[r].won
         /\ \A q \in Redemptions :
              /\ red'[q].seen = red[q].seen /\ red'[q].token = red[q].token
              /\ red'[q].client = red[q].client
              /\ q # r => red'[q].pc = red[q].pc /\ red'[q].won = red[q].won
<1> DEFINE x == [red[r] EXCEPT !.won = TRUE]
<1>1. red[r] \in RedemptionState
  BY DEF RedemptionsOK
<1>2. /\ red'[r] = [x EXCEPT !.pc = pc]
      /\ \A q \in Redemptions : q # r => red'[q] = red[q]
  BY DEF RedemptionsOK
<1>3. x \in RedemptionState
  BY <1>1 DEF RedemptionState
<1>4. x.seen = red[r].seen /\ x.token = red[r].token /\ x.client = red[r].client
  BY <1>1 DEF RedemptionState
<1>5. x.won
  BY <1>1 DEF RedemptionState
<1> HIDE DEF x
<1>6. red'[r].pc = pc
  BY <1>2, <1>3 DEF RedemptionState
<1>7. red'[r].won
  BY <1>2, <1>3, <1>5 DEF RedemptionState
<1>8. red'[r].seen = x.seen
  BY <1>2, <1>3, ZenonT(30) DEF RedemptionState
<1>9. red'[r].token = x.token /\ red'[r].client = x.client
  BY <1>2, <1>3, ZenonT(30) DEF RedemptionState
<1>. QED BY <1>2, <1>4, <1>6, <1>7, <1>8, <1>9, Zenon

\* The consume that wins: the token was unspent, so it was the family's only heir.
LEMMA WinningConsume ==
  ASSUME TypeOK, Lineage, NEW r \in Redemptions,
         red[r].pc \in {"consume", "insert"}, red[r].token \notin consumed,
         consumed' = consumed \cup {red[r].token},
         red'[r].pc = AfterConsume(r), red'[r].won,
         \A q \in Redemptions :
            /\ red'[q].seen = red[q].seen /\ red'[q].token = red[q].token
            /\ red'[q].client = red[q].client
            /\ q # r => red'[q].pc = red[q].pc /\ red'[q].won = red[q].won,
         store' = store, auth' = auth
  PROVE  Lineage'
<1> DEFINE f == red[r].seen.family
<1>1. /\ red[r] \in RedemptionState /\ red[r].seen \in Artifact /\ red[r].token \in Id
      /\ red[r].seen # None /\ f \in Authorizations
  BY KnowsType, ConstantsAssumption DEF TypeOK, Artifact
<1>2. /\ red'[r].pc = AfterConsume(r) /\ red'[r].won
      /\ red'[r].seen = red[r].seen /\ red'[r].token = red[r].token
      /\ red'[r].client = red[r].client
  OBVIOUS
<1>3. \A q \in Redemptions : q # r => red'[q].pc = red[q].pc /\ red'[q].won = red[q].won
  OBVIOUS
<1>4. \A q \in Redemptions : red'[q].seen = red[q].seen /\ red'[q].token = red[q].token
                             /\ red'[q].client = red[q].client
  OBVIOUS
<1>5. AfterConsume(r) \in {"grant", "addClient"}
      /\ (IsCode(red[r].token) => AfterConsume(r) = "grant")
  BY DEF AfterConsume
<1>6. Unspent(red[r].token, f)
  BY <1>1 DEF Unspent, Known, Lineage, Descent
<1>7. Presented'
  <2>1. \A q \in Redemptions : red[q].pc = "issued" => red'[q].pc = "issued"
    BY <1>3
  <2>. QED BY <1>1, <1>2, <1>3, <1>4, <1>5, <2>1 DEF Lineage, Presented
<1>8. Descent'
  <2>1. \A q \in Redemptions, i \in Id, g \in Authorizations : FamilyIs(i, g)' = FamilyIs(i, g)
    BY <1>4 DEF FamilyIs
  <2>2. \A q \in Redemptions : store[Refresh(q)] # None =>
          red'[q].pc \in {"indexRefresh", "issued", "failed"}
    BY <1>3 DEF Lineage, Descent
  <2>3. \A q \in Redemptions : red[q].seen # None => FamilyIs(red[q].token, red[q].seen.family)'
    BY <1>4 DEF FamilyIs, Lineage, Descent
  <2>. QED BY <1>4, <2>2, <2>3 DEF Lineage, Descent
<1>9. Winners'
  <2>1. \A q \in Redemptions : red'[q].won => red'[q].seen # None /\ red'[q].token \in consumed'
    BY <1>1, <1>2, <1>3 DEF Lineage, Winners
  <2>2. \A p, q \in Redemptions : red'[p].won /\ red'[q].won /\ red'[p].token = red'[q].token => p = q
    BY <1>2, <1>3 DEF Lineage, Winners
  <2>3. \A q \in Redemptions :
          /\ SingleUse(red'[q].token, red'[q].client)
          /\ Issuing(q)' \/ (IsCode(red'[q].token) /\ red'[q].pc \in {"grant", "session"})
          => red'[q].won
    BY <1>2, <1>3 DEF Lineage, Winners, Issuing
  <2>. QED BY <2>1, <2>2, <2>3 DEF Winners
<1>10. OneUnspent'
  <2>1. \A i \in Id, g \in Authorizations :
          Unspent(i, g)' => Unspent(i, g) /\ i # red[r].token
    BY <1>4 DEF Unspent, FamilyIs, Known
  <2>2. \A q \in Redemptions, g \in Authorizations :
          HeirRequest(q, g)' => HeirRequest(q, g) \/ (q = r /\ g = f)
    BY <1>2, <1>3 DEF HeirRequest, Spending
  <2>3. \A i \in Id : ~(Unspent(i, f) /\ i # red[r].token)
    BY <1>1, <1>6 DEF Lineage, OneUnspent
  <2>4. \A q \in Redemptions : ~HeirRequest(q, f)
    BY <1>1, <1>6 DEF Lineage, OneUnspent
  <2>5. \A g \in Authorizations, i, j \in Id : Unspent(i, g)' /\ Unspent(j, g)' => i = j
    BY <2>1 DEF Lineage, OneUnspent
  <2>6. \A g \in Authorizations, i \in Id, q \in Redemptions :
          ~(Unspent(i, g)' /\ HeirRequest(q, g)')
    BY <2>1, <2>2, <2>3 DEF Lineage, OneUnspent
  <2>7. \A g \in Authorizations, p, q \in Redemptions :
          HeirRequest(p, g)' /\ HeirRequest(q, g)' => p = q
    BY <2>2, <2>4 DEF Lineage, OneUnspent
  <2>. QED BY <2>5, <2>6, <2>7 DEF OneUnspent
<1>11. Agreed'
  <2>1. \A q \in Redemptions : red'[q].pc \notin RefusedPc => red[q].pc \notin RefusedPc
    BY <1>3 DEF RefusedPc
  <2>. QED BY <1>4, <2>1 DEF Lineage, Agreed
<1>. QED BY <1>7, <1>8, <1>9, <1>10, <1>11 DEF Lineage

\* A request that is shown a token reads a family it does not yet take part in.
LEMMA FindLineage ==
  ASSUME TypeOK, Lineage, NEW r \in Redemptions, NEW i \in Id, i \in Held, ~IsAccess(i),
         red[r].pc = "idle",
         red'[r].pc \in {"refused", "revoke", "consume", "grant"},
         red'[r].pc = "grant" => ~IsCode(i),
         red'[r].pc \notin RefusedPc => store[i] # None /\ red'[r].client = store[i].client,
         ~red'[r].won, red'[r].token = i, red'[r].seen = store[i],
         \A q \in Redemptions : q # r => red'[q] = red[q],
         store' = store, auth' = auth, consumed' = consumed
  PROVE  Lineage'
<1>1. ~red[r].won /\ red[r].seen = None
  BY DEF Lineage, Presented
<1>2. \/ \E a \in Authorizations : i = Code(a) /\ auth[a].pc = "issued"
      \/ \E q \in Redemptions : i = Refresh(q) /\ red[q].pc = "issued" /\ q # r
  BY DEF Held, IsAccess
<1>3. \A q \in Redemptions : red[q].pc = "issued" => red'[q].pc = "issued" /\ q # r
  OBVIOUS
<1>4. Presented'
  BY <1>2, <1>3 DEF Lineage, Presented
<1>5. store[i] # None => \E f \in Authorizations :
         /\ f = store[i].family /\ FamilyIs(i, f) /\ FamilyIs(i, f)'
         /\ auth[f].pc \in {"index", "issued"}
  <2>1. ASSUME NEW a \in Authorizations, i = Code(a), store[i] # None
        PROVE  a = store[i].family /\ FamilyIs(i, a) /\ FamilyIs(i, a)'
               /\ auth[a].pc \in {"index", "issued"}
    BY <2>1 DEF Lineage, Descent, FamilyIs
  <2>2. ASSUME NEW q \in Redemptions, i = Refresh(q), q # r, store[i] # None
        PROVE  \E f \in Authorizations :
                 /\ f = store[i].family /\ FamilyIs(i, f) /\ FamilyIs(i, f)'
                 /\ auth[f].pc \in {"index", "issued"}
    <3>1. red[q].seen # None /\ store[i].family = red[q].seen.family
      BY <2>2 DEF Lineage, Descent
    <3>2. red[q].seen.family \in Authorizations
      BY <3>1, SeenFamily
    <3>3. FamilyIs(i, red[q].seen.family) /\ FamilyIs(i, red[q].seen.family)'
      BY <2>2, <3>1 DEF FamilyIs
    <3>4. auth[red[q].seen.family].pc \in {"index", "issued"}
      BY <3>1 DEF Lineage, Descent
    <3>. QED BY <3>1, <3>2, <3>3, <3>4
  <2>. QED BY <1>2, <2>1, <2>2
<1>6. \A p \in Redemptions : red[p].seen # None => red'[p] = red[p]
  BY <1>1
<1>7. Descent'
  <2>1. \A a \in Authorizations :
          /\ auth'[a].pc # "idle" => auth'[a].code.family = a
          /\ store'[Code(a)] # None =>
               auth'[a].pc \in {"index", "issued"} /\ store'[Code(a)].family = a
    BY DEF Lineage, Descent
  <2>2. ASSUME NEW q \in Redemptions, q # r
        PROVE  /\ store'[Refresh(q)] # None =>
                    /\ red'[q].pc \in {"indexRefresh", "issued", "failed"}
                    /\ red'[q].seen # None /\ store'[Refresh(q)].family = red'[q].seen.family
               /\ store'[Access(q)] # None =>
                    red'[q].seen # None /\ store'[Access(q)].family = red'[q].seen.family
               /\ red'[q].seen # None => auth'[red'[q].seen.family].pc \in {"index", "issued"}
    BY <2>2 DEF Lineage, Descent
  <2>3. ASSUME NEW q \in Redemptions, q # r, red'[q].seen # None
        PROVE  FamilyIs(red[q].token, red[q].seen.family)'
    <3>1. red'[q] = red[q] /\ red[q].seen # None
      BY <2>3
    <3>2. red[q].seen.family \in Authorizations
      BY <3>1, SeenFamily
    <3>3. FamilyIs(red[q].token, red[q].seen.family)
      BY <3>1 DEF Lineage, Descent
    <3>4. CASE red[q].token = Code(red[q].seen.family)
      BY <3>1, <3>4 DEF FamilyIs
    <3>5. CASE \E p \in Redemptions : /\ red[q].token = Refresh(p) /\ red[p].seen # None
                                      /\ red[p].seen.family = red[q].seen.family
      <4>1. PICK p \in Redemptions : /\ red[q].token = Refresh(p) /\ red[p].seen # None
                                     /\ red[p].seen.family = red[q].seen.family
        BY <3>5
      <4>2. red'[p] = red[p]
        BY <1>6, <4>1
      <4>3. /\ red'[q].token = Refresh(p) /\ red'[p].seen # None
            /\ red'[p].seen.family = red'[q].seen.family
        BY <3>1, <4>1, <4>2
      <4>. QED BY <4>3 DEF FamilyIs
    <3>. QED BY <3>3, <3>4, <3>5 DEF FamilyIs
  <2>4. store'[Refresh(r)] = None /\ store'[Access(r)] = None
    BY <1>1 DEF Lineage, Descent
  <2>5. red'[r].seen # None =>
          /\ FamilyIs(red[r].token, red[r].seen.family)'
          /\ auth'[red'[r].seen.family].pc \in {"index", "issued"}
    BY <1>5
  <2>. QED BY <2>1, <2>2, <2>3, <2>4, <2>5 DEF Descent
<1>8. Winners'
  <2>1. \A q \in Redemptions : red'[q].won => q # r
    OBVIOUS
  <2>2. red'[r].pc \notin IssuingPc
    BY DEF IssuingPc
  <2>3. \A q \in Redemptions : q # r =>
          (SingleUse(red[q].token, red[q].client)' => SingleUse(red[q].token, red[q].client))
    BY DEF SingleUse
  <2>4. ASSUME NEW q \in Redemptions, SingleUse(red'[q].token, red'[q].client),
               \/ red'[q].pc \in IssuingPc
               \/ IsCode(red'[q].token) /\ red'[q].pc \in {"grant", "session"}
        PROVE  red'[q].won
    <3>1. q # r
      BY <2>2, <2>4
    <3>. QED BY <2>4, <3>1 DEF Lineage, Winners, Issuing
  <2>. QED BY <2>1, <2>4 DEF Lineage, Winners, Issuing
<1>9. OneUnspent'
  <2>1. ASSUME NEW j \in Id, NEW f \in Authorizations, Unspent(j, f)'
        PROVE  Unspent(j, f)
    <3>1. Known(j)
      BY <2>1 DEF Unspent, Known
    <3>2. j \notin consumed
      BY <2>1 DEF Unspent
    <3>3. j # Refresh(r)
      <4>1. store[Refresh(r)] = None
        BY <1>1 DEF Lineage, Descent
      <4>2. \A q \in Redemptions : red[q].seen # None => red[q].token # Refresh(r)
        BY Names DEF Lineage, Presented
      <4>. QED BY <3>1, <4>1, <4>2 DEF Known
    <3>4. FamilyIs(j, f)
      BY <2>1, <3>3 DEF Unspent, FamilyIs
    <3>. QED BY <3>1, <3>2, <3>4 DEF Unspent
  <2>2. ASSUME NEW q \in Redemptions, NEW f \in Authorizations, HeirRequest(q, f)'
        PROVE  HeirRequest(q, f)
    BY <2>2 DEF HeirRequest, Spending
  <2>. QED BY <2>1, <2>2 DEF Lineage, OneUnspent
<1>10. Agreed'
  <2>1. \A q \in Redemptions : q # r => red'[q] = red[q]
    OBVIOUS
  <2>2. \A q \in Redemptions : q # r /\ red[q].seen # None /\ red[q].token = i =>
          store[i] \in {red[q].seen, None}
    BY DEF Lineage, Agreed
  <2>3. \A q \in Redemptions : red'[q].seen # None =>
          /\ store'[red'[q].token] \in {red'[q].seen, None}
          /\ red'[q].pc \notin RefusedPc => red'[q].client = red'[q].seen.client
    BY <2>1 DEF Lineage, Agreed
  <2>4. ASSUME NEW p \in Redemptions, NEW q \in Redemptions,
               red'[p].seen # None, red'[q].seen # None, red'[p].token = red'[q].token
        PROVE  red'[p].seen = red'[q].seen
    <3>1. CASE p = r \/ q = r
      BY <2>1, <2>2, <2>4, <3>1
    <3>2. CASE p # r /\ q # r
      BY <2>1, <2>4, <3>2 DEF Lineage, Agreed
    <3>. QED BY <3>1, <3>2
  <2>. QED BY <2>3, <2>4 DEF Agreed
<1>. QED BY <1>4, <1>7, <1>8, <1>9, <1>10 DEF Lineage

\* The code that starts a family: until it is stored nobody has heard of it.
LEMMA IssueCodeLineage ==
  ASSUME TypeOK, Lineage, NEW a \in Authorizations, issueCode(a)
  PROVE  Lineage'
<1>1. /\ auth[a].pc = "store" /\ auth[a].code \in Artifact /\ auth[a].code.family = a
      /\ auth'[a].pc \in {"index", "issued"} /\ auth'[a].code = auth[a].code
      /\ \A b \in Authorizations : b # a => auth'[b] = auth[b]
  BY DEF issueCode, TypeOK, AuthorizationsOK, AuthorizationState, Lineage, Descent
<1>2. /\ store'[Code(a)] # None /\ store'[Code(a)].family = a
      /\ \A j \in Id : j # Code(a) => store'[j] = store[j]
  BY <1>1, Ids, ConstantsAssumption, TtlAssumption
     DEF issueCode, Upsert, TypeOK, StoreOK, Artifact
<1>3. red' = red /\ consumed' = consumed
  BY DEF issueCode
<1>4. /\ \A b \in Authorizations : Code(b) \in Id
      /\ \A r \in Redemptions : Refresh(r) \in Id /\ Access(r) \in Id
  BY Ids
<1>5. \A b \in Authorizations : b # a => store'[Code(b)] = store[Code(b)]
  BY <1>2, <1>4, Names
<1>6. \A r \in Redemptions : store'[Refresh(r)] = store[Refresh(r)] /\ store'[Access(r)] = store[Access(r)]
  BY <1>2, <1>4, Names
<1>7. Presented'
  <2>1. \A b \in Authorizations : auth[b].pc = "issued" => auth'[b].pc = "issued"
    BY <1>1
  <2>. QED BY <1>3, <2>1 DEF Lineage, Presented
<1>8. \A r \in Redemptions : red[r].seen # None => red[r].seen.family # a
  BY <1>1 DEF Lineage, Descent
<1>9. Descent'
  <2>1. ASSUME NEW b \in Authorizations
        PROVE  /\ auth'[b].pc # "idle" => auth'[b].code.family = b
               /\ store'[Code(b)] # None =>
                    auth'[b].pc \in {"index", "issued"} /\ store'[Code(b)].family = b
    BY <1>1, <1>2, <1>5 DEF Lineage, Descent
  <2>2. ASSUME NEW r \in Redemptions, red[r].seen # None
        PROVE  auth'[red[r].seen.family].pc \in {"index", "issued"}
    <3>1. red[r].seen.family \in Authorizations
      BY <2>2, SeenFamily
    <3>. QED BY <1>1, <1>8, <2>2, <3>1 DEF Lineage, Descent
  <2>3. ASSUME NEW r \in Redemptions, red[r].seen # None
        PROVE  FamilyIs(red[r].token, red[r].seen.family)'
    BY <1>3, <2>3 DEF Lineage, Descent, FamilyIs
  <2>. QED BY <1>3, <1>6, <2>1, <2>2, <2>3 DEF Lineage, Descent
<1>10. Winners'
  BY <1>3 DEF Lineage, Winners, Issuing
<1>11. OneUnspent'
  <2>1. ASSUME NEW j \in Id, NEW f \in Authorizations, Unspent(j, f)', j # Code(a)
        PROVE  Unspent(j, f) /\ f # a
    <3>1. Unspent(j, f)
      BY <1>2, <1>3, <2>1 DEF Unspent, FamilyIs, Known
    <3>2. f # a
      BY <1>8, <2>1, <3>1 DEF Unspent, FamilyIs
    <3>. QED BY <3>1, <3>2
  <2>2. ASSUME NEW f \in Authorizations, Unspent(Code(a), f)'
        PROVE  f = a
    BY <2>2, Names DEF Unspent, FamilyIs
  <2>3. ASSUME NEW r \in Redemptions, NEW f \in Authorizations, HeirRequest(r, f)'
        PROVE  HeirRequest(r, f) /\ f # a
    <3>1. HeirRequest(r, f)
      BY <1>3, <2>3 DEF HeirRequest, Spending
    <3>2. red[r].seen # None
      BY <3>1 DEF HeirRequest, Spending, Lineage, Winners
    <3>. QED BY <1>8, <3>1, <3>2 DEF HeirRequest
  <2>. QED BY <2>1, <2>2, <2>3 DEF Lineage, OneUnspent
<1>12. Agreed'
  <2>1. ASSUME NEW r \in Redemptions, red[r].seen # None
        PROVE  store'[red[r].token] = store[red[r].token]
    <3>1. \/ \E b \in Authorizations : red[r].token = Code(b) /\ b # a
          \/ \E q \in Redemptions : red[r].token = Refresh(q)
      BY <1>1, <2>1 DEF Lineage, Presented
    <3>. QED BY <1>5, <1>6, <3>1
  <2>. QED BY <1>3, <2>1 DEF Lineage, Agreed
<1>. QED BY <1>7, <1>9, <1>10, <1>11, <1>12 DEF Lineage

\* The heir stores its successor and stops being the heir in the same step.
LEMMA IssueRefreshLineage ==
  ASSUME TypeOK, Lineage, NEW r \in Redemptions, issueRefreshToken(r)
  PROVE  Lineage'
<1> DEFINE f == red[r].seen.family
<1>1. /\ red[r].pc = "refresh" /\ red[r].seen \in Artifact /\ red[r].seen # None
      /\ f \in Authorizations
  BY KnowsType, ConstantsAssumption DEF issueRefreshToken, TypeOK, Artifact
<1>2. \E pc \in {"indexRefresh", "issued"} : Moves(r, pc)
  BY GotoMoves DEF issueRefreshToken, TypeOK
<1>3. PICK pc \in {"indexRefresh", "issued"} : Moves(r, pc)
  BY <1>2
<1>4. /\ store'[Refresh(r)] # None /\ store'[Refresh(r)].family = f
      /\ \A j \in Id : j # Refresh(r) => store'[j] = store[j]
  <2>1. /\ StoreOK'
        /\ \A j \in Id : j # Refresh(r) => store'[j] = store[j]
    BY <1>1, Ids, KnowsType, RefreshTypes
       DEF StoreOK, issueRefreshToken, Upsert, Issued, Artifact, RedemptionState, TypeOK
  <2>2. store'[Refresh(r)] = Issued(r, red[r].granted, RefreshExpiry(r), FamilyEnd(r))
    BY Ids DEF issueRefreshToken, Upsert, TypeOK, StoreOK
  <2>3. store'[Refresh(r)] \in Artifact
    BY <1>1, <2>2, KnowsType, RefreshTypes DEF Issued, Artifact, RedemptionState, TypeOK
  <2>. QED BY <2>1, <2>2, <2>3, ConstantsAssumption DEF Issued
<1>5. auth' = auth /\ consumed' = consumed
  BY DEF issueRefreshToken
<1>6. HeirRequest(r, f)
  BY <1>1
     DEF issueRefreshToken, Mints, Lineage, Winners, Issuing, IssuingPc, HeirRequest, Spending,
        SpendingPc
<1>7. /\ \A a \in Authorizations : store'[Code(a)] = store[Code(a)]
      /\ \A q \in Redemptions : store'[Access(q)] = store[Access(q)]
      /\ \A q \in Redemptions : q # r => store'[Refresh(q)] = store[Refresh(q)]
  BY <1>4, Ids, Names
<1>8. Presented'
  <2>1. \A q \in Redemptions :
          /\ red[q].pc = "issued" => red'[q].pc = "issued"
          /\ red'[q].pc = "idle" => red[q].pc = "idle"
    BY <1>1, <1>3 DEF Moves
  <2>. QED BY <1>3, <1>5, <2>1 DEF Moves, Lineage, Presented
<1>9. \A j \in Id, g \in Authorizations : FamilyIs(j, g)' = FamilyIs(j, g)
  BY <1>3 DEF Moves, FamilyIs
<1>10. Descent'
  <2>1. \A a \in Authorizations :
          /\ auth'[a].pc # "idle" => auth'[a].code.family = a
          /\ store'[Code(a)] # None =>
               auth'[a].pc \in {"index", "issued"} /\ store'[Code(a)].family = a
    BY <1>5, <1>7 DEF Lineage, Descent
  <2>2. ASSUME NEW q \in Redemptions, store'[Refresh(q)] # None
        PROVE  /\ red'[q].pc \in {"indexRefresh", "issued", "failed"}
               /\ red'[q].seen # None /\ store'[Refresh(q)].family = red'[q].seen.family
    <3>1. CASE q = r
      BY <1>1, <1>3, <1>4, <3>1 DEF Moves
    <3>2. CASE q # r
      BY <1>3, <1>7, <2>2, <3>2 DEF Moves, Lineage, Descent
    <3>. QED BY <3>1, <3>2
  <2>3. ASSUME NEW q \in Redemptions, store'[Access(q)] # None
        PROVE  red'[q].seen # None /\ store'[Access(q)].family = red'[q].seen.family
    BY <1>3, <1>7, <2>3 DEF Moves, Lineage, Descent
  <2>4. ASSUME NEW q \in Redemptions, red'[q].seen # None
        PROVE  FamilyIs(red[q].token, red[q].seen.family)'
    BY <1>3, <2>4 DEF Moves, FamilyIs, Lineage, Descent
  <2>5. ASSUME NEW q \in Redemptions, red'[q].seen # None
        PROVE  auth'[red'[q].seen.family].pc \in {"index", "issued"}
    BY <1>3, <1>5, <2>5 DEF Moves, Lineage, Descent
  <2>. QED BY <2>1, <2>2, <2>3, <2>4, <2>5 DEF Descent
<1>11. Winners'
  <2>1. ASSUME NEW q \in Redemptions, red'[q].pc \in IssuingPc
        PROVE  red[q].pc \in IssuingPc
    BY <1>1, <1>3, <2>1 DEF Moves, IssuingPc
  <2>2. ASSUME NEW q \in Redemptions, red'[q].pc \in {"grant", "session"}
        PROVE  red[q].pc \in {"grant", "session"}
    BY <1>3, <2>2 DEF Moves
  <2>. QED BY <1>3, <1>5, <2>1, <2>2 DEF Moves, Lineage, Winners, Issuing
<1>12. OneUnspent'
  <2>1. ASSUME NEW j \in Id, NEW g \in Authorizations, Unspent(j, g)', j # Refresh(r)
        PROVE  Unspent(j, g)
    <3>1. Known(j)
      BY <1>3, <1>4, <2>1 DEF Unspent, Known, Moves
    <3>. QED BY <1>5, <1>9, <2>1, <3>1 DEF Unspent
  <2>2. ASSUME NEW g \in Authorizations, Unspent(Refresh(r), g)'
        PROVE  g = f
    BY <1>3, <2>2, Names DEF Moves, Unspent, FamilyIs
  <2>3. ASSUME NEW q \in Redemptions, NEW g \in Authorizations, HeirRequest(q, g)'
        PROVE  HeirRequest(q, g) /\ q # r
    BY <1>3, <2>3 DEF Moves, HeirRequest, Spending, SpendingPc
  <2>4. \A j \in Id : ~Unspent(j, f)
    BY <1>1, <1>6 DEF Lineage, OneUnspent
  <2>5. \A q \in Redemptions : HeirRequest(q, f) => q = r
    BY <1>1, <1>6 DEF Lineage, OneUnspent
  <2>6. \A g \in Authorizations, i, j \in Id : Unspent(i, g)' /\ Unspent(j, g)' => i = j
    BY <2>1, <2>2, <2>4 DEF Lineage, OneUnspent
  <2>7. \A g \in Authorizations, i \in Id, q \in Redemptions :
          ~(Unspent(i, g)' /\ HeirRequest(q, g)')
    BY <2>1, <2>2, <2>3, <2>5 DEF Lineage, OneUnspent
  <2>8. \A g \in Authorizations, p, q \in Redemptions :
          HeirRequest(p, g)' /\ HeirRequest(q, g)' => p = q
    BY <2>3 DEF Lineage, OneUnspent
  <2>. QED BY <2>6, <2>7, <2>8 DEF OneUnspent
<1>13. Agreed'
  <2>1. ASSUME NEW q \in Redemptions, red[q].seen # None
        PROVE  store'[red[q].token] = store[red[q].token]
    <3>1. \/ \E b \in Authorizations : red[q].token = Code(b)
          \/ \E p \in Redemptions : red[q].token = Refresh(p) /\ p # r
      BY <1>1, <2>1 DEF Lineage, Presented
    <3>. QED BY <1>7, <3>1
  <2>2. \A q \in Redemptions : red'[q].pc \notin RefusedPc => red[q].pc \notin RefusedPc
    BY <1>1, <1>3 DEF Moves, RefusedPc
  <2>. QED BY <1>3, <2>1, <2>2 DEF Moves, Lineage, Agreed
<1>. QED BY <1>8, <1>10, <1>11, <1>12, <1>13 DEF Lineage

\* An access token is of the family its request read.
LEMMA AccessDescends ==
  ASSUME Lineage, NEW q \in Redemptions, store[Access(q)] # None
  PROVE  red[q].seen # None /\ store[Access(q)].family = red[q].seen.family
BY DEF Lineage, Descent

\* MoveSteady for the steps that store nothing.
LEMMA MoveOnly ==
  ASSUME TypeOK, Lineage, NEW r \in Redemptions, NEW pc, Moves(r, pc),
         pc # "idle", red[r].pc # "issued",
         red[r].pc \in {"indexRefresh", "failed"} => pc \in {"issued", "failed"},
         pc \in IssuingPc /\ SingleUse(red[r].token, red[r].client) =>
           \/ red[r].pc \in IssuingPc
           \/ IsCode(red[r].token) /\ red[r].pc \in {"grant", "session"},
         IsCode(red[r].token) /\ pc \in {"grant", "session"} => red[r].pc \in {"grant", "session"},
         red[r].won /\ pc \in SpendingPc => red[r].pc \in SpendingPc,
         pc \notin RefusedPc => red[r].pc \notin RefusedPc,
         auth' = auth, consumed' = consumed, store' = store
  PROVE  Lineage'
BY MoveSteady, AccessDescends, SteadyStep

\* Every step keeps Lineage.
LEMMA LineageNext == TypeOK /\ Lineage /\ [Next]_vars => Lineage'
<1> SUFFICES ASSUME TypeOK, Lineage, [Next]_vars PROVE Lineage'
  OBVIOUS
<1>1. ASSUME NEW a \in Authorizations, NEW s \in Sessions, NEW g \in Grants, NEW asked \in SUBSET Scopes,
              Authorize(a, s, g, asked)
       PROVE  Lineage'
  <2>1. \A b \in Authorizations :
          /\ auth'[b].pc # "idle" => auth'[b].code.family = b
          /\ auth[b].pc \in {"index", "issued"} => auth'[b].pc \in {"index", "issued"}
          /\ auth[b].pc = "issued" => auth'[b].pc = "issued"
    BY <1>1 DEF Authorize, TypeOK, AuthorizationsOK, AuthorizationState, Lineage, Descent
  <2>2. red' = red /\ consumed' = consumed /\ store' = store
    BY <1>1 DEF Authorize
  <2>3. Steady
    BY <2>1, <2>2, AccessDescends DEF Steady
  <2>. QED BY <2>3, SteadyStep
<1>2. ASSUME NEW a \in Authorizations,
              issueCode(a)
       PROVE  Lineage'
  BY <1>2, IssueCodeLineage
<1>3. ASSUME NEW a \in Authorizations,
              IndexCode(a)
       PROVE  Lineage'
  <2>1. \A b \in Authorizations :
          /\ auth'[b].pc # "idle" => auth'[b].code.family = b
          /\ auth[b].pc \in {"index", "issued"} => auth'[b].pc \in {"index", "issued"}
          /\ auth[b].pc = "issued" => auth'[b].pc = "issued"
    BY <1>3 DEF IndexCode, TypeOK, AuthorizationsOK, AuthorizationState, Lineage, Descent
  <2>2. red' = red /\ consumed' = consumed /\ store' = store
    BY <1>3 DEF IndexCode
  <2>3. Steady
    BY <2>1, <2>2, AccessDescends DEF Steady
  <2>. QED BY <2>3, SteadyStep
<1>4. ASSUME NEW r \in Redemptions, NEW i \in Id, NEW c \in Clients,
              authorizationCodeGrant(r, i, c)
       PROVE  Lineage'
  <2>1. i \in Held /\ ~IsAccess(i) /\ Find(r, i, c, {"consume", "refused"})
    BY <1>4, Names DEF authorizationCodeGrant, IsCode, IsRefresh, IsAccess
  <2>2. PICK pc \in AfterFind(i, c, {"consume", "refused"}) :
          red' = [red EXCEPT ![r] =
            [@ EXCEPT !.pc = pc, !.client = c, !.token = i, !.seen = store[i],
                      !.consent = IF store[i] = None THEN {} ELSE consent[store[i].grant],
                      !.revoked = store[i] # None /\ store[i].grant \notin grants,
                      !.ended = store[i] # None /\ ~SessionLive(store[i].session)]]
    BY <2>1, Zenon DEF Find
  <2>3. pc \in {"refused", "revoke"} \cup {"consume", "refused"}
    BY <2>2 DEF AfterFind
  <2>4. red[r].pc = "idle" /\ ~red[r].won
    BY <2>1 DEF Find, Lineage, Presented
  <2>5. /\ red'[r].pc = pc /\ red'[r].token = i /\ red'[r].seen = store[i]
        /\ \A q \in Redemptions : q # r => red'[q] = red[q]
    BY <2>2 DEF TypeOK, RedemptionsOK, RedemptionState
  <2>6. ~red'[r].won
    BY <2>2, <2>4 DEF TypeOK, RedemptionsOK, RedemptionState
  <2>7. pc = "grant" => ~IsCode(i)
    BY <1>4, <2>3, Names DEF authorizationCodeGrant, IsCode, IsRefresh
  <2>8. red'[r].pc \notin RefusedPc => store[i] # None /\ red'[r].client = store[i].client
    <3>1. red'[r].client = c
      BY <2>2 DEF TypeOK, RedemptionsOK, RedemptionState
    <3>. QED BY <2>2, <2>5, <3>1 DEF AfterFind, Live, RefusedPc
  <2>. QED BY <2>1, <2>3, <2>4, <2>5, <2>6, <2>7, <2>8, FindLineage DEF Find
<1>5. ASSUME NEW r \in Redemptions, NEW i \in Id, NEW c \in Clients,
              refreshTokenGrant(r, i, c)
       PROVE  Lineage'
  <2>1. i \in Held /\ ~IsAccess(i) /\ Find(r, i, c, {"grant"})
    BY <1>5, Names DEF refreshTokenGrant, IsCode, IsRefresh, IsAccess
  <2>2. PICK pc \in AfterFind(i, c, {"grant"}) :
          red' = [red EXCEPT ![r] =
            [@ EXCEPT !.pc = pc, !.client = c, !.token = i, !.seen = store[i],
                      !.consent = IF store[i] = None THEN {} ELSE consent[store[i].grant],
                      !.revoked = store[i] # None /\ store[i].grant \notin grants,
                      !.ended = store[i] # None /\ ~SessionLive(store[i].session)]]
    BY <2>1, Zenon DEF Find
  <2>3. pc \in {"refused", "revoke"} \cup {"grant"}
    BY <2>2 DEF AfterFind
  <2>4. red[r].pc = "idle" /\ ~red[r].won
    BY <2>1 DEF Find, Lineage, Presented
  <2>5. /\ red'[r].pc = pc /\ red'[r].token = i /\ red'[r].seen = store[i]
        /\ \A q \in Redemptions : q # r => red'[q] = red[q]
    BY <2>2 DEF TypeOK, RedemptionsOK, RedemptionState
  <2>6. ~red'[r].won
    BY <2>2, <2>4 DEF TypeOK, RedemptionsOK, RedemptionState
  <2>7. pc = "grant" => ~IsCode(i)
    BY <1>5, <2>3, Names DEF refreshTokenGrant, IsCode, IsRefresh
  <2>8. red'[r].pc \notin RefusedPc => store[i] # None /\ red'[r].client = store[i].client
    <3>1. red'[r].client = c
      BY <2>2 DEF TypeOK, RedemptionsOK, RedemptionState
    <3>. QED BY <2>2, <2>5, <3>1 DEF AfterFind, Live, RefusedPc
  <2>. QED BY <2>1, <2>3, <2>4, <2>5, <2>6, <2>7, <2>8, FindLineage DEF Find
<1>6. ASSUME NEW r \in Redemptions,
              ConsumeRow(r)
       PROVE  Lineage'
  <2>1. CASE Live(red[r].token) /\ red[r].token \notin consumed
    <3>1. consumed' = consumed \cup {red[r].token} /\ red[r].token \notin consumed
          /\ red' = [red EXCEPT ![r].won = TRUE, ![r].pc = AfterConsume(r)]
      BY <1>6, <2>1 DEF ConsumeRow
    <3>2. /\ red'[r].pc = AfterConsume(r) /\ red'[r].won
          /\ \A q \in Redemptions :
               /\ red'[q].seen = red[q].seen /\ red'[q].token = red[q].token
               /\ red'[q].client = red[q].client
               /\ q # r => red'[q].pc = red[q].pc /\ red'[q].won = red[q].won
      BY <3>1, ConsumeFields DEF TypeOK
    <3>. QED BY <1>6, <3>1, <3>2, WinningConsume DEF ConsumeRow
  <2>2. CASE ~(Live(red[r].token) /\ red[r].token \notin consumed)
    <3>1. Moves(r, "revoke")
      BY <1>6, <2>2, GotoMoves DEF ConsumeRow, TypeOK
    <3>. QED BY <1>6, <2>2, <3>1, MoveOnly DEF ConsumeRow, IssuingPc, SpendingPc, RefusedPc
  <2>. QED BY <2>1, <2>2
<1>7. ASSUME NEW r \in Redemptions,
              ConsumeRead(r)
       PROVE  Lineage'
  <2>1. PICK pc : /\ Moves(r, pc) /\ pc \notin {"idle", "grant", "session"}
                  /\ pc \in IssuingPc => red[r].pc \in IssuingPc
                  /\ pc \in SpendingPc => red[r].pc \in SpendingPc
                  /\ red[r].pc \in {"indexRefresh", "failed"} => pc \in {"issued", "failed"}
                  /\ pc \notin RefusedPc => red[r].pc \notin RefusedPc
    BY <1>7, GotoMoves DEF ConsumeRead, TypeOK, IssuingPc, SpendingPc, RefusedPc
  <2>. QED BY <1>7, <2>1, MoveOnly DEF ConsumeRead
<1>8. ASSUME NEW r \in Redemptions,
              ConsumeInsert(r)
       PROVE  Lineage'
  <2>1. CASE red[r].token \notin consumed
    <3>1. consumed' = consumed \cup {red[r].token} /\ red[r].token \notin consumed
          /\ red' = [red EXCEPT ![r].won = TRUE, ![r].pc = AfterConsume(r)]
      BY <1>8, <2>1 DEF ConsumeInsert
    <3>2. /\ red'[r].pc = AfterConsume(r) /\ red'[r].won
          /\ \A q \in Redemptions :
               /\ red'[q].seen = red[q].seen /\ red'[q].token = red[q].token
               /\ red'[q].client = red[q].client
               /\ q # r => red'[q].pc = red[q].pc /\ red'[q].won = red[q].won
      BY <3>1, ConsumeFields DEF TypeOK
    <3>. QED BY <1>8, <3>1, <3>2, WinningConsume DEF ConsumeInsert
  <2>2. CASE ~(red[r].token \notin consumed)
    <3>1. Moves(r, "revoke")
      BY <1>8, <2>2, GotoMoves DEF ConsumeInsert, TypeOK
    <3>. QED BY <1>8, <2>2, <3>1, MoveOnly DEF ConsumeInsert, IssuingPc, SpendingPc, RefusedPc
  <2>. QED BY <2>1, <2>2
<1>9. ASSUME NEW r \in Redemptions,
              LoadGrant(r)
       PROVE  Lineage'
  <2>1. \/ \E g : red' = [red EXCEPT ![r].granted = g, ![r].pc = "session"]
        \/ Goto(r, "refused")
    BY <1>9, Zenon DEF LoadGrant
  <2>2. Moves(r, "session") \/ Moves(r, "refused")
    BY <2>1, GrantedMoves, GotoMoves DEF TypeOK
  <2>. QED BY <1>9, <2>2, MoveOnly DEF LoadGrant, IssuingPc, SpendingPc, RefusedPc
<1>10. ASSUME NEW r \in Redemptions,
              loadGrantAndSession(r)
       PROVE  Lineage'
  <2>1. \/ \E g : red' = [red EXCEPT ![r].scopes = g, ![r].pc = "addClient"]
        \/ Goto(r, "refused")
    BY <1>10, Zenon DEF loadGrantAndSession
  <2>2. Moves(r, "addClient") \/ Moves(r, "refused")
    BY <2>1, ScopesMoves, GotoMoves DEF TypeOK
  <2>. QED BY <1>10, <2>2, MoveOnly DEF loadGrantAndSession, IssuingPc, SpendingPc, RefusedPc
<1>11. ASSUME NEW r \in Redemptions,
              loadGrantAndSignIn(r)
       PROVE  Lineage'
  <2>1. \/ \E g : red' = [red EXCEPT ![r].scopes = g,
               ![r].pc = IF red[r].client \in Rotating THEN "consume" ELSE "addClient"]
        \/ Goto(r, "refused")
    BY <1>11, Zenon DEF loadGrantAndSignIn
  <2>2. \/ Moves(r, IF red[r].client \in Rotating THEN "consume" ELSE "addClient")
        \/ Moves(r, "refused")
    BY <2>1, ScopesMoves, GotoMoves DEF TypeOK
  <2>3. ~IsCode(red[r].token)
    BY <1>11, Names DEF loadGrantAndSignIn, IsRefresh, IsCode
  <2>4. CASE Moves(r, "refused")
    BY <1>11, <2>4, MoveOnly DEF loadGrantAndSignIn, IssuingPc, SpendingPc, RefusedPc
  <2>5. CASE red[r].client \in Rotating /\ Moves(r, "consume")
    BY <1>11, <2>5, MoveOnly DEF loadGrantAndSignIn, IssuingPc, SpendingPc, RefusedPc
  <2>6. CASE red[r].client \notin Rotating /\ Moves(r, "addClient")
    BY <1>11, <2>3, <2>6, MoveOnly
       DEF loadGrantAndSignIn, IssuingPc, SpendingPc, RefusedPc, SingleUse
  <2>. QED BY <2>2, <2>4, <2>5, <2>6
<1>12. ASSUME NEW r \in Redemptions,
              AddClient(r)
       PROVE  Lineage'
  <2>1. PICK pc : /\ Moves(r, pc) /\ pc \notin {"idle", "grant", "session"}
                  /\ pc \in IssuingPc => red[r].pc \in IssuingPc
                  /\ pc \in SpendingPc => red[r].pc \in SpendingPc
                  /\ red[r].pc \in {"indexRefresh", "failed"} => pc \in {"issued", "failed"}
                  /\ pc \notin RefusedPc => red[r].pc \notin RefusedPc
    BY <1>12, GotoMoves DEF AddClient, TypeOK, IssuingPc, SpendingPc, RefusedPc
  <2>. QED BY <1>12, <2>1, MoveOnly DEF AddClient
<1>13. ASSUME NEW r \in Redemptions,
              issueAccessToken(r)
       PROVE  Lineage'
  <2>1. \E pc \in {"indexAccess", "refresh"} : Moves(r, pc)
    BY <1>13, GotoMoves DEF issueAccessToken, TypeOK
  <2>2. red[r].seen \in Artifact /\ red[r].seen # None
    BY <1>13, KnowsType, ConstantsAssumption DEF issueAccessToken, TypeOK
  <2>3. /\ \A i \in Id : i # Access(r) => store'[i] = store[i]
        /\ store'[Access(r)] = Issued(r, red[r].scopes, now + AccessTtl, 0)
    BY <1>13, Ids DEF issueAccessToken, Upsert, TypeOK, StoreOK
  <2>4. ASSUME NEW q \in Redemptions, store'[Access(q)] # None
        PROVE  red[q].seen # None /\ store'[Access(q)].family = red[q].seen.family
    <3>1. CASE q = r
      BY <2>2, <2>3, <3>1 DEF Issued
    <3>2. CASE q # r
      BY <2>3, <2>4, <3>2, Ids, Names, AccessDescends
    <3>. QED BY <3>1, <3>2
  <2>5. \A i \in Id : ~IsAccess(i) => store'[i] = store[i]
    BY <2>3 DEF IsAccess
  <2>6. Steady
    BY <1>13, <2>1, <2>4, <2>5, MoveSteady DEF issueAccessToken, IssuingPc, SpendingPc, RefusedPc
  <2>. QED BY <2>6, SteadyStep
<1>14. ASSUME NEW r \in Redemptions,
              IndexAccess(r)
       PROVE  Lineage'
  <2>1. PICK pc : /\ Moves(r, pc) /\ pc \notin {"idle", "grant", "session"}
                  /\ pc \in IssuingPc => red[r].pc \in IssuingPc
                  /\ pc \in SpendingPc => red[r].pc \in SpendingPc
                  /\ red[r].pc \in {"indexRefresh", "failed"} => pc \in {"issued", "failed"}
                  /\ pc \notin RefusedPc => red[r].pc \notin RefusedPc
    BY <1>14, GotoMoves DEF IndexAccess, TypeOK, IssuingPc, SpendingPc, RefusedPc
  <2>. QED BY <1>14, <2>1, MoveOnly DEF IndexAccess
<1>15. ASSUME NEW r \in Redemptions,
              issueRefreshToken(r)
       PROVE  Lineage'
  BY <1>15, IssueRefreshLineage
<1>16. ASSUME NEW r \in Redemptions,
              KeepRefreshToken(r)
       PROVE  Lineage'
  <2>1. PICK pc : /\ Moves(r, pc) /\ pc \notin {"idle", "grant", "session"}
                  /\ pc \in IssuingPc => red[r].pc \in IssuingPc
                  /\ pc \in SpendingPc => red[r].pc \in SpendingPc
                  /\ red[r].pc \in {"indexRefresh", "failed"} => pc \in {"issued", "failed"}
                  /\ pc \notin RefusedPc => red[r].pc \notin RefusedPc
    BY <1>16, GotoMoves DEF KeepRefreshToken, TypeOK, IssuingPc, SpendingPc, RefusedPc
  <2>. QED BY <1>16, <2>1, MoveOnly DEF KeepRefreshToken
<1>17. ASSUME NEW r \in Redemptions,
              IndexRefresh(r)
       PROVE  Lineage'
  <2>1. PICK pc : /\ Moves(r, pc) /\ pc \notin {"idle", "grant", "session"}
                  /\ pc \in IssuingPc => red[r].pc \in IssuingPc
                  /\ pc \in SpendingPc => red[r].pc \in SpendingPc
                  /\ red[r].pc \in {"indexRefresh", "failed"} => pc \in {"issued", "failed"}
                  /\ pc \notin RefusedPc => red[r].pc \notin RefusedPc
    BY <1>17, GotoMoves DEF IndexRefresh, TypeOK, IssuingPc, SpendingPc, RefusedPc
  <2>. QED BY <1>17, <2>1, MoveOnly DEF IndexRefresh
<1>18. ASSUME NEW r \in Redemptions,
              Fail(r)
       PROVE  Lineage'
  <2>1. PICK pc : /\ Moves(r, pc) /\ pc \notin {"idle", "grant", "session"}
                  /\ pc \in IssuingPc => red[r].pc \in IssuingPc
                  /\ pc \in SpendingPc => red[r].pc \in SpendingPc
                  /\ red[r].pc \in {"indexRefresh", "failed"} => pc \in {"issued", "failed"}
                  /\ pc \notin RefusedPc => red[r].pc \notin RefusedPc
    BY <1>18, GotoMoves DEF Fail, TypeOK, IssuingPc, SpendingPc, RefusedPc
  <2>. QED BY <1>18, <2>1, MoveOnly DEF Fail
<1>19. ASSUME NEW p \in Redemptions \cup Revocations,
              DeleteRows(p)
       PROVE  Lineage'
  <2>1. \A j \in Id : store'[j] \in {store[j], None}
    BY <1>19 DEF DeleteRows, DeleteGrantRows, TypeOK, StoreOK
  <2>. QED BY <1>19, <2>1, ElsewhereSteady, SteadyStep DEF DeleteRows
<1>20. ASSUME NEW p \in Redemptions \cup Revocations,
              ScanKeys(p)
       PROVE  Lineage'
  BY <1>20, ElsewhereSteady, SteadyStep DEF ScanKeys
<1>21. ASSUME NEW p \in Redemptions \cup Revocations, NEW i \in Id,
              DestroyKey(p, i)
       PROVE  Lineage'
  <2>1. \A j \in Id : store'[j] \in {store[j], None}
    BY <1>21 DEF DestroyKey, TypeOK, StoreOK
  <2>. QED BY <1>21, <2>1, ElsewhereSteady, SteadyStep DEF DestroyKey
<1>22. ASSUME NEW v \in Revocations, NEW g \in Grants,
              RevokeConsent(v, g)
       PROVE  Lineage'
  BY <1>22, ElsewhereSteady, SteadyStep DEF RevokeConsent
<1>23. ASSUME NEW v \in Revocations, NEW i \in Id, NEW c \in Clients,
              RevokeToken(v, i, c)
       PROVE  Lineage'
  BY <1>23, ElsewhereSteady, SteadyStep DEF RevokeToken
<1>24. ASSUME NEW v \in Revocations,
              DestroyGrant(v)
       PROVE  Lineage'
  BY <1>24, ElsewhereSteady, SteadyStep DEF DestroyGrant
<1>25. ASSUME NEW v \in Revocations,
              DestroyAccess(v)
       PROVE  Lineage'
  <2>1. \A j \in Id : store'[j] \in {store[j], None}
    BY <1>25 DEF DestroyAccess, TypeOK, StoreOK
  <2>. QED BY <1>25, <2>1, ElsewhereSteady, SteadyStep DEF DestroyAccess
<1>26. ASSUME NEW v \in Revocations,
              FailRevocation(v)
       PROVE  Lineage'
  BY <1>26, ElsewhereSteady, SteadyStep DEF FailRevocation
<1>27. ASSUME NEW s \in Sessions,
              EndSession(s)
       PROVE  Lineage'
  BY <1>27, ElsewhereSteady, SteadyStep DEF EndSession
<1>28. ASSUME NEW g \in Grants, NEW kept \in SUBSET Scopes,
              NarrowConsent(g, kept)
       PROVE  Lineage'
  BY <1>28, ElsewhereSteady, SteadyStep DEF NarrowConsent
<1>29. CASE Tick
  BY <1>29, ElsewhereSteady, SteadyStep DEF Tick
<1>30. CASE UNCHANGED vars
  BY <1>30, ElsewhereSteady, SteadyStep DEF vars
<1>. QED
  BY <1>1, <1>2, <1>3, <1>4, <1>5, <1>6, <1>7, <1>8, <1>9, <1>10, <1>11, <1>12, <1>13, <1>14,
     <1>15, <1>16, <1>17, <1>18, <1>19, <1>20, <1>21, <1>22, <1>23, <1>24, <1>25, <1>26, <1>27,
     <1>28, <1>29, <1>30
     DEF Next, AuthorizationStep, RedemptionStep, SweepStep

\* Along every behaviour each family has at most one unspent token or one
\* request that has spent it and not yet stored the next.
THEOREM LineageAlways == Spec => []Lineage
<1>1. TypeOK /\ Lineage /\ [Next]_vars => Lineage'
  BY LineageNext
<1>. QED BY <1>1, LineageInit, TypeCorrect, PTL DEF Spec

\* A bearer of a family is unspent, or its request spent one: Lineage bounds both.
LEMMA LineageGivesOneHeir == TypeOK /\ Lineage => OneHeir
<1> SUFFICES ASSUME TypeOK, Lineage PROVE OneHeir
  OBVIOUS
<1>1. ASSUME NEW f \in Authorizations, NEW i \in Id, HeirToken(i, f)
      PROVE  Unspent(i, f)
  <2>1. CASE \E a \in Authorizations : i = Code(a)
    BY <1>1, <2>1 DEF HeirToken, Unspent, Known, FamilyIs, Lineage, Descent
  <2>2. CASE \E q \in Redemptions : i = Refresh(q)
    BY <1>1, <2>2 DEF HeirToken, Unspent, Known, FamilyIs, Lineage, Descent
  <2>. QED BY <1>1, <2>1, <2>2 DEF HeirToken, IsAccess, Id
<1>. QED BY <1>1 DEF OneHeir, Lineage, OneUnspent

\* FR-T3: the unused tokens of a family and the requests about to replace one are
\* never more than one together, whatever redemptions, replays, revocations and
\* failures do (token/code.ts, adapters' consume).
THEOREM OneHeirAlways == Spec => []OneHeir
BY LineageAlways, TypeCorrect, LineageGivesOneHeir, PTL

\* Two requests given tokens for one single-use token would both have won its consume.
LEMMA LineageGivesRedeemedOnce == TypeOK /\ Lineage => RedeemedOnce
<1> SUFFICES ASSUME TypeOK, Lineage, NEW r \in Redemptions, NEW q \in Redemptions,
                    r # q, red[r].token = red[q].token, Issuing(r), Issuing(q),
                    SingleUse(red[r].token, red[r].client)
             PROVE  FALSE
  BY DEF RedeemedOnce
<1>1. red[r].seen # None /\ red[q].seen # None
  BY KnowsType, ConstantsAssumption DEF TypeOK, Issuing, IssuingPc
<1>2. red[r].client = red[q].client
  BY <1>1 DEF Lineage, Agreed, Issuing, IssuingPc, RefusedPc
<1>. QED BY <1>2 DEF Lineage, Winners

\* FR-T3, FR-T4, NFR-S4: one code, and one rotating refresh token, is redeemed by
\* one request (token/code.ts).
THEOREM RedeemedOnceAlways == Spec => []RedeemedOnce
BY LineageAlways, TypeCorrect, LineageGivesRedeemedOnce, PTL
-----------------------------------------------------------------------------
(* What a revocation reaches and what a redemption may issue, from the lineage *)
(* of the tokens: the inductive invariant, which Lineage is a part of.         *)

\* Where a redemption has seen the grant stand, and where it has seen the sign-in too:
\* a refresh reads both before its consume, a code after it.
Signed(x) == IssuingPc \cup (IF IsRefresh(x.token) THEN {"consume", "insert"} ELSE {})
Loaded(x) == Signed(x) \cup {"session"}

\* What the request x noted of the grant and the session is still true of them, for a
\* consent and a session only shrink; and what it is granted comes from what it read.
Remembers(x) ==
  /\ x.revoked => x.seen.grant \notin grants
  /\ x.ended => ~SessionLive(x.seen.session)
  /\ consent[x.seen.grant] \subseteq x.consent
  /\ x.granted \cup x.scopes \subseteq x.seen.scopes
  /\ IsRefresh(x.token) => x.granted \cup x.scopes \subseteq x.consent
  /\ x.pc \in Loaded(x) => ~x.revoked
  /\ x.pc \in Signed(x) /\ x.ended => IsRefresh(x.token) /\ OfflineAccess \in x.seen.scopes
Remembered ==
  \A r \in Redemptions :
    /\ red[r].seen = None => red[r].granted = {} /\ red[r].scopes = {}
    /\ red[r].seen # None => Remembers(red[r])

\* A stored token is its request's: of the grant and within the scopes it read.
Sourced ==
  /\ \A a \in Authorizations : store[Code(a)] # None =>
       store[Code(a)].grant = auth[a].code.grant /\ store[Code(a)].scopes = auth[a].code.scopes
  /\ \A r \in Redemptions : \A i \in {Access(r), Refresh(r)} : store[i] # None =>
       store[i].grant = red[r].seen.grant /\ store[i].scopes \subseteq red[r].seen.scopes
  /\ \A r \in Redemptions : red[r].seen # None =>
       red[r].seen.scopes \subseteq auth[red[r].seen.family].code.scopes

\* The refresh tokens that are stored, or that somebody has read.
Records ==
  ({store[Refresh(q)] : q \in Redemptions} \cup {red[r].seen : r \in {q \in Redemptions : IsRefresh(red[q].token)}})
    \ {None}

\* A family has refresh tokens only once the request that spent its code has stored one,
\* and all carry the end that request set.
Spent(f) ==
  \E q \in Redemptions : /\ red[q].won /\ red[q].token = Code(f)
                         /\ red[q].pc \in {"indexRefresh", "issued", "failed"}
Ends ==
  /\ \A x \in Records : Spent(x.family)
  /\ \A x, y \in Records : x.family = y.family => x.familyEnd = y.familyEnd
  /\ \A q \in Redemptions : store[Refresh(q)] # None =>
       /\ store[Refresh(q)].expires <= store[Refresh(q)].familyEnd
       /\ OfflineAccess \notin store[Refresh(q)].scopes =>
            store[Refresh(q)].expires <= SessionEnd[store[Refresh(q)].session]

\* From addClient on the session knows the client, or has ended.
Listed ==
  \A r \in Redemptions :
    /\ red[r].pc \in IssuingPc \ {"addClient"} /\ red[r].seen.session \in sessions
    => red[r].client \in clients[red[r].seen.session]

\* On a kv store a token whose index key has been written keeps it while it is there.
HasKey(i) == store[i] # None => <<store[i].grant, i>> \in index
Indexed ==
  Backend = "kv" =>
    /\ \A a \in Authorizations : auth[a].pc = "issued" => HasKey(Code(a))
    /\ \A r \in Redemptions :
         /\ red[r].pc \in {"refresh", "indexRefresh", "issued"} => HasKey(Access(r))
         /\ red[r].pc = "issued" => HasKey(Refresh(r))

\* What a revokeByGrantId set out to remove is gone or among the keys it still has.
Reached ==
  \A p \in Redemptions \cup Revocations :
    /\ sweep[p].reach \subseteq Held
    /\ \A i \in sweep[p].reach : store[i] # None => i \in sweep[p].keys

IInv == TypeOK /\ Lineage /\ Remembered /\ Sourced /\ Ends /\ Listed /\ Indexed /\ Reached

-----------------------------------------------------------------------------
(* What a step does, in plain terms. *)

\* The request r keeps what it read and noted.
Keeps(r) ==
  /\ red'[r].client = red[r].client /\ red'[r].token = red[r].token
  /\ red'[r].seen = red[r].seen /\ red'[r].consent = red[r].consent
  /\ red'[r].revoked = red[r].revoked /\ red'[r].ended = red[r].ended
Same == UNCHANGED <<store, index, consumed, grants, consent, sessions, clients, now, auth, rev, sweep>>

Reads(r) ==
  /\ red[r].pc = "idle" /\ Same
  /\ \E i \in Id :
       /\ red'[r].token = i /\ red'[r].seen = store[i]
       /\ red'[r].consent = IF store[i] = None THEN {} ELSE consent[store[i].grant]
       /\ red'[r].revoked = (store[i] # None /\ store[i].grant \notin grants)
       /\ red'[r].ended = (store[i] # None /\ ~SessionLive(store[i].session))
       /\ red'[r].pc \in {"refused", "revoke"} \cup (IF IsCode(i) THEN {"consume"} ELSE {"grant"})
  /\ red'[r].granted = red[r].granted /\ red'[r].scopes = red[r].scopes /\ red'[r].won = red[r].won
Loads(r) ==
  /\ red[r].pc = "grant" /\ red'[r].pc = "session" /\ Same /\ Keeps(r)
  /\ red[r].seen.grant \in grants
  /\ red'[r].granted = IF IsCode(red[r].token) THEN red[r].seen.scopes
                       ELSE red[r].seen.scopes \cap consent[red[r].seen.grant]
  /\ red'[r].scopes = red[r].scopes /\ red'[r].won = red[r].won
Signs(r) ==
  /\ red[r].pc = "session" /\ red'[r].pc \in {"consume", "addClient"} /\ Same /\ Keeps(r)
  /\ SignedIn(r)
  /\ red'[r].granted = red[r].granted /\ red'[r].scopes \subseteq red[r].granted
  /\ red'[r].won = red[r].won
Goes(r) ==
  /\ Keeps(r) /\ red'[r].granted = red[r].granted /\ red'[r].scopes = red[r].scopes
  /\ red[r].won => red'[r].won
  /\ red[r].pc \notin {"idle", "refused", "issued", "failed"}
  /\ \/ red'[r].pc = "failed" /\ Same
     \/ red'[r].pc \in {"refused", "revoke"} /\ red[r].pc \in {"consume", "insert", "grant", "session"} /\ Same
     \/ red[r].pc = "consume" /\ red'[r].pc = "insert" /\ Same
     \/ /\ red[r].pc \in {"consume", "insert"} /\ red'[r].pc = AfterConsume(r)
        /\ ConsumeRow(r) \/ ConsumeInsert(r)
     \/ red[r].pc = "addClient" /\ red'[r].pc = "access" /\ AddClient(r)
     \/ red[r].pc = "access" /\ red'[r].pc \in {"indexAccess", "refresh"} /\ issueAccessToken(r)
     \/ red[r].pc = "indexAccess" /\ red'[r].pc = "refresh" /\ IndexAccess(r)
     \/ red[r].pc = "refresh" /\ red'[r].pc \in {"indexRefresh", "issued"} /\ issueRefreshToken(r)
     \/ red[r].pc = "refresh" /\ red'[r].pc = "issued" /\ KeepRefreshToken(r)
     \/ red[r].pc = "indexRefresh" /\ red'[r].pc = "issued" /\ IndexRefresh(r)
RequestStep(r) == Reads(r) \/ Loads(r) \/ Signs(r) \/ Goes(r)

\* A request that moves is alone to.
Only(r) == \A q \in Redemptions : q # r => red'[q] = red[q]

\* What Goto leaves alone.
LEMMA GotoFields ==
  ASSUME TypeOK, NEW r \in Redemptions, NEW pc, Goto(r, pc)
  PROVE  /\ red'[r].pc = pc /\ Keeps(r) /\ Only(r)
         /\ red'[r].granted = red[r].granted /\ red'[r].scopes = red[r].scopes
         /\ red'[r].won = red[r].won
<1>1. red[r] \in RedemptionState
  BY DEF TypeOK, RedemptionsOK
<1>2. red' = [red EXCEPT ![r] = [red[r] EXCEPT !.pc = pc]]
  BY DEF Goto
<1>3. red'[r] = [red[r] EXCEPT !.pc = pc] /\ Only(r)
  BY <1>2 DEF TypeOK, RedemptionsOK, Only
<1>. QED BY <1>1, <1>3 DEF RedemptionState, Keeps

\* Reading the artifact that is shown.
LEMMA FindReads ==
  ASSUME TypeOK, NEW r \in Redemptions, NEW i \in Id, NEW c \in Clients, NEW otherwise,
         Find(r, i, c, otherwise),
         otherwise \subseteq {"refused", "revoke"} \cup (IF IsCode(i) THEN {"consume"} ELSE {"grant"})
  PROVE  Reads(r) /\ Only(r)
<1>1. PICK pc \in AfterFind(i, c, otherwise) :
        red' = [red EXCEPT ![r] =
          [@ EXCEPT !.pc = pc, !.client = c, !.token = i, !.seen = store[i],
                    !.consent = IF store[i] = None THEN {} ELSE consent[store[i].grant],
                    !.revoked = store[i] # None /\ store[i].grant \notin grants,
                    !.ended = store[i] # None /\ ~SessionLive(store[i].session)]]
  BY DEF Find
<1> DEFINE consents == IF store[i] = None THEN {} ELSE consent[store[i].grant]
           revoked == store[i] # None /\ store[i].grant \notin grants
           ended == store[i] # None /\ ~SessionLive(store[i].session)
           new == [red[r] EXCEPT !.pc = pc, !.client = c, !.token = i, !.seen = store[i],
                    !.consent = consents, !.revoked = revoked, !.ended = ended]
<1>2. pc \in {"refused", "revoke"} \cup (IF IsCode(i) THEN {"consume"} ELSE {"grant"})
  BY <1>1 DEF AfterFind
<1>3. red' = [red EXCEPT ![r] = new]
  BY <1>1
<1>4. red[r] \in RedemptionState /\ red'[r] = new /\ Only(r)
  BY <1>3 DEF TypeOK, RedemptionsOK, Only
<1>5. red[r].pc = "idle" /\ Same
  BY DEF Find, Same
<1> HIDE DEF consents, revoked, ended
<1>6. /\ red'[r].pc = pc /\ red'[r].token = i /\ red'[r].seen = store[i] /\ red'[r].consent = consents
      /\ red'[r].granted = red[r].granted /\ red'[r].scopes = red[r].scopes /\ red'[r].won = red[r].won
  BY <1>4 DEF RedemptionState
<1>7. red'[r].revoked = revoked /\ red'[r].ended = ended
  BY <1>4, Zenon DEF RedemptionState
<1>. QED BY <1>2, <1>4, <1>5, <1>6, <1>7 DEF Reads, consents, revoked, ended

\* A consume that wins.
LEMMA ConsumeGoes ==
  ASSUME TypeOK, NEW r \in Redemptions, ConsumeRow(r) \/ ConsumeRead(r) \/ ConsumeInsert(r)
  PROVE  Goes(r) /\ Only(r)
<1>1. red[r] \in RedemptionState /\ red[r].pc \in {"consume", "insert"}
  BY DEF TypeOK, RedemptionsOK, ConsumeRow, ConsumeRead, ConsumeInsert
<1>2. CASE ConsumeRead(r)
  <2>1. PICK pc \in {"insert", "revoke"} : Goto(r, pc)
    BY <1>2 DEF ConsumeRead
  <2>2. red[r].pc = "consume" /\ Same
    BY <1>2 DEF ConsumeRead, Same
  <2>. QED BY <1>1, <2>1, <2>2, GotoFields DEF Goes
<1>3. CASE (ConsumeRow(r) \/ ConsumeInsert(r)) /\ Goto(r, "revoke") /\ UNCHANGED consumed
  <2>1. Same
    BY <1>3 DEF ConsumeRow, ConsumeInsert, Same
  <2>. QED BY <1>1, <1>3, <2>1, GotoFields DEF Goes
<1>4. CASE (ConsumeRow(r) \/ ConsumeInsert(r))
           /\ red' = [red EXCEPT ![r].won = TRUE, ![r].pc = AfterConsume(r)]
  <2> DEFINE x == [red[r] EXCEPT !.won = TRUE]
             pc == AfterConsume(r)
  <2>1. red'[r] = [x EXCEPT !.pc = pc] /\ Only(r)
    BY <1>1, <1>4 DEF TypeOK, RedemptionsOK, Only
  <2>2. x \in RedemptionState /\ x.won
    BY <1>1 DEF RedemptionState
  <2>3. /\ x.client = red[r].client /\ x.token = red[r].token /\ x.seen = red[r].seen
        /\ x.consent = red[r].consent /\ x.granted = red[r].granted /\ x.scopes = red[r].scopes
    BY <1>1 DEF RedemptionState
  <2>4. x.revoked = red[r].revoked /\ x.ended = red[r].ended
    BY <1>1, Zenon DEF RedemptionState
  <2> HIDE DEF x, pc
  <2>5. red'[r].pc = pc /\ red'[r].won
    BY <2>1, <2>2 DEF RedemptionState
  <2>6. Keeps(r) /\ red'[r].granted = red[r].granted /\ red'[r].scopes = red[r].scopes
    BY <2>1, <2>2, <2>3, <2>4 DEF RedemptionState, Keeps
  <2>. QED BY <1>1, <1>4, <2>1, <2>5, <2>6 DEF Goes, pc
<1>. QED BY <1>2, <1>3, <1>4 DEF ConsumeRow, ConsumeInsert

\* The two reads after which a request is granted scopes, and settles on those it issues.
LEMMA GrantLoads ==
  ASSUME TypeOK, NEW r \in Redemptions, LoadGrant(r)
  PROVE  (Loads(r) \/ Goes(r)) /\ Only(r)
<1> DEFINE scopes == IF IsCode(red[r].token) THEN red[r].seen.scopes
                     ELSE red[r].seen.scopes \cap consent[red[r].seen.grant]
<1>1. red[r] \in RedemptionState /\ red[r].pc = "grant" /\ Same
  BY DEF TypeOK, RedemptionsOK, LoadGrant, Same
<1>2. CASE Goto(r, "refused")
  BY <1>1, <1>2, GotoFields DEF Goes
<1>3. CASE red[r].seen.grant \in grants /\ red' = [red EXCEPT ![r].granted = scopes, ![r].pc = "session"]
  <2> DEFINE x == [red[r] EXCEPT !.granted = scopes]
  <2> HIDE DEF scopes
  <2>1. red'[r] = [x EXCEPT !.pc = "session"] /\ Only(r)
    BY <1>1, <1>3 DEF TypeOK, RedemptionsOK, Only
  <2>2. /\ x.client = red[r].client /\ x.token = red[r].token /\ x.seen = red[r].seen
        /\ x.consent = red[r].consent /\ x.granted = scopes /\ x.scopes = red[r].scopes
    BY <1>1 DEF RedemptionState
  <2>3. x.revoked = red[r].revoked /\ x.ended = red[r].ended /\ x.won = red[r].won
    BY <1>1, Zenon DEF RedemptionState
  <2>4. DOMAIN x = DOMAIN red[r] /\ x = [y \in DOMAIN red[r] |-> x[y]]
    BY <1>1 DEF RedemptionState
  <2>5. DOMAIN red[r] = {"pc", "client", "token", "seen", "granted", "scopes", "won", "consent", "revoked", "ended"}
    BY <1>1 DEF RedemptionState
  <2> HIDE DEF x
  <2>6. red'[r].pc = "session" /\ Keeps(r)
        /\ red'[r].granted = scopes /\ red'[r].scopes = red[r].scopes /\ red'[r].won = red[r].won
    BY <2>1, <2>2, <2>3, <2>4, <2>5 DEF Keeps
  <2>. QED BY <1>1, <1>3, <2>1, <2>6 DEF Loads, scopes
<1>. QED BY <1>2, <1>3 DEF LoadGrant

LEMMA SignInSigns ==
  ASSUME TypeOK, NEW r \in Redemptions, loadGrantAndSession(r) \/ loadGrantAndSignIn(r)
  PROVE  (Signs(r) \/ Goes(r)) /\ Only(r)
<1>1. red[r] \in RedemptionState /\ red[r].pc = "session" /\ Same
  BY DEF TypeOK, RedemptionsOK, loadGrantAndSession, loadGrantAndSignIn, Same
<1>2. CASE Goto(r, "refused")
  BY <1>1, <1>2, GotoFields DEF Goes
<1>3. ASSUME NEW pc \in {"consume", "addClient"}, NEW scopes \in SUBSET red[r].granted, SignedIn(r),
             red' = [red EXCEPT ![r].scopes = scopes, ![r].pc = pc]
      PROVE  Signs(r) /\ Only(r)
  <2> DEFINE x == [red[r] EXCEPT !.scopes = scopes]
  <2>1. red'[r] = [x EXCEPT !.pc = pc] /\ Only(r)
    BY <1>1, <1>3 DEF TypeOK, RedemptionsOK, Only
  <2>2. /\ x.client = red[r].client /\ x.token = red[r].token /\ x.seen = red[r].seen
        /\ x.consent = red[r].consent /\ x.granted = red[r].granted /\ x.scopes = scopes
    BY <1>1 DEF RedemptionState
  <2>3. x.revoked = red[r].revoked /\ x.ended = red[r].ended /\ x.won = red[r].won
    BY <1>1, Zenon DEF RedemptionState
  <2>4. DOMAIN x = DOMAIN red[r] /\ x = [y \in DOMAIN red[r] |-> x[y]]
    BY <1>1 DEF RedemptionState
  <2>5. DOMAIN red[r] = {"pc", "client", "token", "seen", "granted", "scopes", "won", "consent", "revoked", "ended"}
    BY <1>1 DEF RedemptionState
  <2> HIDE DEF x
  <2>6. red'[r].pc = pc /\ Keeps(r)
        /\ red'[r].granted = red[r].granted /\ red'[r].scopes = scopes /\ red'[r].won = red[r].won
    BY <2>1, <2>2, <2>3, <2>4, <2>5 DEF Keeps
  <2>. QED BY <1>1, <1>3, <2>1, <2>6 DEF Signs
<1>4. CASE /\ loadGrantAndSession(r) /\ SignedIn(r)
           /\ red' = [red EXCEPT ![r].scopes = red[r].granted, ![r].pc = "addClient"]
  BY <1>3, <1>4
<1>5. ASSUME loadGrantAndSignIn(r), SignedIn(r), NEW asked \in SUBSET red[r].granted,
             red' = [red EXCEPT
               ![r].scopes = IF asked = {} THEN red[r].granted ELSE asked,
               ![r].pc = IF red[r].client \in Rotating THEN "consume" ELSE "addClient"]
      PROVE  Signs(r) /\ Only(r)
  <2> DEFINE scopes == IF asked = {} THEN red[r].granted ELSE asked
             pc == IF red[r].client \in Rotating THEN "consume" ELSE "addClient"
  <2>1. scopes \in SUBSET red[r].granted /\ pc \in {"consume", "addClient"}
    OBVIOUS
  <2>2. red' = [red EXCEPT ![r].scopes = scopes, ![r].pc = pc]
    BY <1>5
  <2> HIDE DEF scopes, pc
  <2>. QED BY <1>3, <1>5, <2>1, <2>2
<1>. QED BY <1>2, <1>4, <1>5, Zenon DEF loadGrantAndSession, loadGrantAndSignIn

\* What leaves the token requests alone.
Elsewhere ==
  \/ \E a \in Authorizations : AuthorizationStep(a)
  \/ \E p \in Redemptions \cup Revocations : SweepStep(p)
  \/ \E v \in Revocations :
       \/ \E g \in Grants : RevokeConsent(v, g)
       \/ \E i \in Id, c \in Clients : RevokeToken(v, i, c)
       \/ DestroyGrant(v) \/ DestroyAccess(v) \/ FailRevocation(v)
  \/ \E s \in Sessions : EndSession(s)
  \/ \E g \in Grants, kept \in SUBSET Scopes : NarrowConsent(g, kept)
  \/ Tick
  \/ UNCHANGED vars

LEMMA ElsewhereKeeps == Elsewhere => red' = red
BY DEF Elsewhere, AuthorizationStep, Authorize, issueCode, IndexCode, SweepStep, DeleteRows, ScanKeys,
       DestroyKey, RevokeConsent, RevokeToken, DestroyGrant, DestroyAccess, FailRevocation, EndSession,
       NarrowConsent, Tick, vars

\* Every step is one request's, or leaves them all alone.
LEMMA RequestSteps ==
  ASSUME TypeOK, [Next]_vars
  PROVE  Elsewhere \/ \E r \in Redemptions : RequestStep(r) /\ Only(r)
<1>1. ASSUME NEW r \in Redemptions, NEW i \in Id, NEW c \in Clients, authorizationCodeGrant(r, i, c)
      PROVE  RequestStep(r) /\ Only(r)
  <2>1. IsCode(i) /\ Find(r, i, c, {"consume", "refused"})
    BY <1>1 DEF authorizationCodeGrant
  <2>. QED BY <2>1, FindReads DEF RequestStep
<1>2. ASSUME NEW r \in Redemptions, NEW i \in Id, NEW c \in Clients, refreshTokenGrant(r, i, c)
      PROVE  RequestStep(r) /\ Only(r)
  <2>1. ~IsCode(i) /\ Find(r, i, c, {"grant"})
    BY <1>2, Names DEF refreshTokenGrant, IsCode, IsRefresh
  <2>. QED BY <2>1, FindReads DEF RequestStep
<1>3. ASSUME NEW r \in Redemptions, ConsumeRow(r) \/ ConsumeRead(r) \/ ConsumeInsert(r)
      PROVE  RequestStep(r) /\ Only(r)
  BY <1>3, ConsumeGoes DEF RequestStep
<1>4. ASSUME NEW r \in Redemptions, LoadGrant(r) PROVE RequestStep(r) /\ Only(r)
  BY <1>4, GrantLoads DEF RequestStep
<1>5. ASSUME NEW r \in Redemptions, loadGrantAndSession(r) \/ loadGrantAndSignIn(r)
      PROVE  RequestStep(r) /\ Only(r)
  BY <1>5, SignInSigns DEF RequestStep
<1>6. ASSUME NEW r \in Redemptions,
             AddClient(r) \/ issueAccessToken(r) \/ IndexAccess(r) \/ issueRefreshToken(r)
               \/ KeepRefreshToken(r) \/ IndexRefresh(r)
      PROVE  RequestStep(r) /\ Only(r)
  <2>1. CASE AddClient(r)
    BY <2>1, GotoFields DEF AddClient, RequestStep, Goes
  <2>2. CASE issueAccessToken(r)
    <3>1. PICK pc \in {"indexAccess", "refresh"} : Goto(r, pc)
      BY <2>2 DEF issueAccessToken
    <3>2. red[r].pc = "access"
      BY <2>2 DEF issueAccessToken
    <3>. QED BY <2>2, <3>1, <3>2, GotoFields DEF RequestStep, Goes
  <2>3. CASE IndexAccess(r)
    BY <2>3, GotoFields DEF IndexAccess, RequestStep, Goes
  <2>4. CASE issueRefreshToken(r)
    <3>1. PICK pc \in {"indexRefresh", "issued"} : Goto(r, pc)
      BY <2>4 DEF issueRefreshToken
    <3>2. red[r].pc = "refresh"
      BY <2>4 DEF issueRefreshToken
    <3>. QED BY <2>4, <3>1, <3>2, GotoFields DEF RequestStep, Goes
  <2>5. CASE KeepRefreshToken(r)
    BY <2>5, GotoFields DEF KeepRefreshToken, RequestStep, Goes
  <2>6. CASE IndexRefresh(r)
    BY <2>6, GotoFields DEF IndexRefresh, RequestStep, Goes
  <2>. QED BY <1>6, <2>1, <2>2, <2>3, <2>4, <2>5, <2>6
<1>7. ASSUME NEW r \in Redemptions, Fail(r) PROVE RequestStep(r) /\ Only(r)
  <2>1. Same /\ Goto(r, "failed") /\ red[r].pc \notin {"idle", "refused", "issued", "failed"}
    BY <1>7 DEF Fail, Same
  <2>. QED BY <2>1, GotoFields DEF RequestStep, Goes
<1>8. [Next]_vars =>
        \/ Elsewhere
        \/ \E r \in Redemptions :
             \/ \E i \in Id, c \in Clients : authorizationCodeGrant(r, i, c) \/ refreshTokenGrant(r, i, c)
             \/ RedemptionStep(r) \/ Fail(r)
  BY Zenon DEF Next, Elsewhere
<1>. QED BY <1>1, <1>2, <1>3, <1>4, <1>5, <1>6, <1>7, <1>8 DEF RedemptionStep

\* Grants, consents and sessions are only taken away, a session that stays keeps its clients, and
\* time passes.
Wanes ==
  /\ grants' \subseteq grants /\ sessions' \subseteq sessions /\ now' >= now
  /\ \A g \in Grants : consent'[g] \subseteq consent[g]
  /\ \A s \in sessions' : clients[s] \subseteq clients'[s]

LEMMA WorldWanes ==
  ASSUME TypeOK, [Next]_vars
  PROVE  Wanes
<1>1. now \in Nat /\ now >= now
  BY ClockIsNat DEF TypeOK
<1> DEFINE Still == UNCHANGED <<grants, consent, sessions, clients, now>>
<1>2. Still => Wanes
  BY <1>1 DEF Wanes
<1>3. ASSUME NEW r \in Redemptions, RequestStep(r)
      PROVE  Still \/ AddClient(r)
  BY <1>3 DEF RequestStep, Reads, Loads, Signs, Goes, Same, ConsumeRow, ConsumeInsert, issueAccessToken,
              IndexAccess, issueRefreshToken, KeepRefreshToken, IndexRefresh
<1>4. ASSUME NEW r \in Redemptions, AddClient(r) PROVE Wanes
  BY <1>1, <1>4 DEF AddClient, Wanes, TypeOK, StoreOK
<1>5. ASSUME Elsewhere
      PROVE  \/ Still \/ Tick
             \/ \E v \in Revocations : DestroyGrant(v)
             \/ \E s \in Sessions : EndSession(s)
             \/ \E g \in Grants, kept \in SUBSET Scopes : NarrowConsent(g, kept)
  BY <1>5 , ZenonT(30) DEF Elsewhere, AuthorizationStep, Authorize, issueCode, IndexCode, SweepStep, DeleteRows,
              ScanKeys, DestroyKey, RevokeConsent, RevokeToken, DestroyAccess, FailRevocation, vars
<1>6. CASE Tick
  BY <1>1, <1>6 DEF Tick, Wanes
<1>7. ASSUME NEW v \in Revocations, DestroyGrant(v) PROVE Wanes
  BY <1>1, <1>7 DEF DestroyGrant, Wanes, TypeOK, StoreOK
<1>8. ASSUME NEW s \in Sessions, EndSession(s) PROVE Wanes
  BY <1>1, <1>8 DEF EndSession, Wanes, TypeOK, StoreOK
<1>9. ASSUME NEW g \in Grants, NEW kept \in SUBSET Scopes, NarrowConsent(g, kept) PROVE Wanes
  BY <1>1, <1>9 DEF NarrowConsent, Wanes, TypeOK, StoreOK
<1>. QED BY <1>2, <1>3, <1>4, <1>5, <1>6, <1>7, <1>8, <1>9, RequestSteps

\* An authorization request moves on with its code.
AuthStep(a) ==
  \/ auth'[a] = auth[a]
  \/ auth[a].pc = "idle" /\ auth'[a].pc = "store" /\ store' = store
  \/ auth[a].pc = "store" /\ auth'[a].code = auth[a].code /\ issueCode(a)
       /\ auth'[a].pc = IF Backend = "kv" THEN "index" ELSE "issued"
  \/ auth[a].pc = "index" /\ auth'[a].code = auth[a].code /\ IndexCode(a) /\ auth'[a].pc = "issued"

LEMMA AuthSteps ==
  ASSUME TypeOK, [Next]_vars
  PROVE  \A a \in Authorizations : AuthStep(a)
<1>1. auth \in [Authorizations -> AuthorizationState]
  BY DEF TypeOK, AuthorizationsOK
<1>2. auth' = auth => \A a \in Authorizations : AuthStep(a)
  BY DEF AuthStep
<1>3. ASSUME NEW r \in Redemptions, RequestStep(r) PROVE auth' = auth
  BY <1>3 DEF RequestStep, Reads, Loads, Signs, Goes, Same, ConsumeRow, ConsumeInsert, issueAccessToken,
              IndexAccess, issueRefreshToken, KeepRefreshToken, IndexRefresh, AddClient
<1>4. ASSUME NEW b \in Authorizations, NEW s \in Sessions, NEW g \in Grants, NEW asked \in SUBSET Scopes,
             Authorize(b, s, g, asked)
      PROVE  \A a \in Authorizations : AuthStep(a)
  BY <1>1, <1>4 DEF Authorize, AuthStep
<1>5. ASSUME NEW b \in Authorizations, issueCode(b) PROVE \A a \in Authorizations : AuthStep(a)
  <2>1. auth'[b] = [auth[b] EXCEPT !.pc = IF Backend = "kv" THEN "index" ELSE "issued"]
        /\ \A a \in Authorizations : a # b => auth'[a] = auth[a]
    BY <1>1, <1>5 DEF issueCode
  <2>2. auth'[b].code = auth[b].code /\ auth'[b].pc = IF Backend = "kv" THEN "index" ELSE "issued"
    BY <1>1, <2>1 DEF AuthorizationState
  <2>. QED BY <1>5, <2>1, <2>2 DEF AuthStep, issueCode
<1>6. ASSUME NEW b \in Authorizations, IndexCode(b) PROVE \A a \in Authorizations : AuthStep(a)
  <2>1. auth'[b] = [auth[b] EXCEPT !.pc = "issued"]
        /\ \A a \in Authorizations : a # b => auth'[a] = auth[a]
    BY <1>1, <1>6 DEF IndexCode
  <2>2. auth'[b].code = auth[b].code /\ auth'[b].pc = "issued"
    BY <1>1, <2>1 DEF AuthorizationState
  <2>. QED BY <1>6, <2>1, <2>2 DEF AuthStep, IndexCode
<1>7. ASSUME Elsewhere PROVE auth' = auth \/ \E b \in Authorizations : AuthorizationStep(b)
  BY <1>7 DEF Elsewhere, SweepStep, DeleteRows, ScanKeys, DestroyKey, RevokeConsent, RevokeToken,
              DestroyGrant, DestroyAccess, FailRevocation, EndSession, NarrowConsent, Tick, vars
<1>. QED BY <1>2, <1>3, <1>4, <1>5, <1>6, <1>7, RequestSteps DEF AuthorizationStep

\* A token is stored by its own request, and otherwise only taken away.
StoreStep(i) ==
  \/ store'[i] \in {store[i], None}
  \/ \E a \in Authorizations :
       i = Code(a) /\ issueCode(a) /\ store'[i] = [auth[a].code EXCEPT !.expires = now + CodeTtl]
  \/ \E r \in Redemptions :
       \/ i = Access(r) /\ issueAccessToken(r) /\ store'[i] = Issued(r, red[r].scopes, now + AccessTtl, 0)
       \/ i = Refresh(r) /\ issueRefreshToken(r)
            /\ store'[i] = Issued(r, red[r].granted, RefreshExpiry(r), FamilyEnd(r))

LEMMA StoreSteps ==
  ASSUME TypeOK, [Next]_vars
  PROVE  \A i \in Id : StoreStep(i)
<1>1. store \in [Id -> Artifact \cup {None}]
  BY DEF TypeOK, StoreOK
<1>2. store' = store => \A i \in Id : StoreStep(i)
  BY DEF StoreStep
<1>3. ASSUME NEW r \in Redemptions, RequestStep(r)
      PROVE  store' = store \/ issueAccessToken(r) \/ issueRefreshToken(r)
  BY <1>3 DEF RequestStep, Reads, Loads, Signs, Goes, Same, ConsumeRow, ConsumeInsert,
              IndexAccess, KeepRefreshToken, IndexRefresh, AddClient
<1>4. ASSUME NEW r \in Redemptions, issueAccessToken(r) PROVE \A i \in Id : StoreStep(i)
  <2>1. \A i \in Id : store'[i] = IF i = Access(r) THEN Issued(r, red[r].scopes, now + AccessTtl, 0) ELSE store[i]
    BY <1>1, <1>4 DEF issueAccessToken, Upsert
  <2>. QED BY <1>4, <2>1 DEF StoreStep
<1>5. ASSUME NEW r \in Redemptions, issueRefreshToken(r) PROVE \A i \in Id : StoreStep(i)
  <2>1. \A i \in Id : store'[i] = IF i = Refresh(r) THEN Issued(r, red[r].granted, RefreshExpiry(r), FamilyEnd(r))
                                   ELSE store[i]
    BY <1>1, <1>5 DEF issueRefreshToken, Upsert
  <2>. QED BY <1>5, <2>1 DEF StoreStep
<1>6. ASSUME NEW a \in Authorizations, issueCode(a) PROVE \A i \in Id : StoreStep(i)
  <2>1. \A i \in Id : store'[i] = IF i = Code(a) THEN [auth[a].code EXCEPT !.expires = now + CodeTtl] ELSE store[i]
    BY <1>1, <1>6 DEF issueCode, Upsert
  <2>. QED BY <1>6, <2>1 DEF StoreStep
<1>7. ASSUME NEW p \in Redemptions \cup Revocations, SweepStep(p) PROVE \A i \in Id : StoreStep(i)
  BY <1>1, <1>7 DEF SweepStep, DeleteRows, DeleteGrantRows, ScanKeys, DestroyKey, StoreStep
<1>8. ASSUME NEW v \in Revocations, DestroyAccess(v) PROVE \A i \in Id : StoreStep(i)
  BY <1>1, <1>8 DEF DestroyAccess, StoreStep
<1>9. ASSUME Elsewhere
      PROVE  \/ store' = store
             \/ \E a \in Authorizations : issueCode(a)
             \/ \E p \in Redemptions \cup Revocations : SweepStep(p)
             \/ \E v \in Revocations : DestroyAccess(v)
  BY <1>9 DEF Elsewhere, AuthorizationStep, Authorize, IndexCode, RevokeConsent, RevokeToken,
              DestroyGrant, FailRevocation, EndSession, NarrowConsent, Tick, vars
<1>. QED BY <1>2, <1>3, <1>4, <1>5, <1>6, <1>7, <1>8, <1>9, RequestSteps

\* What a request that has read something keeps, and what the store has of its own tokens.
LEMMA SeenStays ==
  ASSUME TypeOK, Lineage, [Next]_vars, NEW r \in Redemptions
  PROVE  \/ Reads(r) /\ red[r].seen = None /\ store'[Access(r)] = None /\ store'[Refresh(r)] = None
         \/ ~Reads(r) /\ Keeps(r)
<1>1. Reads(r) \/ Keeps(r)
  BY RequestSteps, ElsewhereKeeps DEF RequestStep, Only, Loads, Signs, Goes, Keeps
<1>2. ASSUME Reads(r) PROVE red[r].seen = None /\ store'[Access(r)] = None /\ store'[Refresh(r)] = None
  BY <1>2, ZenonT(30) DEF Reads, Same, Lineage, Presented, Descent
<1>. QED BY <1>1, <1>2

-----------------------------------------------------------------------------
(* What a request noted of the world when it came. *)

LEMMA RememberedInit == Init => Remembered
BY DEF Init, Remembered

\* What has been read names a grant, a session and a family.
LEMMA SeenTyped ==
  ASSUME TypeOK, NEW r \in Redemptions, red[r].seen # None
  PROVE  /\ red[r] \in RedemptionState /\ red[r].seen \in Artifact
         /\ red[r].seen.grant \in Grants /\ red[r].seen.session \in Sessions
         /\ red[r].seen.family \in Authorizations /\ red[r].seen.scopes \in SUBSET Scopes
BY DEF TypeOK, RedemptionsOK, RedemptionState, Artifact

\* An ended session stays ended.
LEMMA EndedStays ==
  ASSUME TypeOK, TypeOK', Wanes, NEW s \in Sessions, s \in sessions', SessionEnd[s] > now'
  PROVE  SessionLive(s)
<1>1. now \in Nat /\ now' \in Nat /\ SessionEnd[s] \in Nat
  BY ClockIsNat, TtlAssumption DEF TypeOK, StoreOK
<1>. QED BY <1>1 DEF SessionLive, Wanes

LEMMA RememberedNext ==
  ASSUME TypeOK, TypeOK', Lineage, Remembered, [Next]_vars
  PROVE  Remembered'
<1>1. Wanes
  BY WorldWanes
<1>2. ASSUME NEW r \in Redemptions, red[r].seen # None, Keeps(r)
      PROVE  /\ red'[r].revoked => red'[r].seen.grant \notin grants'
             /\ red'[r].ended => ~(red'[r].seen.session \in sessions' /\ SessionEnd[red'[r].seen.session] > now')
             /\ consent'[red'[r].seen.grant] \subseteq red'[r].consent
  <2> DEFINE seen == red[r].seen
  <2>1. /\ red[r].revoked => seen.grant \notin grants
        /\ red[r].ended => ~SessionLive(seen.session)
        /\ consent[seen.grant] \subseteq red[r].consent
    BY <1>2 DEF Remembered, Remembers
  <2>2. seen.grant \in Grants /\ seen.session \in Sessions
    BY <1>2, SeenTyped
  <2>3. red'[r].seen = seen
    BY <1>2 DEF Keeps
  <2> HIDE DEF seen
  <2>4. seen.session \in sessions' /\ SessionEnd[seen.session] > now' => SessionLive(seen.session)
    BY <1>1, <2>2, EndedStays DEF SessionLive
  <2>. QED BY <1>1, <1>2, <2>1, <2>2, <2>3, <2>4 DEF Wanes, Keeps
<1>3. ASSUME NEW r \in Redemptions, red[r].seen # None, red'[r] = red[r] PROVE Remembers(red[r])'
  <2>1. Keeps(r) /\ Remembers(red[r])
    BY <1>3 DEF Keeps, Remembered
  <2>2. Signed(red'[r]) = Signed(red[r]) /\ Loaded(red'[r]) = Loaded(red[r])
    BY <1>3
  <2>. QED BY <1>2, <1>3, <2>1, <2>2 DEF Remembers, SessionLive
<1>4. ASSUME NEW r \in Redemptions, Reads(r), red'[r].seen # None PROVE Remembers(red[r])'
  <2>1. red[r].seen = None /\ red[r].granted = {} /\ red[r].scopes = {}
    BY <1>4 DEF Reads, Lineage, Presented, Remembered
  <2>2. PICK i \in Id :
          /\ red'[r].token = i /\ red'[r].seen = store[i]
          /\ red'[r].consent = IF store[i] = None THEN {} ELSE consent[store[i].grant]
          /\ red'[r].revoked = (store[i] # None /\ store[i].grant \notin grants)
          /\ red'[r].ended = (store[i] # None /\ ~SessionLive(store[i].session))
          /\ red'[r].pc \in {"refused", "revoke"} \cup (IF IsCode(i) THEN {"consume"} ELSE {"grant"})
    BY <1>4 DEF Reads
  <2>3. UNCHANGED <<grants, consent, sessions, now>>
    BY <1>4 DEF Reads, Same
  <2>4. red'[r].pc \notin Loaded(red'[r])
    BY <2>2, Names DEF Loaded, Signed, IssuingPc, IsCode, IsRefresh
  <2>5. red'[r].granted = {} /\ red'[r].scopes = {}
    BY <1>4, <2>1 DEF Reads
  <2>. QED BY <1>4, <2>2, <2>3, <2>4, <2>5 DEF Remembers, Loaded, SessionLive
<1>5. ASSUME NEW r \in Redemptions, Loads(r) PROVE Remembers(red[r])'
  <2>1. red[r].seen # None
    BY <1>5, KnowsType, ConstantsAssumption DEF Loads, TypeOK
  <2>2. Keeps(r) /\ Remembers(red[r])
    BY <1>5, <2>1 DEF Loads, Remembered
  <2>3. red'[r].pc \notin Signed(red'[r])
    BY <1>5 DEF Loads, Signed, IssuingPc
  <2>4. ~red'[r].revoked
    BY <1>5, <2>2 DEF Loads, Remembers, Keeps
  <2>5. /\ red'[r].granted \cup red'[r].scopes \subseteq red'[r].seen.scopes
        /\ IsRefresh(red'[r].token) => red'[r].granted \cup red'[r].scopes \subseteq red'[r].consent
    BY <1>5, <2>2, Names DEF Loads, Remembers, Keeps, IsCode, IsRefresh
  <2>. QED BY <1>2, <1>5, <2>1, <2>2, <2>3, <2>4, <2>5 DEF Remembers, SessionLive, Loaded
<1>6. ASSUME NEW r \in Redemptions, Signs(r) PROVE Remembers(red[r])'
  <2>1. red[r].seen # None
    BY <1>6, KnowsType, ConstantsAssumption DEF Signs, TypeOK
  <2>2. Keeps(r) /\ Remembers(red[r]) /\ red[r].pc \in Loaded(red[r])
    BY <1>6, <2>1 DEF Signs, Remembered, Loaded
  <2>3. ~red'[r].revoked
    BY <2>2 DEF Remembers, Keeps
  <2>4. red'[r].ended => IsRefresh(red'[r].token) /\ OfflineAccess \in red'[r].seen.scopes
    BY <1>6, <2>2 DEF Remembers, Keeps, Signs, SignedIn
  <2>5. /\ red'[r].granted \cup red'[r].scopes \subseteq red'[r].seen.scopes
        /\ IsRefresh(red'[r].token) => red'[r].granted \cup red'[r].scopes \subseteq red'[r].consent
    BY <1>6, <2>2 DEF Signs, Remembers, Keeps
  <2>. QED BY <1>2, <2>1, <2>2, <2>3, <2>4, <2>5 DEF Remembers, SessionLive
<1>7. ASSUME NEW r \in Redemptions, Goes(r) PROVE Remembers(red[r])'
  <2>1. red[r].seen # None
    BY <1>7, KnowsType, ConstantsAssumption DEF Goes, TypeOK
  <2>2. Keeps(r) /\ Remembers(red[r])
    BY <1>7, <2>1 DEF Goes, Remembered
  <2>3. red'[r].pc \in Signed(red'[r]) => red[r].pc \in Signed(red[r])
    <3>1. red'[r].token = red[r].token
      BY <2>2 DEF Keeps
    <3>2. CASE red[r].pc \in {"consume", "insert"} /\ red'[r].pc = AfterConsume(r)
      <4>1. ~IsCode(red[r].token) => IsRefresh(red[r].token)
        <5>1. \/ \E a \in Authorizations : red[r].token = Code(a)
              \/ \E q \in Redemptions : red[r].token = Refresh(q)
          BY <2>1 DEF Lineage, Presented
        <5>. QED BY <5>1 DEF IsCode, IsRefresh
      <4>. QED BY <3>1, <3>2, <4>1 DEF AfterConsume, Signed, IssuingPc
    <3>3. CASE red[r].pc = "consume" /\ red'[r].pc = "insert"
      BY <3>1, <3>3 DEF Signed, IssuingPc
    <3>. QED BY <1>7, <3>1, <3>2, <3>3 DEF Goes, Signed, IssuingPc
  <2>4. red'[r].pc # "session"
    BY <1>7 DEF Goes, AfterConsume
  <2>5. red'[r].pc \in Loaded(red'[r]) => red[r].pc \in Loaded(red[r])
    BY <2>3, <2>4 DEF Loaded
  <2>6. /\ red'[r].granted \cup red'[r].scopes \subseteq red'[r].seen.scopes
        /\ IsRefresh(red'[r].token) => red'[r].granted \cup red'[r].scopes \subseteq red'[r].consent
    BY <1>7, <2>2 DEF Goes, Remembers, Keeps
  <2>7. /\ red'[r].pc \in Loaded(red'[r]) => ~red'[r].revoked
        /\ red'[r].pc \in Signed(red'[r]) /\ red'[r].ended
             => IsRefresh(red'[r].token) /\ OfflineAccess \in red'[r].seen.scopes
    BY <2>2, <2>3, <2>5 DEF Remembers, Keeps
  <2>. QED BY <1>2, <2>1, <2>2, <2>6, <2>7 DEF Remembers, SessionLive
<1>8. ASSUME NEW r \in Redemptions, red'[r].seen = None
      PROVE  red'[r].granted = {} /\ red'[r].scopes = {}
  <2>1. CASE red'[r] = red[r]
    BY <1>8, <2>1 DEF Remembered
  <2>2. CASE Reads(r)
    BY <2>2 DEF Reads, Lineage, Presented, Remembered
  <2>3. CASE Loads(r) \/ Signs(r) \/ Goes(r)
    BY <1>8, <2>3, KnowsType, ConstantsAssumption DEF Loads, Signs, Goes, Keeps, TypeOK
  <2>. QED BY <2>1, <2>2, <2>3, RequestSteps, ElsewhereKeeps DEF RequestStep, Only
<1>9. ASSUME NEW r \in Redemptions, red'[r].seen # None PROVE Remembers(red[r])'
  <2>1. CASE red'[r] = red[r]
    BY <1>3, <1>9, <2>1
  <2>2. CASE RequestStep(r)
    BY <1>4, <1>5, <1>6, <1>7, <1>9, <2>2 DEF RequestStep
  <2>. QED BY <2>1, <2>2, RequestSteps, ElsewhereKeeps DEF Only
<1>. QED BY <1>8, <1>9 DEF Remembered

-----------------------------------------------------------------------------
(* Where a stored token comes from. *)

LEMMA SourcedInit == Init => Sourced
BY Ids DEF Init, Sourced

LEMMA SourcedNext ==
  ASSUME TypeOK, Lineage, Remembered, Sourced, [Next]_vars
  PROVE  Sourced'
<1>1. ASSUME NEW a \in Authorizations, store'[Code(a)] # None
      PROVE  store'[Code(a)].grant = auth'[a].code.grant /\ store'[Code(a)].scopes = auth'[a].code.scopes
  <2>1. StoreStep(Code(a)) /\ AuthStep(a)
    BY StoreSteps, AuthSteps, Ids
  <2>2. CASE issueCode(a) /\ store'[Code(a)] = [auth[a].code EXCEPT !.expires = now + CodeTtl]
    <3>1. auth'[a].code = auth[a].code /\ auth[a].code \in Artifact
      BY <2>1, <2>2 DEF AuthStep, issueCode, TypeOK, AuthorizationsOK
    <3>. QED BY <2>2, <3>1 DEF Artifact
  <2>3. CASE store'[Code(a)] = store[Code(a)]
    <3>1. auth[a].pc \in {"index", "issued"}
      BY <1>1, <2>3 DEF Lineage, Descent
    <3>2. auth'[a].code = auth[a].code
      BY <2>1, <3>1 DEF AuthStep
    <3>. QED BY <1>1, <2>3, <3>2 DEF Sourced
  <2>. QED BY <1>1, <2>1, <2>2, <2>3, Names DEF StoreStep
<1>2. ASSUME NEW r \in Redemptions, NEW i \in {Access(r), Refresh(r)}, store'[i] # None
      PROVE  store'[i].grant = red'[r].seen.grant /\ store'[i].scopes \subseteq red'[r].seen.scopes
  <2>1. StoreStep(i) /\ i \in Id
    BY StoreSteps, Ids
  <2>2. Keeps(r)
    BY <1>2, SeenStays
  <2>3. CASE store'[i] = store[i]
    BY <1>2, <2>2, <2>3 DEF Sourced, Keeps
  <2>4. ASSUME NEW scopes, NEW expires, NEW end, scopes \subseteq red[r].seen.scopes,
               store'[i] = Issued(r, scopes, expires, end)
        PROVE  store'[i].grant = red'[r].seen.grant /\ store'[i].scopes \subseteq red'[r].seen.scopes
    BY <2>2, <2>4 DEF Issued, Keeps
  <2>5. red[r].pc \notin {"idle", "refused"} =>
          red[r].scopes \subseteq red[r].seen.scopes /\ red[r].granted \subseteq red[r].seen.scopes
    BY KnowsType, ConstantsAssumption DEF TypeOK, Remembered, Remembers
  <2>6. CASE issueAccessToken(r) /\ store'[i] = Issued(r, red[r].scopes, now + AccessTtl, 0)
    BY <2>4, <2>5, <2>6 DEF issueAccessToken
  <2>7. CASE issueRefreshToken(r) /\ store'[i] = Issued(r, red[r].granted, RefreshExpiry(r), FamilyEnd(r))
    BY <2>4, <2>5, <2>7 DEF issueRefreshToken
  <2>. QED BY <1>2, <2>1, <2>3, <2>6, <2>7, Names DEF StoreStep
<1>3. ASSUME NEW r \in Redemptions, red'[r].seen # None
      PROVE  red'[r].seen.scopes \subseteq auth'[red'[r].seen.family].code.scopes
  <2>1. CASE ~Reads(r)
    <3>1. red'[r].seen = red[r].seen /\ red[r].seen # None
      BY <1>3, <2>1, SeenStays DEF Keeps
    <3>2. red[r].seen.family \in Authorizations /\ auth[red[r].seen.family].pc \in {"index", "issued"}
      BY <3>1, SeenTyped DEF Lineage, Descent
    <3>3. auth'[red[r].seen.family].code = auth[red[r].seen.family].code
      BY <3>2, AuthSteps DEF AuthStep
    <3>. QED BY <3>1, <3>3 DEF Sourced
  <2>2. CASE Reads(r)
    <3>1. PICK i \in Id : red'[r].token = i /\ red'[r].seen = store[i]
      BY <2>2 DEF Reads
    <3>2. auth' = auth
      BY <2>2 DEF Reads, Same
    <3>3. CASE \E a \in Authorizations : i = Code(a)
      BY <1>3, <3>1, <3>2, <3>3 DEF Sourced, Lineage, Descent
    <3>4. ASSUME NEW q \in Redemptions, i \in {Access(q), Refresh(q)}
          PROVE  store[i].scopes \subseteq auth[store[i].family].code.scopes
      <4>1. red[q].seen # None /\ store[i].family = red[q].seen.family
        BY <1>3, <3>1, <3>4 DEF Lineage, Descent
      <4>. QED BY <1>3, <3>1, <3>4, <4>1 DEF Sourced
    <3>. QED BY <3>1, <3>2, <3>3, <3>4 DEF Id
  <2>. QED BY <2>1, <2>2
<1>. QED BY <1>1, <1>2, <1>3 DEF Sourced

-----------------------------------------------------------------------------
(* The end of a family. *)

LEMMA EndsInit == Init => Ends
<1> SUFFICES ASSUME Init PROVE Ends
  OBVIOUS
<1>1. \A q \in Redemptions : store[Refresh(q)] = None /\ red[q].seen = None
  BY Ids DEF Init
<1>2. Records = {}
  BY <1>1 DEF Records
<1>. QED BY <1>1, <1>2 DEF Ends

\* What issueRefreshToken stores.
Minted(r) == Issued(r, red[r].granted, RefreshExpiry(r), FamilyEnd(r))

\* Refresh tokens come from issueRefreshToken alone.
LEMMA RecordsOld ==
  ASSUME TypeOK, Lineage, [Next]_vars, NEW x \in Records'
  PROVE  x \in Records \/ \E r \in Redemptions : issueRefreshToken(r) /\ x = Minted(r)
<1>1. x # None
  BY DEF Records
<1>2. ASSUME NEW q \in Redemptions, x = store'[Refresh(q)]
      PROVE  x \in Records \/ \E r \in Redemptions : issueRefreshToken(r) /\ x = Minted(r)
  <2>1. StoreStep(Refresh(q))
    BY StoreSteps, Ids
  <2>. QED BY <1>1, <1>2, <2>1, Names DEF StoreStep, Records, Minted
<1>3. ASSUME NEW q \in Redemptions, IsRefresh(red'[q].token), x = red'[q].seen
      PROVE  x \in Records
  <2>1. CASE Reads(q)
    <3>1. PICK i \in Id : red'[q].token = i /\ red'[q].seen = store[i]
      BY <2>1 DEF Reads
    <3>. QED BY <1>1, <1>3, <3>1 DEF Records, IsRefresh
  <2>2. CASE Keeps(q)
    BY <1>1, <1>3, <2>2 DEF Records, Keeps
  <2>. QED BY <2>1, <2>2, SeenStays
<1>4. \/ \E q \in Redemptions : x = store'[Refresh(q)]
      \/ \E q \in Redemptions : IsRefresh(red'[q].token) /\ x = red'[q].seen
  BY DEF Records
<1>. QED BY <1>2, <1>3, <1>4

\* Only one request moves in a step.
LEMMA MintsAlone ==
  ASSUME TypeOK, [Next]_vars, NEW r \in Redemptions, NEW q \in Redemptions,
         issueRefreshToken(r), issueRefreshToken(q)
  PROVE  r = q
<1>1. red[r].pc = "refresh" /\ red'[r].pc # "refresh"
  BY GotoFields DEF issueRefreshToken
<1>2. red[q].pc = "refresh" /\ red'[q].pc # "refresh"
  BY GotoFields DEF issueRefreshToken
<1>3. PICK s \in Redemptions : Only(s)
  BY <1>1, RequestSteps, ElsewhereKeeps
<1>. QED BY <1>1, <1>2, <1>3 DEF Only

LEMMA SpentStays ==
  ASSUME TypeOK, Lineage, [Next]_vars, NEW f \in Authorizations, Spent(f)
  PROVE  Spent(f)'
<1>1. PICK q \in Redemptions : /\ red[q].won /\ red[q].token = Code(f)
                               /\ red[q].pc \in {"indexRefresh", "issued", "failed"}
  BY DEF Spent
<1>2. CASE red'[q] = red[q]
  BY <1>1, <1>2 DEF Spent
<1>3. CASE RequestStep(q)
  <2>1. Goes(q)
    BY <1>1, <1>3 DEF RequestStep, Reads, Loads, Signs
  <2>2. red'[q].pc \in {"issued", "failed"} /\ red'[q].won /\ red'[q].token = Code(f)
    BY <1>1, <2>1 DEF Goes, Keeps
  <2>. QED BY <2>2 DEF Spent
<1>. QED BY <1>2, <1>3, RequestSteps, ElsewhereKeeps DEF Only

\* The family of what a request mints, and that nobody else had a refresh token of it if it
\* spends the code.
LEMMA MintedFamily ==
  ASSUME TypeOK, Lineage, Ends, [Next]_vars, NEW r \in Redemptions, issueRefreshToken(r),
         NEW x, x = Minted(r)
  PROVE  /\ Spent(x.family)'
         /\ \A y \in Records : y.family = x.family => y.familyEnd = x.familyEnd
<1> SUFFICES ASSUME NEW f, f = red[r].seen.family
             PROVE  /\ Spent(x.family)'
                    /\ \A y \in Records : y.family = x.family => y.familyEnd = x.familyEnd
  OBVIOUS
<1>1. red[r].pc = "refresh" /\ red[r].seen # None /\ f \in Authorizations
  BY KnowsType, ConstantsAssumption DEF issueRefreshToken, TypeOK, Artifact
<1>2. x.family = f /\ x.familyEnd = FamilyEnd(r)
  BY DEF Minted, Issued
<1>3. CASE IsCode(red[r].token)
  <2>1. red[r].token = Code(f)
    BY <1>1, <1>3, Names DEF Lineage, Descent, FamilyIs, IsCode
  <2>2. red[r].won
    BY <1>1, <1>3 DEF Lineage, Winners, SingleUse, Issuing, IssuingPc
  <2>3. ~Spent(f)
    BY <1>1, <2>1, <2>2 DEF Spent, Lineage, Winners
  <2>4. \A y \in Records : y.family # f
    BY <2>3 DEF Ends
  <2>5. red'[r].won /\ red'[r].token = Code(f) /\ red'[r].pc \in {"indexRefresh", "issued"}
    BY <2>1, <2>2, GotoFields DEF issueRefreshToken, Keeps
  <2>6. Spent(f)'
    BY <2>5 DEF Spent
  <2>. QED BY <1>1, <1>2, <2>4, <2>6
<1>4. CASE ~IsCode(red[r].token)
  <2>1. IsRefresh(red[r].token)
    BY <1>1, <1>4 DEF Lineage, Presented, IsCode, IsRefresh
  <2>2. red[r].seen \in Records
    BY <1>1, <2>1 DEF Records
  <2>3. FamilyEnd(r) = red[r].seen.familyEnd
    BY <1>4 DEF FamilyEnd
  <2>4. Spent(f)'
    BY <1>1, <2>2, SpentStays DEF Ends
  <2>. QED BY <1>1, <1>2, <2>2, <2>3, <2>4 DEF Ends
<1>. QED BY <1>3, <1>4

LEMMA EndsNext ==
  ASSUME TypeOK, Lineage, Ends, [Next]_vars
  PROVE  Ends'
<1>1. ASSUME NEW x \in Records PROVE x.family \in Authorizations
  <2>1. \A q \in Redemptions : store[Refresh(q)] \in Artifact \cup {None} /\ red[q].seen \in Artifact \cup {None}
    BY Ids DEF TypeOK, StoreOK, RedemptionsOK, RedemptionState
  <2>. QED BY <2>1 DEF Records, Artifact
<1>2. ASSUME NEW x \in Records' PROVE Spent(x.family)'
  <2>1. CASE x \in Records
    BY <1>1, <2>1, SpentStays DEF Ends
  <2>2. ASSUME NEW r \in Redemptions, issueRefreshToken(r), x = Minted(r) PROVE Spent(x.family)'
    BY <2>2, MintedFamily
  <2>. QED BY <2>1, <2>2, RecordsOld
<1>3. ASSUME NEW x \in Records', NEW y \in Records', x.family = y.family
      PROVE  x.familyEnd = y.familyEnd
  <2>1. CASE x \in Records /\ y \in Records
    BY <1>3, <2>1 DEF Ends
  <2>2. ASSUME NEW r \in Redemptions, issueRefreshToken(r), x = Minted(r) PROVE x.familyEnd = y.familyEnd
    <3>1. y \in Records \/ y = Minted(r)
      BY <2>2, RecordsOld, MintsAlone
    <3>. QED BY <1>3, <2>2, <3>1, MintedFamily
  <2>3. ASSUME NEW r \in Redemptions, issueRefreshToken(r), y = Minted(r) PROVE x.familyEnd = y.familyEnd
    <3>1. x \in Records \/ x = Minted(r)
      BY <2>3, RecordsOld, MintsAlone
    <3>. QED BY <1>3, <2>3, <3>1, MintedFamily
  <2>4. /\ x \in Records \/ \E r \in Redemptions : issueRefreshToken(r) /\ x = Minted(r)
        /\ y \in Records \/ \E r \in Redemptions : issueRefreshToken(r) /\ y = Minted(r)
    BY RecordsOld
  <2>. QED BY <2>1, <2>2, <2>3, <2>4
<1>4. ASSUME NEW q \in Redemptions, store'[Refresh(q)] # None
      PROVE  /\ store'[Refresh(q)].expires <= store'[Refresh(q)].familyEnd
             /\ OfflineAccess \notin store'[Refresh(q)].scopes =>
                  store'[Refresh(q)].expires <= SessionEnd[store'[Refresh(q)].session]
  <2>1. StoreStep(Refresh(q))
    BY StoreSteps, Ids
  <2>2. CASE issueRefreshToken(q) /\ store'[Refresh(q)] = Minted(q)
    <3>1. red[q].pc = "refresh"
      BY <2>2 DEF issueRefreshToken
    <3>2. FamilyEnd(q) \in Nat /\ now + RefreshTtl \in Nat /\ SessionEnd[red[q].seen.session] \in Nat
      BY <3>1, RefreshTypes, KnowsType, ClockIsNat, TtlAssumption DEF TypeOK, Artifact
    <3>3. /\ RefreshExpiry(q) <= FamilyEnd(q)
          /\ OfflineAccess \notin red[q].granted => RefreshExpiry(q) <= SessionEnd[red[q].seen.session]
      <4> DEFINE e == IF OfflineAccess \in red[q].granted THEN FamilyEnd(q) ELSE SessionEnd[red[q].seen.session]
      <4>1. e \in Nat /\ RefreshExpiry(q) = Minimum({now + RefreshTtl, FamilyEnd(q), e})
        BY <3>2 DEF RefreshExpiry
      <4>2. RefreshExpiry(q) <= FamilyEnd(q) /\ RefreshExpiry(q) <= e
        BY <3>2, <4>1, MinimumOfThree
      <4>. QED BY <4>2
    <3>. QED BY <2>2, <3>3 DEF Minted, Issued
  <2>3. CASE store'[Refresh(q)] = store[Refresh(q)]
    BY <1>4, <2>3 DEF Ends
  <2>. QED BY <1>4, <2>1, <2>2, <2>3, Names DEF StoreStep, Minted
<1>. QED BY <1>2, <1>3, <1>4 DEF Ends

-----------------------------------------------------------------------------
(* The session's list of clients. *)

LEMMA ListedInit == Init => Listed
BY DEF Init, Listed, IssuingPc

LEMMA ListedNext ==
  ASSUME TypeOK, Listed, [Next]_vars
  PROVE  Listed'
<1>1. Wanes
  BY WorldWanes
<1>2. ASSUME NEW r \in Redemptions, red'[r].pc \in IssuingPc \ {"addClient"},
             red'[r].seen.session \in sessions'
      PROVE  red'[r].client \in clients'[red'[r].seen.session]
  <2>1. ASSUME red'[r].seen = red[r].seen, red'[r].client = red[r].client,
               red[r].pc \in IssuingPc \ {"addClient"}
        PROVE  red'[r].client \in clients'[red'[r].seen.session]
    BY <1>1, <1>2, <2>1 DEF Listed, Wanes
  <2>2. CASE red'[r] = red[r]
    BY <1>2, <2>1, <2>2
  <2>3. CASE RequestStep(r)
    <3>1. Goes(r) /\ red[r].pc \in IssuingPc
      BY <1>2, <2>3 DEF RequestStep, Reads, Loads, Signs, Goes, AfterConsume, IssuingPc
    <3>2. CASE red[r].pc # "addClient"
      BY <2>1, <3>1, <3>2 DEF Goes, Keeps
    <3>3. CASE red[r].pc = "addClient"
      <4>1. AddClient(r) /\ Keeps(r)
        BY <1>2, <3>1, <3>3 DEF Goes, IssuingPc
      <4>2. red[r].seen.session \in sessions /\ red[r].seen.session \in Sessions
        BY <1>1, <1>2, <4>1 DEF Keeps, Wanes, TypeOK, StoreOK
      <4>3. red[r].client \in clients'[red[r].seen.session]
        BY <4>1, <4>2 DEF AddClient, TypeOK, StoreOK
      <4>. QED BY <4>1, <4>3 DEF Keeps
    <3>. QED BY <3>2, <3>3
  <2>. QED BY <2>2, <2>3, RequestSteps, ElsewhereKeeps DEF Only
<1>. QED BY <1>2 DEF Listed

-----------------------------------------------------------------------------
(* The index of a kv store, and what a revocation reaches. *)

\* A key goes only together with its token.
LEMMA KeysGo ==
  ASSUME TypeOK, [Next]_vars, NEW g \in Grants, NEW i \in Id, <<g, i>> \in index
  PROVE  <<g, i>> \in index' \/ store'[i] = None
<1>1. ASSUME NEW r \in Redemptions, RequestStep(r) PROVE <<g, i>> \in index'
  BY <1>1 DEF RequestStep, Reads, Loads, Signs, Goes, Same, ConsumeRow, ConsumeInsert, issueAccessToken,
              IndexAccess, issueRefreshToken, KeepRefreshToken, IndexRefresh, AddClient
<1>2. ASSUME NEW p \in Redemptions \cup Revocations, NEW j \in Id, DestroyKey(p, j)
      PROVE  <<g, i>> \in index' \/ store'[i] = None
  BY <1>2 DEF DestroyKey, TypeOK, StoreOK
<1>3. ASSUME Elsewhere
      PROVE  \/ <<g, i>> \in index'
             \/ \E p \in Redemptions \cup Revocations, j \in Id : DestroyKey(p, j)
  BY <1>3 DEF Elsewhere, AuthorizationStep, Authorize, issueCode, IndexCode, SweepStep, DeleteRows,
              ScanKeys, RevokeConsent, RevokeToken, DestroyGrant, DestroyAccess,
              FailRevocation, EndSession, NarrowConsent, Tick, vars
<1>. QED BY <1>1, <1>2, <1>3, RequestSteps

\* So a token that has its key and is not stored anew still has it.
LEMMA KeyStays ==
  ASSUME TypeOK, [Next]_vars, NEW i \in Id, HasKey(i), store'[i] \in {store[i], None}
  PROVE  store'[i] # None => <<store'[i].grant, i>> \in index'
<1>1. store[i] # None => store[i].grant \in Grants
  BY DEF TypeOK, StoreOK, Artifact
<1>. QED BY <1>1, KeysGo DEF HasKey

LEMMA IndexedInit == Init => Indexed
BY Ids DEF Init, Indexed, HasKey

LEMMA IndexedNext ==
  ASSUME TypeOK, Lineage, Sourced, Indexed, [Next]_vars
  PROVE  Indexed'
<1> SUFFICES ASSUME Backend = "kv" PROVE Indexed'
  BY DEF Indexed
<1>1. ASSUME NEW a \in Authorizations, auth'[a].pc = "issued", store'[Code(a)] # None
      PROVE  <<store'[Code(a)].grant, Code(a)>> \in index'
  <2>1. StoreStep(Code(a)) /\ AuthStep(a) /\ Code(a) \in Id
    BY StoreSteps, AuthSteps, Ids
  <2>2. ~issueCode(a)
    BY <1>1, <2>1 DEF AuthStep, issueCode
  <2>3. store'[Code(a)] \in {store[Code(a)], None}
    BY <2>1, <2>2, Names DEF StoreStep
  <2>4. CASE auth[a].pc = "issued"
    BY <1>1, <2>1, <2>3, <2>4, KeyStays DEF Indexed
  <2>5. CASE IndexCode(a)
    <3>1. store'[Code(a)].grant = auth[a].code.grant
      BY <1>1, <2>5 DEF IndexCode, Sourced
    <3>. QED BY <2>5, <3>1 DEF IndexCode
  <2>. QED BY <1>1, <2>1, <2>2, <2>4, <2>5 DEF AuthStep
<1>2. ASSUME NEW r \in Redemptions, red'[r].pc \in {"refresh", "indexRefresh", "issued"},
             store'[Access(r)] # None
      PROVE  <<store'[Access(r)].grant, Access(r)>> \in index'
  <2>1. StoreStep(Access(r)) /\ Access(r) \in Id
    BY StoreSteps, Ids
  <2>2. ~issueAccessToken(r)
    BY <1>2, GotoFields DEF issueAccessToken
  <2>3. store'[Access(r)] \in {store[Access(r)], None}
    BY <2>1, <2>2, Names DEF StoreStep
  <2>4. CASE red[r].pc \in {"refresh", "indexRefresh", "issued"}
    BY <1>2, <2>1, <2>3, <2>4, KeyStays DEF Indexed
  <2>5. CASE IndexAccess(r)
    <3>1. store'[Access(r)].grant = red[r].seen.grant
      BY <1>2, <2>5 DEF IndexAccess, Sourced
    <3>. QED BY <2>5, <3>1 DEF IndexAccess
  <2>6. CASE RequestStep(r)
    BY <1>2, <2>2, <2>4, <2>5, <2>6 DEF RequestStep, Reads, Loads, Signs, Goes, AfterConsume
  <2>7. CASE red'[r] = red[r]
    BY <1>2, <2>4, <2>7
  <2>. QED BY <2>6, <2>7, RequestSteps, ElsewhereKeeps DEF Only
<1>3. ASSUME NEW r \in Redemptions, red'[r].pc = "issued", store'[Refresh(r)] # None
      PROVE  <<store'[Refresh(r)].grant, Refresh(r)>> \in index'
  <2>1. StoreStep(Refresh(r)) /\ Refresh(r) \in Id
    BY StoreSteps, Ids
  <2>2. ~issueRefreshToken(r)
    BY <1>3, GotoFields DEF issueRefreshToken
  <2>3. store'[Refresh(r)] \in {store[Refresh(r)], None}
    BY <2>1, <2>2, Names DEF StoreStep
  <2>4. CASE red[r].pc = "issued"
    BY <1>3, <2>1, <2>3, <2>4, KeyStays DEF Indexed
  <2>5. CASE IndexRefresh(r)
    <3>1. store'[Refresh(r)].grant = red[r].seen.grant
      BY <1>3, <2>5 DEF IndexRefresh, Sourced
    <3>. QED BY <2>5, <3>1 DEF IndexRefresh
  <2>6. CASE KeepRefreshToken(r)
    <3>1. store[Refresh(r)] = None
      BY <2>6 DEF KeepRefreshToken, Lineage, Descent
    <3>. QED BY <1>3, <2>6, <3>1 DEF KeepRefreshToken
  <2>7. CASE RequestStep(r)
    BY <1>3, <2>2, <2>4, <2>5, <2>6, <2>7 DEF RequestStep, Reads, Loads, Signs, Goes, AfterConsume
  <2>8. CASE red'[r] = red[r]
    BY <1>3, <2>4, <2>8
  <2>. QED BY <2>7, <2>8, RequestSteps, ElsewhereKeeps DEF Only
<1>. QED BY <1>1, <1>2, <1>3 DEF Indexed, HasKey

\* What a client holds it keeps, and the provider does not store it again.
LEMMA HeldStays ==
  ASSUME TypeOK, [Next]_vars, NEW i \in Held
  PROVE  i \in Held' /\ i \in Id /\ store'[i] \in {store[i], None}
<1>1. ASSUME NEW a \in Authorizations, auth[a].pc = "issued", i = Code(a)
      PROVE  i \in Held' /\ i \in Id /\ store'[i] \in {store[i], None}
  <2>1. auth'[a].pc = "issued"
    BY <1>1, AuthSteps DEF AuthStep
  <2>2. ~issueCode(a)
    BY <1>1 DEF issueCode
  <2>. QED BY <1>1, <2>1, <2>2, StoreSteps, Ids, Names DEF Held, StoreStep
<1>2. ASSUME NEW r \in Redemptions, red[r].pc = "issued", i \in {Access(r), Refresh(r)}
      PROVE  i \in Held' /\ i \in Id /\ store'[i] \in {store[i], None}
  <2>1. red'[r].pc = "issued"
    BY <1>2, RequestSteps, ElsewhereKeeps DEF Only, RequestStep, Reads, Loads, Signs, Goes
  <2>2. ~issueAccessToken(r) /\ ~issueRefreshToken(r)
    BY <1>2 DEF issueAccessToken, issueRefreshToken
  <2>3. i \in Held'
    BY <1>2, <2>1 DEF Held
  <2>. QED BY <1>2, <2>2, <2>3, StoreSteps, Ids, Names DEF StoreStep
<1>. QED BY <1>1, <1>2 DEF Held

LEMMA ReachedInit == Init => Reached
BY DEF Init, Reached

LEMMA ReachedNext ==
  ASSUME TypeOK, Indexed, Reached, [Next]_vars
  PROVE  Reached'
<1> DEFINE Processes == Redemptions \cup Revocations
<1>1. sweep \in [Processes -> SweepState]
  BY DEF TypeOK, SweepsOK
<1>2. ASSUME NEW p \in Processes, sweep'[p].reach = sweep[p].reach,
             \A i \in sweep[p].keys : i \in sweep'[p].keys \/ store'[i] = None
      PROVE  /\ sweep'[p].reach \subseteq Held'
             /\ \A i \in sweep'[p].reach : store'[i] # None => i \in sweep'[p].keys
  BY <1>2, HeldStays DEF Reached
<1>3. ASSUME sweep' = sweep PROVE Reached'
  BY <1>2, <1>3 DEF Reached
<1>4. ASSUME NEW q \in Processes, NEW keys \in SUBSET Id, Begin(q, keys),
             \A i \in Held \cap OfGrant(CallGrant(q)) : store'[i] # None => i \in keys
      PROVE  Reached'
  <2>1. /\ sweep'[q].keys = keys /\ sweep'[q].reach = Held \cap OfGrant(CallGrant(q))
        /\ \A p \in Processes : p # q => sweep'[p] = sweep[p]
    BY <1>1, <1>4 DEF Begin
  <2>2. /\ sweep'[q].reach \subseteq Held'
        /\ \A i \in sweep'[q].reach : store'[i] # None => i \in sweep'[q].keys
    BY <1>4, <2>1, HeldStays
  <2>. QED BY <1>2, <2>1, <2>2 DEF Reached
<1>5. ASSUME NEW q \in Processes, DeleteRows(q) PROVE Reached'
  <2>1. \A i \in OfGrant(CallGrant(q)) : store'[i] = None
    BY <1>5 DEF DeleteRows, DeleteGrantRows, OfGrant
  <2>. QED BY <1>4, <1>5, <2>1 DEF DeleteRows
<1>6. ASSUME NEW q \in Processes, ScanKeys(q) PROVE Reached'
  <2>1. ASSUME NEW i \in Held, i \in OfGrant(CallGrant(q)) PROVE i \in GrantKeys(CallGrant(q))
    <3>1. i \in Id /\ store[i] # None /\ store[i].grant = CallGrant(q)
      BY <2>1 DEF OfGrant
    <3>2. HasKey(i)
      BY <1>6 DEF ScanKeys, Indexed, Held
    <3>. QED BY <3>1, <3>2 DEF HasKey, GrantKeys
  <2>2. GrantKeys(CallGrant(q)) \in SUBSET Id
    BY DEF GrantKeys
  <2>. QED BY <1>4, <1>6, <2>1, <2>2 DEF ScanKeys
<1>7. ASSUME NEW q \in Processes, NEW j \in Id, DestroyKey(q, j) PROVE Reached'
  <2>1. /\ sweep'[q] = [sweep[q] EXCEPT !.keys = @ \ {j}] /\ \A p \in Processes : p # q => sweep'[p] = sweep[p]
        /\ store'[j] = None
    BY <1>1, <1>7 DEF DestroyKey, TypeOK, StoreOK
  <2>2. sweep'[q].keys = sweep[q].keys \ {j} /\ sweep'[q].reach = sweep[q].reach
    BY <1>1, <2>1 DEF SweepState
  <2>3. ASSUME NEW p \in Processes
        PROVE  sweep'[p].reach = sweep[p].reach
               /\ \A i \in sweep[p].keys : i \in sweep'[p].keys \/ store'[i] = None
    BY <2>1, <2>2
  <2>. QED BY <1>2, <2>3 DEF Reached
<1>8. ASSUME NEW r \in Redemptions, RequestStep(r) PROVE sweep' = sweep
  BY <1>8 DEF RequestStep, Reads, Loads, Signs, Goes, Same, ConsumeRow, ConsumeInsert, issueAccessToken,
              IndexAccess, issueRefreshToken, KeepRefreshToken, IndexRefresh, AddClient
<1>9. ASSUME Elsewhere PROVE sweep' = sweep \/ \E p \in Processes : SweepStep(p)
  BY <1>9 DEF Elsewhere, AuthorizationStep, Authorize, issueCode, IndexCode, RevokeConsent, RevokeToken,
              DestroyGrant, DestroyAccess, FailRevocation, EndSession, NarrowConsent, Tick, vars
<1>. QED BY <1>3, <1>5, <1>6, <1>7, <1>8, <1>9, RequestSteps DEF SweepStep

-----------------------------------------------------------------------------
(* Theorems. *)

\* What every reachable state has.
THEOREM Invariance == Spec => []IInv
<1>1. Init => IInv
  BY TypeInit, LineageInit, RememberedInit, SourcedInit, EndsInit, ListedInit, IndexedInit, ReachedInit
     DEF IInv
<1>2. IInv /\ [Next]_vars => IInv'
  BY TypeNext, LineageNext, RememberedNext, SourcedNext, EndsNext, ListedNext, IndexedNext, ReachedNext
     DEF IInv
<1>. QED BY <1>1, <1>2, PTL DEF Spec

\* A finished revokeByGrantId has removed every token of the grant that a client had been given
\* when it began, whatever is issued, rotated or revoked meanwhile, on a table and on a kv store
\* (adapters/kv.ts, authorize/management.ts).
THEOREM RevocationFinds == Spec => []RevocationReaches
<1>1. IInv => RevocationReaches
  BY DEF IInv, Reached, RevocationReaches, Swept
<1>. QED BY <1>1, Invariance, PTL

\* What a redemption issues stays within what it was issued from: nothing for a consent or a
\* sign-in that had ended when it came, scopes that only shrink, a family whose end does not move,
\* and a session that knows the client (token/code.ts, token/issue.ts).
THEOREM IssuesWithin == Spec => []IssuedWithin
<1>1. IInv => NothingAfterTheEnd
  <2> SUFFICES ASSUME IInv, NEW r \in Redemptions, red[r].pc = "issued"
               PROVE  /\ red[r].ended => IsRefresh(red[r].token) /\ OfflineAccess \in red[r].seen.scopes
                      /\ ~red[r].revoked
    BY DEF NothingAfterTheEnd
  <2>1. red[r].seen # None
    BY KnowsType, ConstantsAssumption DEF IInv, TypeOK
  <2>. QED BY <2>1 DEF IInv, Remembered, Remembers, Loaded, Signed, IssuingPc
<1>2. IInv => ScopesOnlyShrink
  <2> SUFFICES ASSUME IInv PROVE ScopesOnlyShrink
    OBVIOUS
  <2>1. ASSUME NEW i \in Id, store[i] # None
        PROVE  store[i].scopes \subseteq auth[store[i].family].code.scopes
    <3>1. CASE \E a \in Authorizations : i = Code(a)
      BY <2>1, <3>1 DEF IInv, Sourced, Lineage, Descent
    <3>2. ASSUME NEW q \in Redemptions, i \in {Access(q), Refresh(q)}
          PROVE  store[i].scopes \subseteq auth[store[i].family].code.scopes
      <4>1. red[q].seen # None /\ store[i].family = red[q].seen.family
        BY <2>1, <3>2 DEF IInv, Lineage, Descent
      <4>. QED BY <2>1, <3>2, <4>1 DEF IInv, Sourced
    <3>. QED BY <3>1, <3>2 DEF Id
  <2>2. ASSUME NEW r \in Redemptions, IsRefresh(red[r].token), Issuing(r)
        PROVE  (red[r].scopes \cup red[r].granted) \subseteq red[r].consent
    <3>1. red[r].seen # None
      BY <2>2, KnowsType, ConstantsAssumption DEF IInv, TypeOK, Issuing, IssuingPc
    <3>. QED BY <2>2, <3>1 DEF IInv, Remembered, Remembers
  <2>. QED BY <2>1, <2>2 DEF ScopesOnlyShrink
<1>3. IInv => FamilyEndStands
  <2> SUFFICES ASSUME IInv, NEW i \in Id, NEW j \in Id, IsRefresh(i), IsRefresh(j),
                      store[i] # None, store[j] # None, store[i].family = store[j].family
               PROVE  /\ store[i].familyEnd = store[j].familyEnd
                      /\ store[i].expires <= store[i].familyEnd
                      /\ OfflineAccess \notin store[i].scopes =>
                           store[i].expires <= SessionEnd[store[i].session]
    BY DEF FamilyEndStands
  <2>1. store[i] \in Records /\ store[j] \in Records
    BY DEF Records, IsRefresh
  <2>. QED BY <2>1 DEF IInv, Ends, IsRefresh
<1>4. IInv => SessionKnowsItsClients
  BY DEF IInv, Listed, SessionKnowsItsClients, IssuingPc
<1>. QED BY <1>1, <1>2, <1>3, <1>4, Invariance, PTL DEF IssuedWithin
=============================================================================
