SPECIFICATION FairSpec
CONSTANTS
  Authorizations = {a1}
  Redemptions = {r1, r2}
  Revocations = {v1}
  g1 = g1
  g2 = g2
  c1 = c1
  c2 = c2
  s1 = s1
  Clients = {c1}
  Grants = {g1}
  Sessions = {s1}
  OfflineAccess = offline
  Scopes = {offline}
  GrantClient <- OneGrant
  SessionEnd <- OneSession
  Rotating = {c1}
  Refreshing = {c1}
  Backend = "kv"
  CodeTtl = 1
  AccessTtl = 1
  RefreshTtl = 2
  FamilyTtl = 3
  MaxTime = 0
  None = None
CHECK_DEADLOCK FALSE
INVARIANTS Lineage RevocationReaches
PROPERTIES EveryRequestAnswered
