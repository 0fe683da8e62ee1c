SPECIFICATION Spec
CONSTANTS
  Authorizations = {a1}
  Redemptions = {r1, r2}
  Revocations = {v1}
  g1 = g1
  g2 = g2
  c1 = c1
  c2 = c2
  s1 = s1
  Clients = {c1, c2}
  Grants = {g1, g2}
  Sessions = {s1}
  OfflineAccess = offline
  Scopes = {offline}
  GrantClient <- TwoGrants
  SessionEnd <- OneSession
  Rotating = {c1}
  Refreshing = {c1, c2}
  Backend = "sql"
  CodeTtl = 1
  AccessTtl = 1
  RefreshTtl = 2
  FamilyTtl = 3
  MaxTime = 1
  None = None
SYMMETRY Symmetry
CHECK_DEADLOCK FALSE
INVARIANTS TypeOK RedeemedOnce OneHeir IssuedWithin
