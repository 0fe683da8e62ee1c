SPECIFICATION BrokerSpec
CONSTANTS
  Starts = {s1, s2}
  Callbacks = {c1, c2}
  Notices = {n1, n2}
  Providers = {entra, google}
  Sids = {sid}
  sid = sid
  entra = entra
  Tokens <- MCTokens
  Allowed = {entra, google}
  Owner = entra
  Browsers = {own, other}
  Local = Local
  Policies = {"subject", "verified-email", "interactive"}
  Announcing = {entra}
  Pkce = {entra}
  Renaming = {google}
  HandoffTtl = 1
  MaxAge = 1
  MaxClock = 1
  Absent = Absent
SYMMETRY Symmetry
CHECK_DEADLOCK FALSE
INVARIANTS EachOnce LegsEndRight
PROPERTIES LogoutExact
