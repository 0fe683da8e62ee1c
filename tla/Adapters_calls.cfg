SPECIFICATION Spec
CONSTANTS
  Calls = {c1, c2, c3}
  Accounts = {a, b}
  Usernames = {u, v}
  Expiry = 3
  Ttl = 2
  Slow = FALSE
  Attempts = 3
  MaxTime = 4
  Scenarios = {"artifact", "session", "claim", "credential", "realm", "client", "identity", "grant"}
  Backends = {"kv", "drizzle", "kysely", "typeorm"}
  None = None
SYMMETRY Symmetry
CHECK_DEADLOCK FALSE
INVARIANTS ClientsAreListed RevokeReaches OneOfAName
PROPERTIES OneWins
