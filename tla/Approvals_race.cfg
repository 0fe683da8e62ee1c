SPECIFICATION Spec
CONSTANTS
  c1 = c1
  q1 = q1
  p1 = p1
  p2 = p2
  a1 = a1
  a2 = a2
  Requests = {q1}
  Polls = {p1, p2}
  Answers = {a1, a2}
  Clients = {c1, c2}
  Sessions = {s1}
  Scenes <- ScenesHere
  ClientOf <- SameClient
  Backends = {"kv", "sql"}
  DefaultInterval = 1
  Ttl = 1
  MaxFailures = 1
  Window = 1
  MaxTime = 1
  Interactive = interactive
  None = None
SYMMETRY Symmetry
CHECK_DEADLOCK FALSE
INVARIANTS OnlyApproved KvRedeemsOnce KvKeepsSignIns CodesAreCounted
