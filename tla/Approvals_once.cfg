SPECIFICATION Spec
CONSTANTS
  c1 = c1
  q1 = q1
  p1 = p1
  p2 = p2
  a1 = a1
  a2 = a2
  Requests = {q1}
  Polls = {p1, p2}
  Answers = {a1, a2}
  Clients = {c1}
  Sessions = {s1}
  Scenes <- ScenesHere
  ClientOf <- SameClient
  Backends = {"sql"}
  DefaultInterval = 1
  Ttl = 2
  MaxFailures = 1
  Window = 1
  MaxTime = 1
  Interactive = interactive
  None = None
CHECK_DEADLOCK FALSE
INVARIANT RedeemedOnce
