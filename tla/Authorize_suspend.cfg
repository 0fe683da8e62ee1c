SPECIFICATION Spec
CONSTANTS
  s1 = s1
  a1 = a1
  a2 = a2
  c1 = c1
  c2 = c2
  d1 = d1
  pay = pay
  quiet = quiet
  pushed = pushed
  astray = astray
  front = front
  odd = odd
  openid = openid
  email = email
  None = None
  Requests = {pay, quiet, pushed, astray, front, odd}
  Cases = {{pay}, {pushed}, {quiet}, {astray, front, odd}}
  Visits = {v1, v2, v3}
  Completions = {k1, k2}
  Earlier = {s1}
  Accounts = {a1, a2}
  Clients = {c1, c2}
  Scopes = {openid, email}
  Details = {d1}
  OwnerOf <- Owner
  ClientOf <- Sender
  FormOf <- Fields
  Registered <- Registrations
  OpenId = openid
  Dpop = FALSE
  Places = {"app", "elsewhere"}
  MaxPort = 1
  ScopesOf <- Wants
  DetailsOf <- Carries
  AsksOf <- Prompts
  Pushed = {pushed}
  Answers <- Mixed
  Backends = {"kv", "sql"}
  Ttl = 1
  MaxTime = 1
SYMMETRY Symmetry
CHECK_DEADLOCK FALSE
INVARIANTS UsedOnce ConsentCovers LoginSticks
