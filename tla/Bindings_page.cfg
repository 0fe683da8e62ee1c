SPECIFICATION BindingsSpec
CONSTANTS
  Frameworks = {"vue", "angular", "react"}
  Attempts = {f1, f2}
  Names = {"", "typed", "long"}
  Tokens = {t1, t2}
  Errors = {e1, e2}
  Renders = {q1, q2}
  Issuers = {i1, i2}
  MaxFetches = 3
  Undefined = Undefined
CHECK_DEADLOCK FALSE
INVARIANTS DrawsWhatIsHeld NeverStuck OwnInstance
