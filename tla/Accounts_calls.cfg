SPECIFICATION Spec
CONSTANTS
  c1 = c1
  c2 = c2
  c3 = c3
  Calls = {c1, c2, c3}
  First = First
  Passwords = {First, Second}
  Plans <- MCPlans
  RecoveryCodes = 1
  MaxFailedAttempts = 2
  Lockout = 2
  ResetTtl = 1
  MaxTime = 3
  None = None
CHECK_DEADLOCK FALSE
INVARIANTS SpentOnce ResetEndsOlder GuessesAreCounted FactorsStand
