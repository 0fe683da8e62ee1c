SPECIFICATION Spec
CONSTANTS
  t1 = t1
  t2 = t2
  k1 = k1
  k2 = k2
  Tabs = {t1, t2}
  Keys = {k1, k2}
  Setups <- MCSetups
  MaxLogins = 3
  MaxIssued = 4
  Lost = Lost
  None = None
CHECK_DEADLOCK FALSE
INVARIANTS HoldsItsKey SignedOutStays PresentedOnce ProfileIsCurrent ItsOwn
