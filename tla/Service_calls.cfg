SPECIFICATION Spec
CONSTANTS
  None = None
  App = App
  Api = Api
  Document = Document
  Account = Account
  Unresolved = Unresolved
  Root = Root
  Before = Before
  Refresh = Refresh
  Sessions = {laptop, phone}
  Scenarios <- MCScenarios
  Bodies <- MCBodies
  Patches <- MCPatches
  Setups <- MCSetups
  KeySets <- MCKeySets
  Registered <- MCRegistered
  Requests <- MCRequests
  MaxTime <- MCMaxTime
  AccessTtl = 2
  Exp = 3
  Iat = 1
  MaxLifetime = 4
  MaxAge = 2
  Skew = 1
  FapiIatSkew = 2
  DpopNonceTtl = 1
CHECK_DEADLOCK FALSE
INVARIANTS ClientsStand ServableAsAdvertised UsedOnceInside TokensStand SessionsEnd
