------------------------------- MODULE MCAccounts -------------------------------
EXTENDS Accounts, TLC

CONSTANTS c1, c2, c3

\* Three calls of these operations, in any order and interleaving.
Of(first, second, third) == (c1 :> first) @@ (c2 :> second) @@ (c3 :> third)
Thrice(operation) == Of(operation, operation, operation)

MCPlans == {
  Of("register", "register", "authenticate"),
  Thrice("authenticate"),
  Of("setPassword", "authenticate", "authenticate"),
  Thrice("verifySecondFactor"),
  Of("authenticate", "verifySecondFactor", "verifySecondFactor"),
  Of("totp.begin", "totp.begin", "totp.confirm"),
  Of("totp.begin", "totp.confirm", "verifySecondFactor"),
  Of("totp.begin", "totp.confirm", "totp.remove"),
  Of("totp.remove", "totp.regenerate", "verifySecondFactor"),
  Of("totp.regenerate", "verifySecondFactor", "verifySecondFactor"),
  Of("reset.issue", "reset.complete", "reset.complete"),
  Of("reset.issue", "reset.complete", "authenticate")}
================================================================================
