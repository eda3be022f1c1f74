SPECIFICATION Spec
CONSTANTS
  n1 = n1
  n2 = n2
  ana = ana
  Ana = Ana
  t1 = t1
  t2 = t2
  None = None
  Requests = {r1, r2}
  Tokens = {t1, t2}
  Tenants = {n1}
  Emails = {ana}
  Lower <- LowerCase
  Kinds <- Redemptions
  InitAccounts <- AnyCustomer
  InitTokens <- NoTokens
  InitTables <- AnyTables
PROPERTIES ResetTakesEffect
CHECK_DEADLOCK FALSE
