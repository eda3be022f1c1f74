SPECIFICATION FairSpec
CONSTANTS
  n1 = n1
  n2 = n2
  ana = ana
  Ana = Ana
  t1 = t1
  t2 = t2
  None = None
  Requests = {r1, r2}
  Tokens = {t1, t2, t3, t4}
  Tenants = {n1, n2}
  Emails = {ana, Ana}
  Lower <- LowerCase
  Kinds <- AllKinds
  InitAccounts <- AnyCustomer
  InitTokens <- SomeMailed
  InitTables <- SomeTables
INVARIANTS TypeOK NeverUsedAndRevoked ResendReplaces RedeemedOnce ExpiredIsUseless AuditTrail AcceptedHasAdmin
PROPERTIES LiveAccountsKept TenantsKeptApart ImplementsLedger RequestsFinish
CHECK_DEADLOCK FALSE
