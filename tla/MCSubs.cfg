SPECIFICATION FairSpec
CONSTANTS
  n1 = n1
  n2 = n2
  None = None
  Tenants = {n1, n2}
  DefaultTenant = n1
  Requests = {r1}
  Workers = {w1}
  Sweepers = {w2}
  Orders = {o1}
  Day = 2
  GraceDays = 1
  PeriodDays = 1
  GhostTimeout = 1
  Horizon = 3
  Kinds <- AllKinds
  Ends <- SomeEnds
  Lengths <- Unstated
  InitTenants <- Neighbours
INVARIANTS TypeOK RenewalStands CanceledAreShutOut
PROPERTIES AnnouncementKept LapsedTenantsEnd GhostOrdersEnd
