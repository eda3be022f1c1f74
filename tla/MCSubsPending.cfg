SPECIFICATION Spec
CONSTANTS
  n1 = n1
  n2 = n2
  None = None
  Tenants = {n1}
  DefaultTenant = n1
  Requests = {r1}
  Workers = {w1}
  Sweepers = {}
  Orders = {}
  Day = 2
  GraceDays = 1
  PeriodDays = 1
  GhostTimeout = 1
  Horizon = 3
  Kinds <- PublicKinds
  Ends <- NoEnd
  Lengths <- NoLength
  InitTenants <- AnyStart
PROPERTIES OperableUsePublicRoutes
