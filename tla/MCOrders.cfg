SPECIFICATION Spec
CONSTANTS
  p1 = p1
  p2 = p2
  None = None
  Requests = {r1, r2, r3}
  Workers = {w1, w2}
  Products = {p1, p2}
  OrderIds = {o1, o2}
  Baskets <- SmallOrLarge
  NewStatuses = {"cancelled"}
  InitProducts <- TwoProducts
  StockLevels = {}
SYMMETRY Symmetry
INVARIANTS TypeOK ReservationsHold AuditTrail ExpiredOnce StockLedger DeadlockKinds
PROPERTY ExpiresOnlyUnpaidPending
