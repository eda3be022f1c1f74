SPECIFICATION FairSpec
CONSTANTS
  p1 = p1
  p2 = p2
  None = None
  Requests = {r1, r2}
  Workers = {w1}
  Products = {p1, p2}
  OrderIds = {o1, o2}
  Baskets <- CrossedBaskets
  NewStatuses = {"preparing", "cancelled"}
  InitProducts <- MixedStock
  StockLevels = {1}
PROPERTIES RequestsFinish AbandonedOrdersEnd ImplementsLedger
