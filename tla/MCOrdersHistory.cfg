SPECIFICATION Spec
CONSTANTS
  p1 = p1
  p2 = p2
  None = None
  Requests = {r1}
  Workers = {w1}
  Products = {p1}
  OrderIds = {o1}
  Baskets <- SameProduct
  NewStatuses = {"cancelled"}
  InitProducts <- OneProduct
  StockLevels = {}
PROPERTY HistoryIsBestEffort
