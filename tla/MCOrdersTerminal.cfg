SPECIFICATION Spec
CONSTANTS
  p1 = p1
  p2 = p2
  None = None
  Requests = {r1, r2, r3}
  Workers = {}
  Products = {p1}
  OrderIds = {o1}
  Baskets <- SameProduct
  NewStatuses = {"cancelled"}
  InitProducts <- OneProduct
  StockLevels = {}
PROPERTY TerminalIsFinal
CHECK_DEADLOCK FALSE
