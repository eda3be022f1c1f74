SPECIFICATION Spec
CONSTANTS
  Listings = {"orders", "products"}
  OrderStatuses = {"pending", "deleted"}
  Writers = {w1, w2}
  Limits = {1, 2}
  MaxId = 4
  MaxClock = 2
  None = None
SYMMETRY Symmetry
INVARIANTS TypeOK InOrder Complete MoreIsTrue
