SPECIFICATION FilledSpec
CONSTANTS
  None = None
  Products = {p1, p2}
  Editors = {}
  Levels = {20}
  Thresholds = {10}
  Sessions = {s1}
  CartIds = {i1}
  Shoppers = {}
  Quantities = {1}
  MaxLine = 2
  Keys = {k1}
  Buyers = {b1}
  Closers = {}
  Requested = {}
  Baskets = 1
INVARIANTS
  ClosedReleased
CHECK_DEADLOCK FALSE
