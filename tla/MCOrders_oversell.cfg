SPECIFICATION CarefulSpec
CONSTANTS
  None = None
  Products = {p1}
  Editors = {}
  Levels = {20}
  Thresholds = {10}
  Sessions = {s1}
  CartIds = {i1}
  Shoppers = {}
  Quantities = {1}
  MaxLine = 2
  Keys = {k1, k2}
  Buyers = {b1, b2}
  Closers = {}
  Requested = {}
  Baskets = 2
INVARIANTS
  NoOversell
CHECK_DEADLOCK FALSE
