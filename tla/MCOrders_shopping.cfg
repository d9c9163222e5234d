SPECIFICATION ShoppingSpec
CONSTANTS
  None = None
  Products = {p1}
  Editors = {e1}
  Levels = {10, 4}
  Thresholds = {10}
  Sessions = {s1, s2}
  CartIds = {i1, i2}
  Shoppers = {h1, h2}
  Quantities = {1}
  MaxLine = 2
  Keys = {k1}
  Buyers = {b1}
  Closers = {}
  Requested = {}
  Baskets = 2
SYMMETRY Symmetry
INVARIANTS
  CartsSeparate
  LedgerExact
PROPERTIES
  EditsMislead
CHECK_DEADLOCK FALSE
