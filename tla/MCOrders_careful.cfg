SPECIFICATION CarefulSpec
CONSTANTS
  None = None
  Products = {p1, p2}
  Editors = {}
  Levels = {30}
  Thresholds = {10}
  Sessions = {s1}
  CartIds = {i1}
  Shoppers = {}
  Quantities = {1}
  MaxLine = 2
  Keys = {k1, k2}
  Buyers = {b1}
  Closers = {c1, c2}
  Requested = {"delivered", "cancelled"}
  Baskets = 2
SYMMETRY Symmetry
INVARIANTS
  NoOversell
PROPERTIES
  ImplementsStockBook
CHECK_DEADLOCK FALSE
