SPECIFICATION FilledSpec
CONSTANTS
  None = None
  Products = {p1}
  Editors = {}
  Levels = {20}
  Thresholds = {16}
  Sessions = {s1}
  CartIds = {i1}
  Shoppers = {}
  Quantities = {1}
  MaxLine = 2
  Keys = {k1, k2}
  Buyers = {b1}
  Closers = {c1}
  Requested = {"delivered", "cancelled"}
  Baskets = 1
SYMMETRY Symmetry
INVARIANTS
  TypeOK
  OrderedAreHonest
PROPERTIES
  LedgerSlips
  OversellCauses
CHECK_DEADLOCK FALSE
