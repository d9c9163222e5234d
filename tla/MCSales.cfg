SPECIFICATION MCSpec
CONSTANTS
  None = None
  f1 = f1
  f2 = f2
  c1 = c1
  p1 = p1
  p2 = p2
  p3 = p3
  Farmers = {f1, f2}
  Categories = {c1, c2, c3}
  Slugs = {"a", "b", "c"}
  Authors = {a1, a2}
  Products = {p1, p2, p3}
  Prices = {1, 3}
  Keys = {k1, k2}
  Buyers = {b1}
  Carts <- SomeCarts
  Guests = {g1, g2}
  Hours = 2
  Period = 1
  Top = 1
  End = 4
SYMMETRY Symmetry
INVARIANTS
  SalesTypeOK
  CatalogueComplete
  AmountsAgree
  ReportsAgree
  CustomersCounted
  IncomeCoversRevenue
CHECK_DEADLOCK FALSE
