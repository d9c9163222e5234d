SPECIFICATION CheckoutSpec
CONSTANTS
  None = None
  Products = {p1, p2}
  Editors = {}
  Levels = {20}
  Thresholds = {10}
  Sessions = {s1}
  CartIds = {i1}
  Shoppers = {}
  Quantities = {1}
  MaxLine = 2
  Keys = {k1, k2}
  Buyers = {b1, b2}
  Closers = {}
  Requested = {}
  Baskets = 1
INVARIANTS
  OneWinnerPerKey
  ToldOnlyOfStored
  ReservationsBacked
PROPERTIES
  StaleOrdersEnd
  ImplementsOrderBook
CHECK_DEADLOCK FALSE
