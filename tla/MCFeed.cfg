SPECIFICATION MCSpec
CONSTANTS
  None = None
  f1 = f1
  f2 = f2
  c1 = c1
  Keys = {k1, k2, k3}
  Few = {k1, k2}
  Farmers = {f1, f2}
  Clients = {c1}
  UserOf <- Users
  PerPage = 1
  Capacity = 1
INVARIANTS
  TypeOK
  WalkComplete
  ShownInOrder
  NothingMissed
PROPERTIES
  Delivered
CHECK_DEADLOCK FALSE
