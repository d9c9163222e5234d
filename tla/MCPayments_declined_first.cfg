SPECIFICATION FairSpec
CONSTANTS
  None = None
  Keys = {k1}
  Clients = {c1}
  Intents = {i1}
  Totals <- OneTotal
  Requested = {}
PROPERTIES
  ChargedIsMarkedPaid
CHECK_DEADLOCK FALSE
