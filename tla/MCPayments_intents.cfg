SPECIFICATION FairSpec
CONSTANTS
  None = None
  Keys = {k1,k2}
  Clients = {c1,c2}
  Intents = {i1,i2}
  Totals <- OneTotal
  Requested = {"cancelled"}

INVARIANTS
  TypeOK
  NoDoubleCharge
  ChargeIsReferenced
  PaidMeansCharged
  ConfirmedOnce
  IntentCustody
PROPERTIES
  ReferenceSticks
  ImplementsOrderBook
  ChargeSettles
CHECK_DEADLOCK FALSE
