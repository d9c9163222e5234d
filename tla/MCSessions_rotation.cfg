SPECIFICATION Spec
CONSTANTS
  None = None
  Emails = {a, b}
  Tokens = {t1, t2, t3}
  Requests = {r1, r2}
SYMMETRY Symmetry
CONSTRAINTS
  LastAlone
  Paired
  FewExpired
INVARIANTS
  TypeOK
  OneRegistration
  ExchangedIsSpent
  UsedMeansVerified
PROPERTIES
  LogoutComplete
  ImplementsAccountBook
CHECK_DEADLOCK FALSE
