SPECIFICATION Spec
CONSTANTS
  None = None
  Emails = {a}
  Tokens = {t1, t2}
  Requests = {r1}
PROPERTIES
  ReuseEndsChain
CHECK_DEADLOCK FALSE
