CONSTANTS
  t1 = t1
  t2 = t2
  t3 = t3
  Threads = {t1, t2, t3}
  Builder = t1
  None = None
  MaxExpired = 2
  MaxErrors = 1
SPECIFICATION Spec
INVARIANTS
  LoginTypeOK
  LoginsNeeded
  RetryHasNewSession
PROPERTIES
  QueriesEnd
