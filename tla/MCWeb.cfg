CONSTANTS
  t1 = t1
  t2 = t2
  s1 = s1
  s2 = s2
  a = a
  wsgi = wsgi
  None = None
  Threads = {t1, t2}
  Names = {a, wsgi}
  ForeignIds <- TwoForeignIds
  Outcomes <- NeverStored
  MaxIds = 3
  Kinds = {"trace", "requests", "wsgi"}
  WsgiName = wsgi
  OutsideHeaders <- TwoHeaders
  NestedWsgi = TRUE
  MaxDepth = 2
  Services = {s1, s2}
  ServiceOf <- OneWorkerEach
  ByConf = {s1}
  OldKey = OldKey
  NewKey = NewKey
  Stranger = Stranger
SPECIFICATION WebSpec
INVARIANTS
  IdleThreadsClean
  RequestJoinsItsTrace
  UpgradeHasNoImpact
  TracesAreOfTheUser
