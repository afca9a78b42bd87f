CONSTANTS
  t1 = t1
  t2 = t2
  db = db
  wsgi = wsgi
  None = None
  Threads = {t1, t2}
  Names = {db, wsgi}
  ForeignIds <- OneForeignId
  Outcomes <- Reliable
  MaxIds = 3
  Kinds = {"with", "wsgi"}
  WsgiName = wsgi
  OutsideHeaders <- OneHeader
  NestedWsgi = FALSE
  MaxDepth = 2
  DbName = db
SYMMETRY ThreadSymmetry
SPECIFICATION DbSpec
INVARIANTS
  ListenersPaired
  StackMirrorsCalls
  TwoRecords
