CONSTANTS
  t1 = t1
  t2 = t2
  a = a
  None = None
  Threads = {t1, t2}
  Names = {a}
  ForeignIds <- MCForeignIds
  Outcomes <- Reliable
  MaxIds = 4
SPECIFICATION SpanSpec
SYMMETRY ThreadSymmetry
INVARIANTS
  OwnSpans
  SpanForEveryPoint
