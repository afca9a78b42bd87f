CONSTANTS
  t1 = t1
  t2 = t2
  a = a
  b = b
  None = None
  Threads = {t1, t2}
  Names = {a, b}
  ForeignIds <- MCForeignIds
  Outcomes <- AllOutcomes
  MaxIds = 3
  TicksPerMs = 3
SPECIFICATION Spec
SYMMETRY AnySymmetry
INVARIANTS
  StackAboveNames
  ParentOlder
  OnePlacePerPoint
  TreeStaysInTrace
  ShowDrawsTheCalls
