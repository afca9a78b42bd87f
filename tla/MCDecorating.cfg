CONSTANTS
  base = base
  sub = sub
  meta = meta
  m = m
  s = s
  k = k
  t1 = t1
  t2 = t2
  None = None
  Classes = {base, sub, meta}
  Attrs = {m, s, k}
  MRO <- BasesFirst
  Defined <- Bodies
  Private = {s}
  MetaClasses = {meta}
  Threads = {t1, t2}
  MaxDecorations = 2
  MaxCalls = 2
SYMMETRY ThreadSymmetry
CHECK_DEADLOCK FALSE
SPECIFICATION Spec
INVARIANTS
  OnePointPerCall
  MethodsKeepTheirKind
  RecordsOfTheirCall
PROPERTIES
  OthersUntouched
  NeverHalfTraced
