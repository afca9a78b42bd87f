CONSTANTS
  t1 = t1
  t2 = t2
  a = a
  b = b
  None = None
  Threads = {t1, t2}
  Names = {a, b}
  ForeignIds <- MCForeignIds
  Outcomes <- Reliable
  MaxIds = 3
SPECIFICATION Spec
INVARIANTS
  TypeOK
  StackMatchesNames
PROPERTIES
  ImplementsTree
