CONSTANTS
  i1 = i1
  i2 = i2
  i3 = i3
  w1 = w1
  None = None
  Applications = {i1, i2, i3}
  Workers = {w1}
  MaxDrivers = 4
  MaxClears = 1
SYMMETRY AnyOrder
SPECIFICATION Spec
INVARIANTS
  OneDriver
  EnabledIsRecorded
PROPERTY
  AnswerSticks
