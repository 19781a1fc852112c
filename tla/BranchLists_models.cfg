SPECIFICATION Spec
CONSTANTS
  Models = {m1, m2}
  Sizes = {x1}
  MaxTime = 0
  MaxId = 2
SYMMETRY Symmetry
PROPERTY DayStaysClear TransferLosesNothing
