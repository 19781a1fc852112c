SPECIFICATION Spec
CONSTANTS
  Models = {m1, m2}
  Sizes = {x1}
  MaxTime = 3
  MaxId = 2
SYMMETRY Symmetry
PROPERTY WorkdayHolds
