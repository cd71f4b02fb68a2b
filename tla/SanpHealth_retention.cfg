\* A week in which artifacts keep failing.
SPECIFICATION Spec
CONSTANTS
  Runs = {r1, r2}
  Items = {i1, i2}
  Workers = {w1}
  None = None
  Retention = 2
  Retry = 1
  MaxTime = 4
SYMMETRY Symmetry
PROPERTY LastCompleteKept
