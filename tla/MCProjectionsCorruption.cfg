SPECIFICATION Spec
CONSTANTS
  a1 = a1
  a2 = a2
  w1 = w1
  w2 = w2
  e1 = e1
  e2 = e2
  Aggregates = {a1, a2}
  Writers = {w1, w2}
  Engines = {e1, e2}
  None = None
  PageSize = 1
  MaxPosition = 4
  MaxRebuilds = 2
SYMMETRY Symmetry
INVARIANT CorruptionIsReal
