SPECIFICATION Spec
CONSTANTS
  f1 = f1
  d1 = d1
  d2 = d2
  k1 = k1
  k2 = k2
  w1 = w1
  w2 = w2
  Forms = {f1}
  Defs = {d1, d2}
  Contents = {"plain", "routed"}
  First = "plain"
  OwnRoute = {"routed"}
  Modes <- StartModes
  Keys = {k1}
  Overlap <- Traffic
  Workers = {w1, w2}
  MaxRev = 2
  MaxVersion = 3
  MaxEntries = 1
  MaxInst = 2
SYMMETRY Symmetry
CONSTRAINT Short
INVARIANTS
  RunsItsForm
  StartedOnce
PROPERTIES
  Routed
CHECK_DEADLOCK FALSE
