SPECIFICATION Spec
CONSTANTS
  w1 = w1
  a = a
  b = b
  x = x
  y = y
  Workers = {w1}
  Paths = {a, b}
  Contents = {x, y}
  Absent = Absent
  Labels = {"mail"}
  NoRun = NoRun
  NoChange = NoChange
  IOErrors = TRUE
  MaxClock = 1
  MaxEntries = 3
SYMMETRY Symmetry
INVARIANT TypeOK
INVARIANT Recoverable
INVARIANT HonestRollback
