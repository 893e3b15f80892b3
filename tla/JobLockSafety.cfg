SPECIFICATION Spec
CONSTANTS
  j1 = j1
  j2 = j2
  r1 = r1
  Jobs = {j1, j2}
  Requests = {r1}
  MaxCommands = 1
  MaxBoots = 1
  Systemd = TRUE
SYMMETRY Symmetry
INVARIANT TypeOK
INVARIANT Exclusion
INVARIANT ReadinessIsStable
INVARIANT InFlightCovers
PROPERTY ImplementsOperation
