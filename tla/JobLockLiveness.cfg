SPECIFICATION FairSpec
CONSTANTS
  j1 = j1
  r1 = r1
  Jobs = {j1}
  Requests = {r1}
  MaxCommands = 1
  MaxBoots = 1
  Systemd = TRUE
PROPERTY BusyEnds
PROPERTY FlagFalls
