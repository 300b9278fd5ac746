SPECIFICATION Spec
CONSTANTS
  MaxTurns = 2
  MaxSessions = 2
  MaxFaults = 0
  Commands = {"Clear","Rebuild"}
  MaxWork = 3
  MaxLaunches = 2
INVARIANTS
  HistoryIsItsSessions
VIEW View
