SPECIFICATION Spec
CONSTANTS
  MaxTurns = 2
  MaxSessions = 2
  MaxFaults = 0
  Commands = {}
  MaxWork = 3
  MaxLaunches = 2
INVARIANTS
  MidTurnPairReadsStale
VIEW View
