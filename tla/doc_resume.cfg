SPECIFICATION Spec
CONSTANTS
  MaxTurns = 2
  MaxSessions = 2
  MaxFaults = 0
  Commands = {"Resume"}
  MaxWork = 3
  MaxLaunches = 2
PROPERTIES
  ResumeIsComplete
VIEW View
