SPECIFICATION Spec
CONSTANTS
  MaxTurns = 2
  MaxSessions = 2
  MaxFaults = 1
  Commands = {"Clear", "Compact", "Rebuild", "Resume"}
  MaxWork = 2
  MaxLaunches = 2
INVARIANTS
  TypeOK
  ResumeKeepsEndedTurns
  NoLostWakeup
PROPERTIES
  ExitKeepsTheConversation
VIEW View
