SPECIFICATION Spec
CONSTANTS
  MaxTexts = 3
  MaxCommands = 2
  MaxIds = 3
  Commands = {"ListSessions", "Rebuild", "Resume"}
  TurnLengths = {1}
  MayFold = FALSE
  MaySteer = TRUE
  MayTimeOut = FALSE
INVARIANTS
  SendOrder
  NothingLost
  SteerInOnePlace
  PinsStandForWords
PROPERTIES
  NoWordingRunsTwice
