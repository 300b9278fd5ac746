SPECIFICATION Spec
CONSTANTS
  MaxTexts = 3
  MaxCommands = 2
  MaxIds = 3
  Commands = {"ListSessions", "Resume"}
  TurnLengths = {1}
  MayFold = FALSE
  MaySteer = FALSE
  MayTimeOut = FALSE
PROPERTIES
  CutTakesOnlySuperseded
