SPECIFICATION Spec
CONSTANTS
  MaxTexts = 3
  MaxCommands = 2
  MaxIds = 4
  Commands = {"Clear", "Compact", "Rebuild"}
  TurnLengths = {1, 2}
  MayFold = TRUE
  MaySteer = FALSE
  MayTimeOut = FALSE
PROPERTIES
  CutTakesOnlySuperseded
