SPECIFICATION Spec
CONSTANTS
  MaxTexts = 3
  MaxCommands = 0
  MaxIds = 3
  Commands = {}
  TurnLengths = {1}
  MayFold = FALSE
  MaySteer = FALSE
  MayTimeOut = TRUE
PROPERTIES
  CorrectionsSurviveTheExit
