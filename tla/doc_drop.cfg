SPECIFICATION Spec
CONSTANTS
  MaxTexts = 2
  MaxCommands = 0
  MaxIds = 3
  Commands = {}
  TurnLengths = {1}
  MayFold = FALSE
  MaySteer = FALSE
  MayTimeOut = FALSE
PROPERTIES
  DropMeansItsPrompt
