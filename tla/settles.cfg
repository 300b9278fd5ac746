SPECIFICATION FairSpec
CONSTANTS
  MaxTexts = 3
  MaxCommands = 0
  MaxIds = 3
  Commands = {}
  TurnLengths = {1}
  MayFold = FALSE
  MaySteer = TRUE
  MayTimeOut = FALSE
PROPERTIES
  EveryWordingSettles
  ExitEnds
