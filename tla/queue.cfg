SPECIFICATION Spec
CONSTANTS
  MaxTexts = 4
  MaxCommands = 1
  MaxIds = 4
  Commands = {"Clear", "Rebuild"}
  TurnLengths = {0, 1, 2}
  MayFold = FALSE
  MaySteer = FALSE
  MayTimeOut = FALSE
INVARIANTS
  TypeOK
  InOrder
  NoneStranded
  CorrectionsNameClaims
  CancelNamesItsTurn
PROPERTIES
  ImplementsFate
  NoWordingRunsTwice
  NoRunPastTheFlag
  CutTakesOnlySuperseded
  CutIsSaid
