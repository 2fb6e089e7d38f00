SPECIFICATION FairSpec
CONSTANTS
  Settings <- HangingInLastGames
PROPERTIES
  HungMovesEnd
