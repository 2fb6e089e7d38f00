SPECIFICATION FairSpec
CONSTANTS
  Settings <- HangingAtMoves
INVARIANTS
  KillsOnlyTheLate
