SPECIFICATION Spec
CONSTANTS
  MaxEngines = 5
  MaxRounds = 3
  MaxGames = 4
  MaxLines = 3
INVARIANTS
  ComputesSchedule
  EveryPairPlaysItsGames
  EvenGamesRepeatSwapsSides
  EachRoundUsesEveryLineOnce
