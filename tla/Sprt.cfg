SPECIFICATION FairSpec
CONSTANTS
  Worker = {w1, w2}
  Engines = 2
  Rounds = 1
  Games = 4
  Gauntlet = FALSE
  LoseOnly = FALSE
  Sprt = TRUE
  Files <- NoFile
  Sample = FALSE
PROPERTIES
  ImplementsMatchBook
  ResultsOnlyGrow
  TournamentEnds
  DealtGamesAreScored
