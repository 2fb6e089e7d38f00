SPECIFICATION Spec
CONSTANTS
  Worker = {w1, w2}
  Engines = 3
  Rounds = 1
  Games = 2
  Gauntlet = TRUE
  LoseOnly = TRUE
  Sprt = FALSE
  Files <- AllFiles
  Sample = TRUE
SYMMETRY WorkerSymmetry
INVARIANTS
  TypeOK
  GamesDealtOnce
  ResultsAreTheGames
  
  
  PlaysItsPair
  PrintedNamesAreKnown
  FilesAreComplete
