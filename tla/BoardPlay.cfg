SPECIFICATION Spec
CONSTANTS
  Size = 9
  Opening <- Openings
  Rule <- Rules
  Round <- Rounds
  Answer <- Answers3
  MaxMoves = 2
  Probe <- Probes
INVARIANTS
  BoardIsHistory
  
  ForbiddenByTheRule
  JudgedAlikeInAllTransforms
  OpeningReadBack
