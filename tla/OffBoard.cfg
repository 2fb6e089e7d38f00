SPECIFICATION Spec
CONSTANTS
  Size = 9
  Opening <- FewOpenings
  Rule <- Rules
  Round <- Rounds
  Answer <- OffBoardAnswers
  MaxMoves = 2
  Probe <- Probes
INVARIANTS
  OffBoardIsIllegal
