SPECIFICATION Spec
CONSTANTS
  Cell <- Points
  Five = 3
  Opening <- Openings
  Score <- Scores
  Settings <- Passing
INVARIANTS
  EnginesSeeTheBoard
  RecordNamesTheLoser
  SamplesAgreeWithResult
  
  
  
  
