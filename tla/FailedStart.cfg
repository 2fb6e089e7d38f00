SPECIFICATION Spec
CONSTANTS
  Cell <- Points
  Five = 3
  Opening <- Openings
  Score <- Scores
  Settings <- OfRules
INVARIANTS
  FailedStartIsRecorded
