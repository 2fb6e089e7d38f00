SPECIFICATION FairSpec
CONSTANTS
  Games = 7
  Unsaved <- Fourth
INVARIANTS
  NothingLostNorDoubled
PROPERTIES
  ImplementsOrderedLog
  ReadyRecordsAreWritten
