SPECIFICATION FairSpec
CONSTANTS
  Settings <- Passing
INVARIANTS
  TerminatesTheEngineTalkedTo
  StreamsConsistent
  ReaderReleasesStream
  DiesForACause
PROPERTIES
  
  DialogsEnd
  WorkerQuits
