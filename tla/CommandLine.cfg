SPECIFICATION Spec
CONSTANTS
  Argument <- Arguments
  MaxArgs = 4
INVARIANTS
  EachReachesAllEngines
  
