SPECIFICATION FairSpec
CONSTANTS
  Callers = {c1, c2}
  Members = {m1, m2}
  MaximumEntries = 1
  DefaultTtl = 0
  DeclaredTtl <- OnlyResponseDeclares
  Unset = Unset
  None = None
  MaxCalls = 3
  MaxChanges = 1
INVARIANTS
  EntriesFitCapacity
PROPERTIES
  StaleEnds
  ResponsesAreServed
CHECK_DEADLOCK FALSE
