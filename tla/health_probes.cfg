SPECIFICATION FairSpec
CONSTANTS
  p1 = p1
  p2 = p2
  p3 = p3
  a1 = a1
  a2 = a2
  Probes <- ThreeProbes
  Attempts <- TwoAttempts
  NoAttempt = NoAttempt
INVARIANTS
  ProbesSpareThePool
  OutageLogsPair
PROPERTIES
  ProbesAreAnswered
CHECK_DEADLOCK FALSE
