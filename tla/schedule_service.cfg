SPECIFICATION FairSpec
CONSTANTS
  n1 = n1
  n2 = n2
  i1 = i1
  i2 = i2
  i3 = i3
  d1 = d1
  d2 = d2
  Names <- TwoNames
  Ids <- ThreeRegistrations
  Callers <- TwoCallers
  NoId = NoId
  Shutdown = Shutdown
INVARIANTS
  RegistriesAgree
  IntervalsDoNotOverlap
  DrainedIsQuiet
PROPERTIES
  ShutdownEnds
CHECK_DEADLOCK FALSE
