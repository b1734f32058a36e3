SPECIFICATION FairSpec
CONSTANTS
  PropagationDelay <- Propagation
  CloseTimeout <- Close
  TelemetryTimeout <- Telemetry
  MaxRequests = 2
INVARIANTS
  ExitsWithinBudget
  DrainsInOrder
PROPERTIES
  FirstTriggerOwnsShutdown
  ShutdownEnds
CHECK_DEADLOCK FALSE
