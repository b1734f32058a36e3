SPECIFICATION FairSpec
CONSTANTS
  c1 = c1
  c2 = c2
  c3 = c3
  Calls <- ThreeCalls
  NoCall = NoCall
  Capacity = 2
  RequiredSlots <- OneOrTwoJobs
  OperationTimeout = 1
  LockTtl = 2
  AdmissionWait = 1
INVARIANTS
  CapacityHolds
PROPERTIES
  OutcomeIsHonest
  LockComesFree
CHECK_DEADLOCK FALSE
