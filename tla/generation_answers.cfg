SPECIFICATION Spec
SYMMETRY Interchangeable
CONSTANTS
  u1 = u1
  Users = {u1}
  Answers = {a1, a2}
  Keys = {k1}
  AnswerUser <- OneOwnerOfAnswers
  KeyUser <- OneOwnerOfKeys
  NoAnswer = NoAnswer
  NoKey = NoKey
  MaxDisruptions = 1
  MaxEdits = 1
INVARIANTS
  KeyOutlivesItsAnswer
  QueuedHasDriver
PROPERTIES
  StoppedNeverSends
  RemovedKeyNeverSends
  LifecycleSpec
CHECK_DEADLOCK FALSE
