SPECIFICATION FairSpec
CONSTANTS
  u1 = u1
  Users = {u1}
  Answers = {a1}
  Keys = {k1, k2}
  AnswerUser <- OneOwnerOfAnswers
  KeyUser <- OneOwnerOfKeys
  NoAnswer = NoAnswer
  NoKey = NoKey
  MaxDisruptions = 1
  MaxEdits = 0
PROPERTIES
  TextIsSentOnce
  WorkerReturns
  AnswerSettles
CHECK_DEADLOCK FALSE
