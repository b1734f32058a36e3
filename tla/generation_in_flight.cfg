SPECIFICATION FairSpec
CONSTANTS
  u1 = u1
  Users = {u1}
  Answers = {a1}
  Keys = {k1}
  AnswerUser <- OneOwnerOfAnswers
  KeyUser <- OneOwnerOfKeys
  NoAnswer = NoAnswer
  NoKey = NoKey
  MaxDisruptions = 0
  MaxEdits = 1
PROPERTIES
  InFlightFinishes
CHECK_DEADLOCK FALSE
