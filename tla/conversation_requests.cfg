SPECIFICATION ConversationSpec
SYMMETRY Interchangeable
CONSTANTS
  Conversations = {c1}
  Turns = {t1, t2}
  Answers = {a1, a2, a3}
  Providers = {deepseek}
  Requests = {r1, r2}
  NoConversation = NoConversation
  NoTurn = NoTurn
  NoAnswer = NoAnswer
  NoProvider = NoProvider
  MaxCrashes = 1
INVARIANTS
  ContextIsCompleted
  CompletedIsShown
  ActiveIsReachable
PROPERTIES
  OnlyLatestGrows
  LifecycleSpec
CHECK_DEADLOCK FALSE
