---------------------- MODULE MCAssistantConversation ----------------------
(* Small instances of AssistantConversation.  Identifiers are UUIDs and    *)
(* requests are alike, so they are interchangeable.                        *)
EXTENDS AssistantConversation, TLC

Interchangeable ==
  Permutations(Conversations) \cup Permutations(Turns) \cup Permutations(Answers)
    \cup Permutations(Requests) \cup Permutations(Providers)
=============================================================================
