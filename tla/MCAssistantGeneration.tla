----------------------- MODULE MCAssistantGeneration -----------------------
(* Small instances of AssistantGeneration: one account owns every answer   *)
(* and key.  Both are UUIDs the code only compares, so the runs of safety  *)
(* properties treat them as interchangeable.                               *)
EXTENDS AssistantGeneration, TLC

CONSTANT u1

OneOwnerOfAnswers == [a \in Answers |-> u1]
OneOwnerOfKeys == [k \in Keys |-> u1]

Interchangeable == Permutations(Answers) \cup Permutations(Keys)
=============================================================================
