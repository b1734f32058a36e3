---------------------- MODULE MCAssistantConfiguration ----------------------
(* Small instances of AssistantConfiguration: one provider, whose keys     *)
(* compete for positions and serve the same models.  Neither keys nor      *)
(* models are compared but for equality, so both are interchangeable.      *)
EXTENDS AssistantConfiguration, TLC

CONSTANT deepseek

OneProviderOfKeys == [k \in Keys |-> deepseek]
OneProviderOfModels == [m \in Models |-> deepseek]

Interchangeable == Permutations(Keys) \cup Permutations(Models)
=============================================================================
