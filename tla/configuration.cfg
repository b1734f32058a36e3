SPECIFICATION Spec
SYMMETRY Interchangeable
CONSTANTS
  deepseek = deepseek
  Keys = {k1, k2, k3}
  Models = {m1, m2}
  TextModels = {m1, m2}
  KeyProvider <- OneProviderOfKeys
  ModelProvider <- OneProviderOfModels
  NoKey = NoKey
  NoModel = NoModel
  Background = {worker, refresh}
  MaxBackups = 1
  MaxSecrets = 2
  MaxChanges = 6
  MaxMixedChanges = 4
INVARIANTS
  DefaultIsUsable
  PositionsAreDistinct
PROPERTIES
  RejectedNeedsNewSecret
CHECK_DEADLOCK FALSE
