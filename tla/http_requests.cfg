SPECIFICATION HttpSpec
CONSTANTS
  s1 = s1
  s2 = s2
  s3 = s3
  i1 = i1
  i2 = i2
  i3 = i3
  i4 = i4
  i5 = i5
  NoId = NoId
  Seedings <- MCSeedings
  Identifiers <- MCIdentifiers
  Headers <- MCHeaders
  SupportedLanguages <- MCLanguages
  Fallback = "en"
  CataloguedStatuses <- MCStatuses
  CataloguedKeys <- MCKeys
INVARIANT SeededClientsAreAdmitted
INVARIANT AnswersKeepTheirContract
SYMMETRY SeedingSymmetry
