SPECIFICATION Spec
CONSTANTS
  ExternalIds = {x, y}
  FieldOrder <- Fields
  Contents <- MCContents
  SettingsChoices <- MCSettings
  MaxDocId = 3
  Threshold = 2
  MaxPrefixLength = 2
  MaxOperations = 2
  RefusedBatches = FALSE
  RedetectedWords = {}
  MaxWordCount = 30
  MAX_POSITION_PER_ATTRIBUTE = 4
  MAX_WORD_LENGTH = 2
INVARIANTS
  DatabasesExact
  ViewIsStore
  PrefixesExact
SYMMETRY Symmetry
