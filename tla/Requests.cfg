SPECIFICATION Spec
CHECK_DEADLOCK FALSE
CONSTANTS
  MAX_FILTER_DEPTH = 12
  MaxDepth = 20
  Quoted <- MCQuoted
  GeoRadius <- MCGeoRadius
  GeoBoundingBox <- MCGeoBox
  ReservedGeo <- MCReservedGeo
  DocumentsIds <- MCDocumentsIds
  SoftDeleted <- MCSoftDeleted
  FilterableFields <- MCFilterable
  FieldsIdsMap <- MCFieldsIdsMap
  Numbers <- MCNumbers
  Strings <- MCStrings
  Null <- MCNull
  Empty <- MCEmpty
  Exists <- MCExists
  NumberOf <- MCNumberOf
  GeoPoints <- MCGeoPoints
  Distance <- MCDistance
  Fragments <- MCFragments
  FreeFragments = 3
  MaxFragments = 7
  Fits <- MCFits
  ArrayTexts <- MCArrayTexts
  MaxQuoted = 6
  TextTokens <- MCTextTokens
  SoftSeparators = {" "}
  HardSeparators = {"."}
  CharLen <- MCCharLen
  StartsWith <- MCStartsWith
  MaxTextTokens = 7
  FreeTextTokens = 4
  Queries <- MCQueries
  CropSizes = {0,1,2,3}
  Document <- MCDocument
  FieldNames <- MCFieldNames
  DisplayedChoices <- MCDisplayed
  AskedChoices <- MCAsked
  Updates <- MCUpdates
  PrimaryKeys <- MCPrimaryKeys
  DocumentNames <- MCDocumentNames
  DocumentFields <- MCDocumentFields
  Lemma <- MCLemma
  Decomposed <- MCDecomposed
  Rank <- MCRank
  MaxFieldIds = 5
  MaxUpdates = 3
  Tasks <- MCTasks
  Batch = {3}
  Done <- MCDone
  BatchStart = 6
  AllKinds = {"add", "swap", "cancel", "settings"}
  OneIndexKinds = {"add", "settings"}
  Values <- MCValues
  Keys = {{"*"}, {"a"}}
  MaxParameters = 3
  TicksPerDay = 4
  Dumpable <- MCDumpable
  DumpedKeys <- MCKeys
  KnownIndexes <- MCKnownIndexes
  MaxDumped = 2
  DumpedSettings <- MCDumpedSettings
  RuleTexts <- MCRuleTexts
  MaxRules = 3
  Reports <- MCReports
  Tracks = {"Index Created"}
  InboxCapacity = 2
  MaxReports = 3
  MaxHours = 2
  Givens <- MCGivens
  ShortKeys = {"short"}
  PayloadTexts <- MCPayloadTexts
  PayloadLimit = 3
  ChunkSizes = {0, 1, 3}
  MaxChunks = 3
  MaxPayloadFaults = 1
  Trimmed <- MCTrimmed
  ParseI64 <- MCParseI64
  ParseF64 <- MCParseF64
  NotFinite = "not finite"
  ValidIds = {"1", "k", "x", "true", "false"}
  IdNames <- MCIdNames
  IndexKeys <- MCIndexKeys
INVARIANTS
  OptionsRespected
  HoursReported
  FiltersExact
  TenantFilterRestricts
  HitsShown
  DocumentsReceived
  SettingsSound
  QueriesExact
  DumpKept
