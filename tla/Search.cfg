SPECIFICATION Spec
CONSTANTS
    RedetectedWords = {}
    MaxWordCount = 30
    MAX_POSITION_PER_ATTRIBUTE = 65536
    MAX_WORD_LENGTH = 8
    MAX_PREFIX_COUNT = 2
    MAX_ONE_TYPO_COUNT = 2
    MAX_TWO_TYPOS_COUNT = 2
    MAX_SYNONYM_PHRASE_COUNT = 2
    MAX_SYNONYM_WORD_COUNT = 3
    GeoCacheSize = 2
    WordsLimit = 3
    USize = 1024
    Searches <- MCSearches
    Pages <- MCPages
INVARIANTS
  SearchCompletes
  BucketsExact
  PagesOfOneList
CHECK_DEADLOCK FALSE
