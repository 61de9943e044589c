SPECIFICATION AllSpec
CONSTANTS
  UINT32_MAX = 1000
  SIZE_MAX = 100
  Vocabularies <- VocabulariesUpTo2
  Texts <- LongTexts
CHECK_DEADLOCK FALSE
INVARIANTS BitfieldExact
