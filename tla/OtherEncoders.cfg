SPECIFICATION AllSpec
CONSTANTS
  UINT32_MAX = 1000
  SIZE_MAX = 100
  Vocabularies <- VocabulariesUpTo3
  Texts <- ShortTexts
CHECK_DEADLOCK FALSE
INVARIANTS TableExact ResultDecodes MinimalIsShortest HeapComplete
PROPERTIES LowestFirst
