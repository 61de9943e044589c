SPECIFICATION AllSpec
CONSTANTS
  UINT32_MAX = 1000
  WordBits = 64
  Vocabularies <- VocabulariesUpTo3
  IntervalVocabularies <- LongTokenVocabularies
  Texts <- IntervalTexts
  Bytes = {"a", "b"}
  MaxLen = 5
  MaxCalls = 3
CHECK_DEADLOCK FALSE
INVARIANTS CountsExact NoTraceOfTheCut TreeIntervals CountExact
