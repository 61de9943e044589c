SPECIFICATION FairSpec
CONSTANTS
  UINT32_MAX = 1000
  Vocabularies <- VocabulariesUpTo3
  Texts <- SmallTexts
  Limits = {0}
  Ops = {"encode", "limit"}
  MaxCalls = 1
  LimitSlack = 2
  SIZE_MAX = 2000
  WordBits = 2
CHECK_DEADLOCK FALSE
INVARIANTS TypeOK Segmentation StackIsEncoding AnswerSurvives InBounds
PROPERTIES BacktrackRetires Returns
