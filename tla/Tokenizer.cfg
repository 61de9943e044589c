SPECIFICATION AllSpec
CONSTANTS
  Parts = {"call", "split", "scratch"}
  SplitTexts <- DocumentedTexts
  UINT32_MAX = 1000
  SIZE_MAX = 2000
  InitialCap = 1
  LimitSlack = 1
  WordBits = 2
  MaxCalls = 2
  Splitters = {"cl100k", "o200k"}
  Limits = {0, 1, 2, 3, 2000}
  Ops = {"piece", "count", "limit"}
  Texts <- TokenizerTexts
  Vocabularies <- TokenizerVocabularies
CHECK_DEADLOCK FALSE
INVARIANTS EncodesAsReference CountsAgree FollowPatterns PiecesCoverText ResultExact
PROPERTY Returns
