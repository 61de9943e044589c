SPECIFICATION AllSpec
CONSTANTS
  UINT32_MAX = 1000
  NumBytes = 4
  MinSlots = 4
  ReadBytes = {0, 2, 3}
  MaxRead = 4
  Vocabularies <- Triples
  MinCapacity = 2
  Keys = {k1, k2, k3, k4}
  Hashes = {0, 3, 7}
  FirstCaps = {0}
  Dictionaries <- VocabulariesUpTo3
  Factors = {0, 3, 16, 22, 32}
CHECK_DEADLOCK FALSE
INVARIANTS SelfCheckIsEnough DoubleArrayIsTrie IsAutomaton SearchIsNextMatch
PROPERTY ImplementsMap
