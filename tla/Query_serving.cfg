SPECIFICATION Spec
CONSTANTS
  Query = {"q1", "q2"}
  Doc <- MCDoc
  Scope <- MCScope
  Addressed <- MCAddressed
  Bytes <- MCBytes
  QuestionBytes = 1
  ContextLimit = 5
  K = 2
  KRRF = 60
  CacheSize = 1
  Fallback = TRUE
  Bm25Only = FALSE
  Cools = TRUE
  StartIndex = {"d1", "d2", "d4", "d5"}
  Rankings <- MCRankings
INVARIANTS DegradedAnswerDisclosed FusionRespectsRankings PacketIsMaximal CitationsAreGrounded
