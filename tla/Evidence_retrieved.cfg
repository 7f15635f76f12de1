SPECIFICATION RetrievalSpec
CONSTANTS
  Chunk <- MCChunk
  Section = {"s1", "s2", "s3"}
  Filing = {"f1", "f2"}
  SectionOf <- MCSectionOf
  FilingOf <- MCFilingOf
  Rank <- MCRank
  Table <- MCTable
  None = "none"
  MaxLosses = 1
  Refs <- MCRefs
  RefLimit = 4
  Context <- MCTable
  Kinds <- AllKinds
  Window = 1
  ParagraphBeforeTable = TRUE
  MaxDocs = 6
  HitScores <- MCHitScores
  Formats = {"mixed", "table", "paragraph"}
  Queries = 4
  Period <- MCPeriod
  Breadth <- MCBreadth
  Budget = 3
  Plans <- MCPlans
  Serves <- MCServes
  Narrative = {"g2"}
  MaxSeeds = 2
  Relevant <- MCRelevant
  MaxRelevant = 2
  MaxNarrative = 2
  Scopes <- MCScopes
  Rankings <- MCRankings
  K = 2
  SeedFactor = 1
  PerSearch = 2
INVARIANTS WholeSectionAsBuiltAtOnce HitsAreKept RequiredGroupsAreAsked SeedsServeRequiredGroups
