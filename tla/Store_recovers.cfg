SPECIFICATION FairSpec
CONSTANTS
  Report <- MCReport
  Chunk <- MCChunk
  Source <- MCSource
  Payload <- MCPayload
  PayloadOf <- MCPayloadOf
  NoPayload = "plain"
  Query = {"q"}
  BatchSize = 1
  AllowDegraded = FALSE
  StartReports = {"r1"}
  StartManifests = {"none", "match"}
  LostPayloads = {"p1"}
  LostRows = {"a2"}
  LostNodes = {"a1", "a2"}
  FaultKinds <- MCFaultKinds
  MaxFaults = 3
INVARIANTS CommittedPayloadsKept CommittedNodesAreBacked CacheCoherent
PROPERTIES ManifestedIngestCompletes
