SPECIFICATION Spec
CONSTANTS
  Report <- MCReport
  Chunk <- MCChunk
  Source <- MCSource
  Payload <- MCPayload
  PayloadOf <- MCPayloadOf
  NoPayload = "plain"
  Query = {"q"}
  BatchSize = 2
  AllowDegraded = TRUE
  StartReports = {"r1", "r2"}
  StartManifests = {"none", "match", "other"}
  LostPayloads = {"p1", "p2"}
  LostRows = {"a1", "b1"}
  LostNodes = {"a2", "b1"}
  FaultKinds <- MCFaultKinds
  MaxFaults = 2
INVARIANTS OneVectorPerChunk ReadyMeansIntact SuccessfulIngestIsSearchable
PROPERTIES DegradedStoreUntouched ImplementsSourceIndex
