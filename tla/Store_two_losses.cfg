SPECIFICATION Spec
CONSTANTS
  Report <- MCReport
  Chunk <- MCChunk
  Source <- MCSource
  Payload <- MCPayload
  PayloadOf <- MCPayloadOf
  NoPayload = "plain"
  Query = {"q"}
  BatchSize = 1
  AllowDegraded = FALSE
  StartReports = {"r1", "r2"}
  StartManifests = {"match"}
  LostPayloads = {"p1", "p2"}
  LostRows = {}
  LostNodes = {}
  FaultKinds = {}
  MaxFaults = 0
INVARIANTS RecoveryNotBlocked
