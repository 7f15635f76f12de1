SPECIFICATION FairSpec
CONSTANTS
  Builder <- MCBuilder
  Input <- MCInput
  Uid <- MCUid
  BatchSize = 2
  Nothing = "nothing"
  Damaged = "damaged"
  MaxFaults = 2
INVARIANTS PublishedIsComplete InputsNeverMixed
PROPERTIES PublishedStaysUntouched SealedBuildCompletes
