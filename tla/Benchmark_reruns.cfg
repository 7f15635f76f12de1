SPECIFICATION Spec
CONSTANTS
  Chunk = {"c1", "c2"}
  Primary = {"c1"}
  Config = {"k1", "k2", "k3"}
  StoreSig <- MCStoreSig
  Mode <- MCMode
  Drafts = {1, 2}
  Options <- MCOptions
  BatchSize = 1
  Faults = {"dies", "torn", "lookup"}
  MaxFaults = 2
  None = None
INVARIANTS ConfigurationsNeverMix EvaluatedStoreIsWhole EvaluatedTextIsEmbeddedText ContextualRunSearchesEverything
