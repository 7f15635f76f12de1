SPECIFICATION Spec
CHECK_DEADLOCK FALSE
CONSTANTS
  Sections <- MCSections
  Policies <- MCPolicies
  ChunkSize = 4
  None = None
INVARIANTS TextKept ScopesStayApart HeadingsFollowTheOutline ContextIsLocal CaptionsMeetTheirTable LabelsAreAdjacent
