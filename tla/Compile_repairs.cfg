SPECIFICATION Spec
CONSTANTS
  Plan <- MCPlan
  Needs <- MCNeeds
  Bundles = {{"a", "b"}}
  Relations = {{"a", "b"}}
  Candidate = {"a1", "a2", "a3", "b1", "b3", "m1", "n4"}
  Ranked <- MCRanked
  Row <- MCRow
  Scope <- MCScope
  Width = 2
  Limit = 5
  MaxIslands = 3
  Requireds <- MCRequireds
  Misplans <- MCMisplans
  None = None
CHECK_DEADLOCK FALSE
INVARIANTS FailuresShow BundlesShareARow ExposureIsBounded AcceptedReadingsSurvive
PROPERTIES RequiredAbstentionsStayClosed
