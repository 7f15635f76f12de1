SPECIFICATION FairSpec
CHECK_DEADLOCK FALSE
CONSTANTS
  g1 = g1
  g2 = g2
  e1 = e1
  o1 = o1
  Request = {g1, g2, e1, o1}
  Kind <- MCKind
  InputBound <- MCInputBound
  OutputBound <- MCOutputBound
  GoogleCounting = TRUE
  OpenAICounting = TRUE
  CallLimit <- MCCallLimit
  CountLimit <- MCCountLimit
  CountAllowance <- MCCountAllowance
  MaxInput = 1
  Rates <- MCRates
  LongInput = 1
  Tokens <- MCTokens
  Cap = 14
  Free = Free
INVARIANTS WithinCap BooksBalance
PROPERTIES NothingAcceptedAfterOverrun EveryRequestEnds
