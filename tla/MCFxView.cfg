SPECIFICATION FairSpec
CONSTANTS
  One = 2
  NaN = NaN
  Garbage = Garbage
  N = 3
  FirstWorld <- MCFirstWorld
  Worlds <- GoodWorldSet
  FirstWeights <- MCFirstWeights
  Weights <- SomeWeights
  Adds = {0, 1}
  FirstRate = 2
  FrameRates = {1, 3}
  PollLists <- SortedLists
  DefaultPolls <- MCDefaultPolls
  DrawReach <- NoReach
  Drawings = {FALSE}
  Requests = {TRUE, FALSE}
  ClockCap = 4
INVARIANTS
  TypeOK
  ClockBounded
  SweepCompletes
  ReportTruthful
  TriggerIsLoudest
  NothingFreed
PROPERTIES
  ImplementsAutomaton
  FramesGoOn
CHECK_DEADLOCK FALSE
