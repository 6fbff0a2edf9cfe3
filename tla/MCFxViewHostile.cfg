SPECIFICATION Spec
CONSTANTS
  One = 2
  NaN = NaN
  Garbage = Garbage
  N = 3
  FirstWorld <- MCFirstWorld
  Worlds <- HostileWorlds
  FirstWeights <- MCFirstWeights
  Weights <- ZeroWeights
  Adds = {1}
  FirstRate = 2
  FrameRates <- HostileRates
  PollLists <- HostileLists
  DefaultPolls <- MCDefaultPolls
  DrawReach <- MiddleReach
  Drawings = {TRUE, FALSE}
  Requests = {TRUE, FALSE}
  ClockCap = 3
INVARIANTS
  NoMisattribution
  PollsHeal
PROPERTIES
  DamageLasts
CHECK_DEADLOCK FALSE
