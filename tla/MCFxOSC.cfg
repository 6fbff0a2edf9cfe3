SPECIFICATION FairSpec
CONSTANTS
  Settings <- All
INVARIANTS
  TypeOK
  InForceIfAlone
  PollsCompleteIfAlone
PROPERTIES
  NothingStaysPending
CHECK_DEADLOCK FALSE
