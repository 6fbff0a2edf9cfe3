SPECIFICATION Spec
CONSTANTS
  Messages <- AllMessages
  Packets <- FewPackets
  Senders <- MCSenders
  Immediate = Immediate
  Bad = Bad
  Capacity = 2
  Frac = 3
  Slack = 1
  MaxWait = 2
  MaxNow = 5
  MaxStarts = 1
INVARIANTS
  NotBeforeItsTime
CHECK_DEADLOCK FALSE
