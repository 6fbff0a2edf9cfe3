SPECIFICATION FairSpec
CONSTANTS
  Messages <- AllMessages
  Packets <- BundlePackets
  Senders <- MCSenders
  Immediate = Immediate
  Bad = Bad
  Capacity = 2
  Frac = 3
  Slack = 1
  MaxWait = 2
  MaxNow = 8
  MaxStarts = 2
INVARIANTS
  TypeOK
  ExactlyOnce
  BundleAtomic
  NotEarly
PROPERTIES
  NoCallbackWhenStopped
  QueuedIsHandled
  StopReturns
CHECK_DEADLOCK FALSE
