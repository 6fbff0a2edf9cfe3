SPECIFICATION Spec
CONSTANTS
  None = None
  Handles = {1, 2, 3}
  Little = {1, 2}
  Arguments <- AllArguments
  Varargs <- Lists
  Paths <- OnePath
  Flaws <- Bytes
  LO_MAX_MSG_SIZE = 32768
  LO_DEF_TYPE_SIZE = 2
  LO_DEF_DATA_SIZE = 8
  BundleSize = 2
  MaxLive = 2
  MaxArgs = 2
  MaxItems = 3
INVARIANTS
  TypeOK
  ArgvCurrent
  OnlyWholeAccepted
  DamageStaysInside
  BundleArrives
  FreedOnce
PROPERTIES
  ImplementsArgs
CHECK_DEADLOCK FALSE
