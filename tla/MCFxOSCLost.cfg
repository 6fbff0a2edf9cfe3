SPECIFICATION Spec
CONSTANTS
  Settings <- OneWorldSession
INVARIANTS
  RequestsInForce
CHECK_DEADLOCK FALSE
