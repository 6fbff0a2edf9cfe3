SPECIFICATION Spec
CONSTANTS
  Alphabet <- MCAlphabet
  Patterns <- MCPatterns
  NoPath = NoPath
  NoMethod = NoMethod
  AnyTypes = AnyTypes
  Paths <- MCPaths
  Specs <- MCSpecs
  Deletions <- MCDeletions
  Messages <- MCMessages
  MaxMethods = 3
INVARIANTS
  TypeOK
  EachMatchOnceInOrder
PROPERTIES
  ImplementsMethodTable
  RepliesAreTruthful
CHECK_DEADLOCK FALSE
