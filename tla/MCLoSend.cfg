SPECIFICATION Spec
CONSTANTS
  None = None
  Addresses = {a1, a2}
  Servers = {s1, s2}
  Fds = {3, 4, 5, 6}
  MaxTries = 3
SYMMETRY Symmetry
INVARIANTS
  TypeOK
  NoDescriptorTwice
  SharedIsLive
  NothingElseOpen
