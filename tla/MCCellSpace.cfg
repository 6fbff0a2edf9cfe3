SPECIFICATION Spec
CONSTANTS
  Size = 4
  Radii <- SomeRadii
  Areas <- SomeAreas
  FirstArea <- MCFirstArea
INVARIANTS
  Mutual
  AsAskedFor
  PollsInSweepOrder
