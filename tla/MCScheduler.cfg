SPECIFICATION Spec
CONSTANTS
  r1 = r1
  r2 = r2
  s1 = s1
  c1 = c1
  c2 = c2
  c3 = c3
  None = None
  Requests <- MCRequests
  Sessions <- MCSessions
  Containers <- MCContainers
  SessionOf <- MCSessionOf
  Stacked <- MCStacked
  MaxFaults = 1
  MaxCrashes = 1
SYMMETRY MCSymmetry
CONSTRAINT OneFailure
INVARIANTS
  ContainersAreKnown
  StoredIsWatched
  NoGhosts
PROPERTY
  ForgetsLast
CHECK_DEADLOCK FALSE
