SPECIFICATION SetupSpec
CONSTANTS
  m1 = m1
  m2 = m2
  w1 = w1
  w2 = w2
  None = None
  Members <- MCMembers
  Managers <- MCManagers
  Workers <- MCWorkers
  Running <- MCRunning
PROPERTY
  ErrorReleasesAll
CHECK_DEADLOCK FALSE
