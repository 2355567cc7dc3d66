SPECIFICATION FairSpec
CONSTANTS
  r1 = r1
  r2 = r2
  s1 = s1
  c1 = c1
  c2 = c2
  c3 = c3
  None = None
  Requests <- MCOneRequest
  Sessions <- MCSessions
  Containers <- MCOneContainer
  SessionOf <- MCSessionOf
  Stacked <- MCStacked
  MaxFaults = 1
  MaxCrashes = 1
PROPERTIES
  
  InstancesUnwatched
CHECK_DEADLOCK FALSE
