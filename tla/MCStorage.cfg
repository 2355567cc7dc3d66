SPECIFICATION Spec
CONSTANTS
  s1 = s1
  s2 = s2
  i1 = i1
  i2 = i2
  i3 = i3
  c1 = c1
  w1 = w1
  None = None
  NoFile = NoFile
  Torn = Torn
  SessionIds <- MCSessionIds
  InstanceNames <- MCInstanceNames
  ClientIds <- MCClientIds
  WindowsIds <- MCWindowsIds
  Owner <- MCOwner
INVARIANTS
  NoOrphanRows
  FindIsExact
  FileIsConsistent

  
CHECK_DEADLOCK FALSE
