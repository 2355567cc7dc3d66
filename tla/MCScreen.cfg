SPECIFICATION Spec
CONSTANTS
  Sizes <- MCSizes
  Scrollback = 2
  Params = {2}
  Margins <- MCMargins
  MaxX = 3
  MaxAbove = 1
  MaxChanges = 3
 
PROPERTIES  LinesStay
