SPECIFICATION Spec
CONSTANTS
  Sizes <- MCSizes
  First <- MCFirst
  Scrollback = 1
  Words <- MCWords
  MaxWrites = 3
  MaxEdits = 1
  MaxResizes = 2
INVARIANT AccentsHaveText
CHECK_DEADLOCK FALSE
PROPERTIES TextAboveKept CursorRowKept ResizesAsScreen
