-------------------------------- MODULE Drawing --------------------------------
(***************************************************************************)
(* When a terminal draws its rows (handlers/www/assets/xterm/xterm.js):    *)
(* RenderDebouncer, which puts the drawing off to the browser's next frame; *)
(* RenderCoordinator, which draws nothing while the terminal is out of     *)
(* sight and everything when it is back; and the calls the terminal and    *)
(* the browser make to them.                                               *)
(***************************************************************************)
EXTENDS Integers

CONSTANT MaxRows        \* bound on the rows of a terminal

VARIABLES
    rows,               \* Terminal.rows
    stale,              \* the rows whose picture on the canvas is not what they hold
    visible,            \* the browser: the screen element is in sight
    isPaused, needsFullRefresh, rowCount,       \* RenderCoordinator
    rowStart, rowEnd, debouncedCount,           \* RenderDebouncer: _rowStart, _rowEnd, _rowCount
    animationFrame,     \* RenderDebouncer._animationFrame is set
    scheduled,          \* the browser: the callback is to run in the next frame
    shrunk,             \* history: rows went while the terminal was out of sight and a frame was scheduled
    zoomed              \* history: the pixels of the display changed, and not every row was drawn since

coordinatorVars == <<isPaused, needsFullRefresh, rowCount>>
debouncerVars == <<rowStart, rowEnd, debouncedCount, animationFrame, scheduled>>
drawingVars == <<rows, stale, visible, coordinatorVars, debouncerVars, shrunk, zoomed>>

Undefined == -1
Least(a, b) == IF a < b THEN a ELSE b
Greatest(a, b) == IF a > b THEN a ELSE b

DrawingInit ==
    /\ rows = MaxRows /\ stale = 0..(MaxRows - 1) /\ visible = TRUE
    /\ isPaused = FALSE /\ needsFullRefresh = FALSE /\ rowCount = MaxRows
    /\ rowStart = 0 /\ rowEnd = MaxRows - 1 /\ debouncedCount = MaxRows
    /\ animationFrame = TRUE /\ scheduled = TRUE
    /\ shrunk = FALSE /\ zoomed = FALSE

-----------------------------------------------------------------------------
(* RenderDebouncer.refresh.                                                *)
DebounceLast(first, last, count) ==      \* mutant: the rows asked for before are forgotten
    /\ debouncedCount' = count /\ rowStart' = first /\ rowEnd' = last
    /\ animationFrame' = TRUE /\ scheduled' = (scheduled \/ ~animationFrame)
Debounce(first, last, count) ==
    /\ debouncedCount' = count
    /\ rowStart' = IF rowStart = Undefined THEN first ELSE Least(rowStart, first)
    /\ rowEnd' = IF rowEnd = Undefined THEN last ELSE Greatest(rowEnd, last)
    /\ animationFrame' = TRUE
    /\ scheduled' = (scheduled \/ ~animationFrame)

(* RenderCoordinator.refreshRows.                                          *)
RefreshRows(first, last) ==
    /\ IF isPaused THEN UNCHANGED debouncerVars ELSE Debounce(first, last, rowCount')
    /\ needsFullRefresh' = (needsFullRefresh \/ isPaused)

(* The program prints on rows first to last.                               *)
RefreshRange(first, last) ==
    /\ stale' = stale \cup (first..last)
    /\ rowCount' = rowCount
    /\ RefreshRows(first, last)
    /\ UNCHANGED <<rows, visible, isPaused, shrunk, zoomed>>

(* Terminal.resize: a refresh of all rows, RenderCoordinator.resize, and   *)
(* onResize, which clears the canvas and refreshes all once more, to a row *)
(* beyond the last.                                                        *)
Resize(n) ==
    /\ n # rows
    /\ rows' = n /\ rowCount' = n
    /\ stale' = 0..(n - 1)
    /\ RefreshRows(0, n)
    /\ shrunk' = (shrunk \/ (isPaused /\ scheduled /\ n < rows))
    /\ UNCHANGED <<visible, isPaused, zoomed>>

(* RenderCoordinator.setColors.                                            *)
SetColors ==
    /\ stale' = 0..(rows - 1)
    /\ rowCount' = rowCount
    /\ RefreshRows(0, rowCount)
    /\ UNCHANGED <<rows, visible, isPaused, shrunk, zoomed>>

(* Renderer.onDevicePixelRatioChange: the layers are made anew, and empty. *)
Zoom ==
    /\ stale' = 0..(rows - 1) /\ zoomed' = TRUE
    /\ UNCHANGED <<rows, visible, coordinatorVars, debouncerVars, shrunk>>

(* The terminal comes into sight, or goes.                                 *)
Move ==
    /\ visible' = ~visible
    /\ UNCHANGED <<rows, stale, coordinatorVars, debouncerVars, shrunk, zoomed>>

(* _onIntersectionChange, of which the browser tells afterwards.           *)
IntersectionChange ==
    /\ isPaused = visible
    /\ isPaused' = ~visible /\ rowCount' = rowCount
    /\ IF visible /\ needsFullRefresh
       THEN Debounce(0, rowCount - 1, rowCount) /\ needsFullRefresh' = FALSE
       ELSE UNCHANGED <<needsFullRefresh, debouncerVars>>
    /\ UNCHANGED <<rows, stale, visible, shrunk, zoomed>>

(* _innerRefresh.  A row beyond the last is one the buffer had before, or  *)
(* undefined: then the callback throws, with rows cleared and not drawn,   *)
(* and leaves the frame set.                                               *)
First == Greatest(rowStart, 0)
Last == Least(rowEnd, debouncedCount - 1)
Draw ==
    /\ stale' = stale \ (First..Last)
    /\ rowStart' = Undefined /\ rowEnd' = Undefined /\ animationFrame' = FALSE
    /\ zoomed' = (zoomed /\ ~((0..(rows - 1)) \subseteq (First..Last)))
Throw ==
    /\ Last >= rows
    /\ stale' = stale \cup ((First..Last) \cap (0..(rows - 1)))
    /\ rowStart' = First /\ rowEnd' = Last
    /\ UNCHANGED <<animationFrame, zoomed>>
Frame ==
    /\ scheduled
    /\ scheduled' = FALSE
    /\ Draw \/ Throw
    /\ UNCHANGED <<rows, visible, coordinatorVars, debouncedCount, shrunk>>

DrawingNext ==
    \/ \E first \in 0..(rows - 1) : \E last \in first..(rows - 1) : RefreshRange(first, last)
    \/ \E n \in 1..MaxRows : Resize(n)
    \/ SetColors \/ Zoom \/ Move \/ IntersectionChange \/ Frame

-----------------------------------------------------------------------------
(* A row that changes is drawn in the end, while it is in sight, whatever  *)
(* was printed, resized and hidden meanwhile.  It is not where the code    *)
(* fails: after the pixels of the display change, and for ever after a row *)
(* that went out of sight was drawn.                                       *)
RowIsDrawn(row) ==
    (row \in stale /\ row < rows) ~> (row \notin stale \/ row >= rows \/ ~visible \/ zoomed \/ shrunk)
RowsAreDrawn == \A row \in 0..(MaxRows - 1) : RowIsDrawn(row)
=============================================================================
