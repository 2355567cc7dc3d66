------------------------------- MODULE Scrollbar -------------------------------
(***************************************************************************)
(* The scroll bar of a terminal and the rows it shows                      *)
(* (handlers/www/assets/xterm/xterm.js): Viewport, which copies the        *)
(* display's place to the scroll bar in an animation frame and takes the   *)
(* scroll bar's place when the browser tells that it moved; and            *)
(* Terminal.scroll, scrollLines and clear, which move the display.  The    *)
(* browser's part is the element: it keeps scrollTop within the area, and  *)
(* tells of a move later, once however often it moved.                     *)
(*                                                                         *)
(* The height of a row does not change here, and the top margin is 0.      *)
(***************************************************************************)
EXTENDS Integers

CONSTANTS
    Rows, MaxLength,    \* rows of the terminal, and lines its buffer holds at most
    RowHeight           \* pixels of a row

VARIABLES
    length, ydisp, userScrolling,       \* buffer.lines.length (ybase is what exceeds Rows), ydisp
    shown,              \* the browser: the terminal is displayed, offsetParent is not null
    scrollTop,          \* the browser: the viewport element's scrollTop while it is displayed
    area,               \* the lines the scroll area is high for
    event,              \* the browser: a scroll event is to come
    recordedLength, lastScrollTop,      \* _lastRecordedBufferLength, _lastScrollTop
    refreshing,         \* _refreshAnimationFrame is set
    ignoreNext,         \* _ignoreNextScrollEvent
    crossed             \* history: the user and the viewport moved the bar before one event told of both,
                        \* or the viewport moved it when it was not displayed

bufferVars == <<length, ydisp, userScrolling>>
scrollbarVars == <<bufferVars, shown, scrollTop, area, event, recordedLength, lastScrollTop, refreshing,
                   ignoreNext, crossed>>

ybase == length - Rows
Within(n, low, high) == IF n < low THEN low ELSE IF n > high THEN high ELSE n
Distance(a, b) == IF a < b THEN b - a ELSE a - b
Wanted == ydisp * RowHeight
Lowest(lines) == IF lines > Rows THEN (lines - Rows) * RowHeight ELSE 0

(* A terminal that was opened, and whose viewport was refreshed once.      *)
ScrollbarInit ==
    /\ length = Rows /\ ydisp = 0 /\ userScrolling = FALSE
    /\ shown = TRUE /\ scrollTop = 0 /\ area = Rows /\ event = FALSE
    /\ recordedLength = Rows /\ lastScrollTop = 0 /\ refreshing = FALSE /\ ignoreNext = FALSE
    /\ crossed = FALSE

-----------------------------------------------------------------------------
(* Viewport.syncScrollArea, after the display moved.                       *)
Sync ==
    /\ refreshing' = (refreshing \/ recordedLength # length' \/ lastScrollTop # ydisp' * RowHeight
                      \/ lastScrollTop # (IF shown THEN scrollTop ELSE 0))
    /\ recordedLength' = length'

(* Terminal.scroll: a line more, or the oldest is trimmed.                 *)
Output ==
    LET full == length = MaxLength
    IN  /\ length' = IF full THEN length ELSE length + 1
        /\ ydisp' = IF ~userScrolling THEN length' - Rows
                    ELSE IF full THEN Within(ydisp - 1, 0, ybase) ELSE ydisp
        /\ Sync
        /\ UNCHANGED <<userScrolling, shown, scrollTop, area, event, lastScrollTop, ignoreNext, crossed>>

(* Terminal.clear: the line of the cursor, and blank ones.                 *)
Clear ==
    /\ length # Rows
    /\ length' = Rows /\ ydisp' = 0
    /\ Sync
    /\ UNCHANGED <<userScrolling, shown, scrollTop, area, event, lastScrollTop, ignoreNext, crossed>>

(* Terminal.scrollLines.                                                   *)
Scrolled(amount) ==
    /\ ydisp' = IF amount < 0 /\ ydisp = 0 THEN ydisp ELSE Within(ydisp + amount, 0, ybase)
    /\ userScrolling' = CASE amount < 0 -> userScrolling \/ ydisp # 0
                          [] amount >= 0 /\ amount + ydisp >= ybase -> FALSE
                          [] OTHER -> userScrolling
    /\ UNCHANGED length

(* By the keys: a page, or to the bottom when something is typed.          *)
ScrollByKey(amount) ==
    /\ Scrolled(amount)
    /\ IF ydisp' # ydisp THEN Sync ELSE UNCHANGED <<refreshing, recordedLength>>
    /\ UNCHANGED <<shown, scrollTop, area, event, lastScrollTop, ignoreNext, crossed>>

(* onWheel, onTouchMove, or the bar itself: the browser moves it.          *)
Wheel(amount) ==
    /\ shown
    /\ scrollTop' = Within(scrollTop + amount, 0, Lowest(area))
    /\ scrollTop' # scrollTop
    /\ event' = TRUE
    /\ crossed' = (crossed \/ ignoreNext)
    /\ UNCHANGED <<bufferVars, shown, area, recordedLength, lastScrollTop, refreshing, ignoreNext>>

(* _onScroll: the display follows the bar, but for the viewport's moves.   *)
NearestBelow == (scrollTop + RowHeight - 1) \div RowHeight      \* mutant
Nearest == (scrollTop + RowHeight \div 2) \div RowHeight
ScrollEvent ==
    /\ event
    /\ event' = FALSE
    /\ lastScrollTop' = scrollTop
    /\ IF ignoreNext THEN ignoreNext' = FALSE /\ UNCHANGED bufferVars
       ELSE Scrolled(Nearest - ydisp) /\ UNCHANGED ignoreNext
    /\ UNCHANGED <<shown, scrollTop, area, recordedLength, refreshing, crossed>>

(* _innerRefresh, in a frame, after the events that are to come.           *)
InnerRefresh ==
    /\ refreshing /\ ~event
    /\ refreshing' = FALSE
    /\ area' = recordedLength
    /\ LET clamped == Within(scrollTop, 0, Lowest(area'))
           sets == (IF shown THEN clamped ELSE 0) # Wanted
       IN  /\ scrollTop' = IF sets /\ shown THEN Within(Wanted, 0, Lowest(area')) ELSE clamped
           /\ event' = (shown /\ scrollTop' # scrollTop)
           /\ ignoreNext' = (ignoreNext \/ sets)
           /\ crossed' = (IF shown THEN crossed /\ ~sets ELSE TRUE)
    /\ UNCHANGED <<bufferVars, shown, recordedLength, lastScrollTop>>

(* The page shows another terminal, between two frames, or this one again, *)
(* where the browser has kept the bar's place or not.                      *)
Hide ==
    /\ shown /\ ~event
    /\ shown' = FALSE
    /\ UNCHANGED <<bufferVars, scrollTop, area, event, recordedLength, lastScrollTop, refreshing, ignoreNext, crossed>>
Show ==
    /\ ~shown
    /\ shown' = TRUE
    /\ scrollTop' \in {scrollTop, 0}
    /\ event' = (scrollTop' # scrollTop)
    /\ UNCHANGED <<bufferVars, area, recordedLength, lastScrollTop, refreshing, ignoreNext, crossed>>

ScrollbarNext ==
    \/ Output \/ Clear
    \/ \E amount \in {-Rows, Rows, ybase - ydisp} : ScrollByKey(amount)
    \/ \E amount \in {-1, 1, -RowHeight, RowHeight} : Wheel(amount)
    \/ ScrollEvent \/ InnerRefresh \/ Hide \/ Show

-----------------------------------------------------------------------------
(* When nothing is to come, the bar is at the rows that are displayed, and *)
(* the next move of it is heard: unless it was moved by the user and the   *)
(* viewport at once, or when it was not displayed.                         *)
Quiet == shown /\ ~event /\ ~refreshing
BarIsWhereDisplayIs ==
    Quiet /\ ~crossed => ~ignoreNext /\ 2 * Distance(scrollTop, Wanted) <= RowHeight
=============================================================================
