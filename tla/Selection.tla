------------------------------ MODULE Selection ------------------------------
(***************************************************************************)
(* SelectionManager and SelectionModel (handlers/www/assets/xterm/         *)
(* xterm.js): what the user selects with the mouse, and the pages and      *)
(* add-ons by calls, while the program writes.  A selection is two places  *)
(* of the buffer, or one and a length; it has to follow its text when the  *)
(* buffer, being full, drops its first line.                               *)
(*                                                                         *)
(* Rows and columns count from 0; a place is <<column, row>>, None when    *)
(* there is none.  Every line the program writes has a number of its own,  *)
(* and every cell one unit of text.  The buffer is the circular list of    *)
(* CircularList, whose get() also answers for rows that are not in it.     *)
(***************************************************************************)
EXTENDS Integers, Sequences, FiniteSets

CONSTANTS
    Cols, Rows,     \* the size of the screen
    MaxLines,       \* the buffer's capacity
    Texts,          \* the lines the program writes: <<cells, isWrapped>>
    MaxFeeds,       \* bound on the lines written
    MaxInputs       \* bound on what the user and the page do

ASSUME SelectionAssumption ==
    Cols \in Nat \ {0} /\ Rows \in Nat \ {0} /\ MaxLines \in Nat /\ Rows <= MaxLines

VARIABLES
    slots, first, count,    \* CircularList: _array, _startIndex, _length
    ydisp, userScrolling,   \* the row the screen shows first; the user has scrolled up
    sel,        \* SelectionModel: selectionStart, selectionEnd, selectionStartLength, isSelectAllActive
    mode,       \* _activeSelectionMode
    enabled,    \* _enabled: the program does not ask for the mouse
    drag,       \* _dragScrollAmount
    timers,     \* intervals that are running
    current,    \* _dragScrollIntervalTimer names one of them
    listening,  \* the mousemove and mouseup listeners are on the document
    held,       \* the left button is down
    clicks,     \* event.detail of the last mousedown, and where it was on the screen
    frame,      \* _refreshAnimationFrame is set
    shown,      \* what the renderer was last told to highlight
    feeds, inputs,
    chosen,     \* history: the cells selected when the selection was last made or moved
    slid,       \* history: the selection lies before the buffer, or its start was cut off and moved onto other text
    cleared,    \* history: Terminal.clear left the start or the end of a selection in place, and one is still there
    unreleased, \* history: a mousedown came without the mouseup of the one before
    emptied,    \* history: since the last mousedown the end was dropped by trimming or a right click, or the
                \* mousedown came with shift while there was no start to go on from
    failed      \* history: a handler has thrown an exception since then

bufferVars == <<slots, first, count, ydisp, userScrolling>>
mouseVars == <<drag, timers, current, listening>>
historyVars == <<chosen, slid, cleared, unreleased, emptied, failed>>
vars == <<bufferVars, sel, mode, enabled, mouseVars, held, clicks, frame, shown, feeds, inputs, historyVars>>

None == <<>>
NoSelection == [start |-> None, end |-> None, length |-> 0, all |-> FALSE]
NormalMode == 0  WordMode == 1  LineMode == 2  ColumnMode == 3

-----------------------------------------------------------------------------
(* CircularList.get: also of a row before the first, while the index is    *)
(* not negative.                                                           *)
Line(row) == IF first + row < 0 THEN None ELSE slots[(first + row) % MaxLines]
Exists(row) == Line(row) # None
Cell(row, col) == Line(row).cells[col + 1]
ybase == count - Rows

AreReversed(s) ==
    /\ s.start # None /\ s.end # None
    /\ s.start[2] > s.end[2] \/ (s.start[2] = s.end[2] /\ s.start[1] > s.end[1])

FinalStart(s) ==
    CASE s.all -> <<0, 0>>
      [] ~s.all /\ AreReversed(s) -> s.end
      [] OTHER -> s.start

(* Without an end of its own the selection is selectionStartLength long,   *)
(* over as many rows as that takes.                                        *)
FinalEnd(s) ==
    LET past == s.start[1] + s.length
    IN  CASE s.all -> <<Cols, ybase + Rows - 1>>
          [] ~s.all /\ s.start = None -> None
          [] ~s.all /\ s.start # None /\ (s.end = None \/ AreReversed(s)) ->
                IF past > Cols THEN <<past % Cols, s.start[2] + past \div Cols>> ELSE <<past, s.start[2]>>
          [] OTHER -> IF s.length # 0 /\ s.end[2] = s.start[2] /\ past > s.end[1] THEN <<past, s.end[2]>> ELSE s.end

HasSelection(s) == FinalStart(s) # None /\ FinalEnd(s) # None /\ FinalStart(s) # FinalEnd(s)

(* selectionText: the cells that copying gives, as line and column.        *)
Selected(s, m) ==
    IF FinalStart(s) = None \/ FinalEnd(s) = None THEN {}
    ELSE LET from == FinalStart(s)
             to == FinalEnd(s)
             inside(c, r) == IF m = ColumnMode THEN c >= from[1] /\ c < to[1]
                             ELSE (r = from[2] => c >= from[1]) /\ (r = to[2] => c < to[1])
             cells == { p \in (0..Cols - 1) \X (from[2]..to[2]) : Exists(p[2]) /\ inside(p[1], p[2]) }
         IN  { <<Line(p[2]).id, p[1]>> : p \in cells }

(* What the renderer is told: both ends, and whether columns are selected. *)
Highlight == <<FinalStart(sel), FinalEnd(sel), mode = ColumnMode>>

-----------------------------------------------------------------------------
(* _getWordAt.  A cell never written is no space, although its text is     *)
(* shown as one.                                                           *)
Separators == {" ", "(", ""}
IsBlank(ch) == ch \in {" ", ""}
LeastOf(S) == CHOOSE x \in S : \A y \in S : x <= y
GreatestOf(S) == CHOOSE x \in S : \A y \in S : x >= y

(* The first and the last column of the word, or of the blanks, at a place *)
(* of one row.                                                             *)
WordFrom(row, col) ==
    LeastOf({ s \in 0..col : \A c \in s..(col - 1) :
                IF IsBlank(Cell(row, col)) THEN IsBlank(Cell(row, c)) ELSE Cell(row, c) \notin Separators })
WordTo(row, col) ==
    GreatestOf({ e \in col..(Cols - 1) : \A c \in (col + 1)..e :
                IF IsBlank(Cell(row, col)) THEN IsBlank(Cell(row, c)) ELSE Cell(row, c) \notin Separators })

(* The row goes on from the one above, without a space between them.       *)
GoesOn(row) == /\ Exists(row - 1) /\ Exists(row) /\ Line(row).wrapped
               /\ Cell(row, 0) # " " /\ Cell(row - 1, Cols - 1) # " "

(* How many rows up, and down, it goes on, and how many columns those are. *)
RowsAbove(row) ==
    GreatestOf({ k \in 0..(MaxLines + row) : \A i \in 1..k :
                    /\ GoesOn(row - i + 1) /\ ~IsBlank(Cell(row - i, Cols - 1))
                    /\ i < k => WordFrom(row - i, Cols - 1) = 0 })
Above(row) == IF RowsAbove(row) = 0 THEN 0 ELSE RowsAbove(row) * Cols - WordFrom(row - RowsAbove(row), Cols - 1)
RowsBelow(row) ==
    GreatestOf({ k \in 0..(count - 1 - row) : \A i \in 1..k :
                    /\ GoesOn(row + i) /\ ~IsBlank(Cell(row + i, 0))
                    /\ i < k => WordTo(row + i, 0) = Cols - 1 })
Below(row) == IF RowsBelow(row) = 0 THEN 0
              ELSE (RowsBelow(row) - 1) * Cols + WordTo(row + RowsBelow(row), 0) + 1

(* The place it starts at, its row counted down past the start of a row,   *)
(* and its length; None outside of the line.                               *)
WordAt(place, blanksToo) ==
    LET col == place[1]
        row == place[2]
        from == WordFrom(row, col)
        to == WordTo(row, col)
        over == IF from = 0 THEN Above(row) ELSE 0
        under == IF to = Cols - 1 THEN Below(row) ELSE 0
        start == from - over
        up == IF start >= 0 THEN 0 ELSE (Cols - 1 - start) \div Cols
    IN  IF col >= Cols \/ ~Exists(row) \/ (~blanksToo /\ IsBlank(Cell(row, col))) THEN None
        ELSE [start |-> <<start + up * Cols, row - up>>, length |-> (to - from + 1) + over + under]

(* _selectWordAt.                                                          *)
SelectedWord(s, place, blanksToo) ==
    LET word == WordAt(place, blanksToo)
    IN  IF word = None THEN s ELSE [s EXCEPT !.start = word.start, !.length = word.length]

(* _selectToWordAt.                                                        *)
ExtendedToWord(s) ==
    LET word == WordAt(s.end, TRUE)
        past == word.start[1] + word.length
        down == IF past > Cols THEN (past - 1) \div Cols ELSE 0
    IN  CASE word = None -> s
          [] word # None /\ AreReversed(s) -> [s EXCEPT !.end = word.start]
          [] OTHER -> [s EXCEPT !.end = <<past - down * Cols, word.start[2] + down>>]

(* Buffer.getWrappedRangeForLine, _selectLineAt.                           *)
WrappedFirst(row) == LeastOf({ r \in 0..row : \A k \in (r + 1)..row : Line(k).wrapped })
WrappedLast(row) == GreatestOf({ r \in row..(count - 1) : \A k \in (row + 1)..r : Line(k).wrapped })
SelectedLine(s, row) ==
    [s EXCEPT !.start = <<0, WrappedFirst(row)>>, !.end = <<Cols, WrappedLast(row)>>, !.length = 0]

-----------------------------------------------------------------------------
(* The rows the mouse can be over.                                         *)
Places == (0..Cols) \X (ydisp..(ydisp + Rows - 1))

(* _addMouseDownListeners, _removeMouseDownListeners.                      *)
AddedListeners == listening' = TRUE /\ timers' = timers + 1 /\ current' = TRUE
RemovedLate == listening' = FALSE /\ current' = FALSE /\ UNCHANGED timers      \* mutant: clearInterval is forgotten
RemovedListeners ==
    listening' = FALSE /\ timers' = (IF current THEN timers - 1 ELSE timers) /\ current' = FALSE

(* A word whose line goes on from one that was dropped is looked for before *)
(* the first row.                                                          *)
OutOfBuffer(s) == (s.start # None /\ s.start[2] < 0) \/ (s.end # None /\ s.end[2] < 0)

(* History: the user or the page has made or moved the selection.          *)
SameStart == sel'.start = sel.start
SameEnd == sel'.end # None /\ sel'.end = sel.end
Remade ==
    /\ chosen' = Selected(sel, mode)'
    /\ slid' = (OutOfBuffer(sel') \/ (slid /\ SameStart))
    /\ cleared' = (cleared /\ (SameStart \/ SameEnd))
Chose == Remade /\ UNCHANGED <<unreleased, failed>>

(* What the user and the page do is counted.                               *)
Input == inputs < MaxInputs /\ inputs' = inputs + 1 /\ UNCHANGED feeds

(* Terminal.scrollLines.                                                   *)
ScrolledTo(n) == LET to == IF ydisp + n > ybase THEN ybase ELSE ydisp + n IN IF to < 0 THEN 0 ELSE to
ScrollLines(n) ==
    /\ ydisp' = ScrolledTo(n)
    /\ userScrolling' = IF n < 0 THEN userScrolling \/ ydisp # 0
                        ELSE IF n + ydisp >= ybase THEN FALSE ELSE userScrolling
    /\ UNCHANGED <<slots, first, count>>

Init ==
    /\ slots = [i \in 0..MaxLines - 1 |->
                 IF i < Rows THEN [id |-> i, cells |-> [c \in 1..Cols |-> ""], wrapped |-> FALSE] ELSE None]
    /\ first = 0 /\ count = Rows /\ ydisp = 0 /\ userScrolling = FALSE
    /\ sel = NoSelection /\ mode = NormalMode /\ enabled = TRUE
    /\ drag = 0 /\ timers = 0 /\ current = FALSE /\ listening = FALSE /\ held = FALSE /\ clicks = <<0, 0, 0>>
    /\ frame = FALSE /\ shown = <<None, None, FALSE>> /\ feeds = 0 /\ inputs = 0
    /\ chosen = {} /\ slid = FALSE /\ cleared = FALSE /\ unreleased = FALSE /\ emptied = FALSE /\ failed = FALSE

-----------------------------------------------------------------------------
(* _onIncrementalClick, _onSingleClick, _onDoubleClick, _onTripleClick.    *)
Clicked(place, shift, n) ==
    CASE shift /\ enabled -> IF sel.start = None THEN sel ELSE [sel EXCEPT !.end = place]
      [] ~(shift /\ enabled) /\ n = 1 -> [start |-> place, end |-> None, length |-> 0, all |-> FALSE]
      [] ~(shift /\ enabled) /\ n = 2 -> SelectedWord(sel, place, TRUE)
      [] OTHER -> SelectedLine(sel, place[2])

ClickMode(shift, alt, n) ==
    CASE shift /\ enabled -> mode
      [] ~(shift /\ enabled) /\ n = 1 -> IF alt THEN ColumnMode ELSE NormalMode
      [] OTHER -> n - 1

(* onMouseDown of the left button (the others change nothing): when the    *)
(* program has the mouse, shift has to be held.  A second and a third      *)
(* click follow a first one at the same place.                             *)
MouseDown(place, shift, alt, n) ==
    /\ ~(held /\ unreleased)
    /\ IF n = 1 THEN Input ELSE clicks = <<n - 1, place[1], place[2] - ydisp>> /\ ~held /\ ~shift /\ ~alt /\ UNCHANGED <<inputs, feeds>>
    /\ enabled \/ shift
    /\ held' = TRUE /\ clicks' = <<n, place[1], place[2] - ydisp>>
    /\ drag' = 0
    /\ sel' = Clicked(place, shift, n)
    /\ mode' = ClickMode(shift, alt, n)
    /\ AddedListeners
    /\ frame' = TRUE
    /\ emptied' = (shift /\ enabled /\ sel.start = None)
    /\ failed' = FALSE /\ unreleased' = (unreleased \/ held)
    /\ UNCHANGED <<bufferVars, enabled, shown>>
    /\ Remade

(* _onMouseMove, over the screen or (amount not 0) below or above it.  In  *)
(* line mode it reads the start of the selection, which may be gone.       *)
MoveTo(place, amount) ==
    LET at == [sel EXCEPT !.end = place]
        grown == CASE mode = LineMode -> [at EXCEPT !.end[1] = IF place[2] < sel.start[2] THEN 0 ELSE Cols]
                   [] mode = WordMode -> ExtendedToWord(at)
                   [] OTHER -> at
    IN  CASE mode = ColumnMode \/ amount = 0 -> grown
          [] mode # ColumnMode /\ amount > 0 -> [grown EXCEPT !.end[1] = Cols]
          [] OTHER -> [grown EXCEPT !.end[1] = 0]

(* What a move refreshes; the mutant looks at the column only.             *)
MovedAcross(old, new) == old # None /\ new # None /\ old[1] # new[1]
Moved(old, new) == old # new

MouseMove(place, amount) ==
    /\ Input /\ listening
    /\ amount > 0 => place[2] = ydisp + Rows - 1
    /\ amount < 0 => place[2] = ydisp
    /\ clicks' = <<0, 0, 0>>
    /\ UNCHANGED <<bufferVars, mode, enabled, timers, current, listening, held, shown>>
    /\ IF mode = LineMode /\ sel.start = None
       THEN /\ failed' = TRUE /\ sel' = [sel EXCEPT !.end = place]
            /\ UNCHANGED <<drag, frame, chosen, slid, cleared, unreleased, emptied>>
       ELSE /\ sel' = MoveTo(place, amount)
            /\ drag' = amount
            /\ frame' = (frame \/ Moved(sel.end, sel'.end))
            /\ Chose /\ UNCHANGED emptied

(* _dragScroll, every 50 ms: the end of the selection goes where the       *)
(* screen goes; it may be gone.                                            *)
DragScrolled ==
    LET row == IF drag < 0 THEN ydisp' ELSE LeastOf({ydisp' + Rows, count - 1})
    IN  [sel EXCEPT !.end = <<CASE mode = ColumnMode -> sel.end[1]
                                [] mode # ColumnMode /\ drag > 0 -> Cols
                                [] OTHER -> 0, row>>]

DragScroll ==
    /\ timers > 0 /\ drag # 0
    /\ ScrollLines(drag)
    /\ UNCHANGED <<mode, enabled, mouseVars, held, clicks, shown, feeds, inputs>>
    /\ IF sel.end = None
       THEN /\ failed' = TRUE /\ frame' = (frame \/ ydisp' # ydisp)
            /\ UNCHANGED <<sel, chosen, slid, cleared, unreleased, emptied>>
       ELSE /\ sel' = DragScrolled
            /\ frame' = TRUE
            /\ Chose /\ UNCHANGED emptied

(* _onMouseUp.                                                             *)
MouseUp ==
    /\ held /\ held' = FALSE
    /\ IF listening THEN RemovedListeners ELSE UNCHANGED <<timers, current, listening>>
    /\ UNCHANGED <<bufferVars, sel, mode, enabled, drag, clicks, frame, shown, feeds, inputs, historyVars>>

(* clearSelection: by itself, by typing (Terminal.handler, only when       *)
(* something is selected, and it scrolls down) and by disable(), when the  *)
(* program asks for the mouse.                                             *)
ClearSelection == sel' = NoSelection /\ RemovedListeners /\ frame' = TRUE /\ Chose /\ UNCHANGED emptied

Type ==
    /\ Input /\ HasSelection(sel)
    /\ ScrollLines(ybase - ydisp)
    /\ UNCHANGED <<mode, enabled, drag, held, clicks, shown>>
    /\ ClearSelection

Disable ==
    /\ Input /\ enabled /\ enabled' = FALSE
    /\ UNCHANGED <<bufferVars, mode, drag, held, clicks, shown>>
    /\ ClearSelection

Enable ==
    /\ Input /\ ~enabled /\ enabled' = TRUE
    /\ UNCHANGED <<bufferVars, sel, mode, mouseVars, held, clicks, frame, shown, historyVars>>

(* selectWordAtCursor: the right button, outside of what is selected.      *)
RightClick(place) ==
    /\ Input /\ (HasSelection(sel) => <<Line(place[2]).id, place[1]>> \notin Selected(sel, NormalMode))
    /\ sel' = [SelectedWord(sel, place, FALSE) EXCEPT !.end = None]
    /\ UNCHANGED <<bufferVars, mode, enabled, mouseVars, held, clicks, shown>>
    /\ emptied' = (emptied \/ sel.end # None)
    /\ frame' = TRUE /\ Chose

(* selectAll, selectLines, setSelection (of text that is in the buffer):   *)
(* calls of the page.                                                      *)
SelectAll ==
    /\ Input /\ sel' = [sel EXCEPT !.all = TRUE]
    /\ UNCHANGED <<bufferVars, mode, enabled, mouseVars, held, clicks, shown>>
    /\ frame' = TRUE /\ Chose /\ UNCHANGED emptied

SelectLines(from, to) ==
    /\ Input /\ sel' = [NoSelection EXCEPT !.start = <<0, from>>, !.end = <<Cols, to>>]
    /\ UNCHANGED <<bufferVars, mode, enabled, mouseVars, held, clicks, shown>>
    /\ frame' = TRUE /\ Chose /\ UNCHANGED emptied

SetSelection(place, n) ==
    /\ Input /\ place[1] < Cols /\ place[2] * Cols + place[1] + n <= count * Cols
    /\ sel' = [NoSelection EXCEPT !.start = place, !.length = n]
    /\ RemovedListeners
    /\ UNCHANGED <<bufferVars, mode, enabled, drag, held, clicks, shown>>
    /\ frame' = TRUE /\ Chose /\ UNCHANGED emptied

(* The user scrolls.                                                       *)
Scroll(n) ==
    /\ Input /\ ScrollLines(n)
    /\ frame' = (frame \/ ydisp' # ydisp)
    /\ UNCHANGED <<sel, mode, enabled, mouseVars, held, clicks, shown, historyVars>>

-----------------------------------------------------------------------------
(* SelectionModel.onTrim.                                                  *)
Lowered(place) == IF place = None THEN None ELSE <<place[1], place[2] - 1>>
OnTrimStart(s) ==       \* mutant: the end stays
    LET low == [s EXCEPT !.start = Lowered(@)]
    IN  IF low.start # None /\ low.start[2] < 0 THEN [low EXCEPT !.start[2] = 0] ELSE low
OnTrim(s) ==
    LET low == [s EXCEPT !.start = Lowered(@), !.end = Lowered(@)]
    IN  IF low.end # None /\ low.end[2] < 0 THEN NoSelection
        ELSE IF low.start # None /\ low.start[2] < 0 THEN [low EXCEPT !.start[2] = 0]
        ELSE low

(* Terminal.scroll: the program writes a line below the last.  A full list *)
(* recycles its first line, and the selection is told.                     *)
Feed(text) ==
    LET full == count = MaxLines
        cut == sel.start # None /\ sel.start[2] = 0
        line == [id |-> Rows + feeds, cells |-> text[1], wrapped |-> text[2]]
    IN  /\ feeds < MaxFeeds /\ feeds' = feeds + 1
        /\ slots' = [slots EXCEPT ![(first + count) % MaxLines] = line]
        /\ first' = IF full THEN (first + 1) % MaxLines ELSE first
        /\ count' = IF full THEN count ELSE count + 1
        /\ ydisp' = CASE ~userScrolling -> count' - Rows
                      [] userScrolling /\ full -> GreatestOf({ydisp - 1, 0})
                      [] OTHER -> ydisp
        /\ sel' = IF full THEN OnTrim(sel) ELSE sel
        /\ frame' = TRUE
        /\ slid' = (slid \/ (full /\ cut /\ sel'.start # None /\ (sel'.length > 0 \/ AreReversed(sel'))))
        /\ emptied' = (emptied \/ (full /\ sel.end # None /\ sel'.end = None))
        /\ UNCHANGED <<userScrolling, mode, enabled, mouseVars, held, clicks, shown, inputs,
                       chosen, cleared, unreleased, failed>>

(* Terminal.clear, with the cursor on the last row: its line becomes the   *)
(* first.  The selection is not told.                                      *)
Clear ==
    LET blank(r) == [id |-> -(inputs * Rows + r), cells |-> [c \in 1..Cols |-> ""], wrapped |-> FALSE]
        top == Line(count - 1)
    IN  /\ Input /\ ~(ybase = 0 /\ Rows = 1)
        /\ slots' = [i \in 0..MaxLines - 1 |->
                    CASE i = first -> top
                      [] \E r \in 1..Rows - 1 : i = (first + r) % MaxLines ->
                            blank((i - first + MaxLines) % MaxLines)
                      [] OTHER -> slots[i]]
        /\ count' = Rows /\ ydisp' = 0
        /\ frame' = TRUE
        /\ cleared' = (cleared \/ sel.start # None \/ sel.end # None)
        /\ UNCHANGED <<first, userScrolling, sel, mode, enabled, mouseVars, held, clicks, shown,
                       chosen, slid, unreleased, emptied, failed>>

(* _onBufferActivate: the program changes to the other buffer, of blank    *)
(* lines.                                                                  *)
Activate ==
    /\ feeds < MaxFeeds /\ feeds' = feeds + 1
    /\ slots' = [i \in 0..MaxLines - 1 |->
                   IF i < Rows THEN [id |-> i, cells |-> [c \in 1..Cols |-> ""], wrapped |-> FALSE] ELSE None]
    /\ first' = 0 /\ count' = Rows /\ ydisp' = 0
    /\ UNCHANGED <<userScrolling, mode, enabled, drag, held, clicks, shown, inputs>>
    /\ ClearSelection

(* _refresh, in the next animation frame.                                  *)
Refresh ==
    /\ frame /\ frame' = FALSE
    /\ shown' = Highlight
    /\ UNCHANGED <<bufferVars, sel, mode, enabled, mouseVars, held, clicks, feeds, inputs, historyVars>>

Next ==
    \/ \E p \in Places, shift, alt \in BOOLEAN, n \in 1..3 : MouseDown(p, shift, alt, n)
    \/ \E p \in Places, amount \in {-1, 0, 1} : MouseMove(p, amount)
    \/ DragScroll \/ MouseUp
    \/ Type \/ Disable \/ Enable
    \/ \E p \in Places : RightClick(p)
    \/ SelectAll
    \/ \E a, b \in 0..(count - 1) : a <= b /\ SelectLines(a, b)
    \/ \E p \in Places, n \in 1..(Cols + 1) : SetSelection(p, n)
    \/ \E n \in {-1, 1} : Scroll(n)
    \/ \E t \in Texts : Feed(t)
    \/ Clear \/ Activate \/ Refresh

Spec == Init /\ [][Next]_vars

-----------------------------------------------------------------------------
(* What copying gives is part of what was selected when the selection was  *)
(* made or last moved: lines that scroll out of a full buffer take their   *)
(* part of it along, and nothing else comes in.  Not so when a selection   *)
(* that is a place and a length, or one that ends left of its start, loses *)
(* the row it starts on (it slides onto the text that follows), or when    *)
(* the terminal is cleared under it: until both its places are others.     *)
CopiedIsChosen ==
    ~slid /\ ~cleared /\ ~sel.all => Selected(sel, mode) \subseteq chosen

(* Once no frame is pending, what is highlighted is what copying gives.    *)
HighlightIsSelection == ~frame /\ ~failed => shown = Highlight

(* With the button up nothing scrolls any more, unless a mouseup was lost  *)
(* before; and no handler fails unless the text that is being selected has *)
(* scrolled out of the buffer, or there was none: after a click with shift *)
(* when nothing is selected, _onMouseMove may read a start that is null.   *)
DragEnds ==
    /\ ~held /\ ~unreleased => timers = 0 /\ ~listening
    /\ failed => emptied \/ unreleased

(* What is copied, what is highlighted, and the drag that selects it.      *)
SelectionHolds == CopiedIsChosen /\ HighlightIsSelection /\ DragEnds
=============================================================================
