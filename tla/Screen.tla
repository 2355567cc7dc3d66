------------------------------- MODULE Screen -------------------------------
(***************************************************************************)
(* The rows of the terminal that a page shows: the two buffers of          *)
(* xterm.js (Buffer, BufferSet), the handlers of the control sequences     *)
(* that move the cursor, the margins and the lines (InputHandler), and the *)
(* calls of the user's side that come between two of them (scrolling the   *)
(* view, resizing the window).                                             *)
(*                                                                         *)
(* A line is a position in the list of lines: what is written in it is the *)
(* subject of module Reflow.  One line of the normal buffer is followed by *)
(* an observer ("followed", the set of the positions where that line       *)
(* object is found), so that a property can speak of what becomes of any   *)
(* given line.                                                             *)
(*                                                                         *)
(* A handler that reaches for a line that is not there throws, and the     *)
(* exception leaves the write loop marked as in progress: nothing that is  *)
(* received afterwards is ever shown ("failed").                           *)
(***************************************************************************)
EXTENDS Integers, FiniteSets

CONSTANTS
  Sizes,       \* the sizes [cols, rows] the window takes
  Scrollback,  \* options.scrollback: lines kept above the screen
  Params,      \* the parameters of the control sequences
  Margins,     \* the pairs of parameters of the one that sets the margins
  MaxX,        \* bound: the column without wraparound
  MaxAbove,    \* bound: how far above the screen the cursor goes
  MaxChanges   \* bound: how often margins, saved position or size are set, or the
               \* alternate buffer entered

ASSUME ScreenAssumption ==
  /\ \A s \in Sizes : s.cols \in Nat \ {0, 1} /\ s.rows \in Nat \ {0}
  /\ Sizes \subseteq [cols : Nat, rows : Nat]
  /\ Scrollback \in Nat \ {0}
  /\ Params \subseteq Nat \ {0}
  /\ Margins \subseteq (Nat \ {0}) \X Nat
  /\ MaxX \in Nat /\ MaxAbove \in Nat /\ MaxChanges \in Nat

VARIABLES
  cols, rows,     \* Terminal.cols, Terminal.rows
  active,         \* buffers.active
  buf,            \* the two buffers
  userScrolling,  \* Terminal._userScrolling
  failed,         \* an exception has ended the write loop
  followed,       \* positions of the line the observer follows
  changes         \* how often that has happened

vars == <<cols, rows, active, buf, userScrolling, failed, followed, changes>>

Lesser(a, b) == IF a < b THEN a ELSE b
Greater(a, b) == IF a > b THEN a ELSE b

Which == {"normal", "alt"}

Buffers == [len : Nat, max : Nat, ybase : Nat, ydisp : Nat, x : Int, y : Int,
            top : Nat, bottom : Nat, savedY : Int]

b == buf[active]

(***************************************************************************)
(* The positions of the followed line after lines are taken out or put in. *)
(* A deletion past the end takes the last line away.                       *)
(***************************************************************************)
Without(f, at) == {i \in f : i < at} \cup {i - 1 : i \in {j \in f : j > at}}
Before(f, at) == {i \in f : i < at} \cup {i + 1 : i \in {j \in f : j >= at}}
Trimmed(f, n) == {i - n : i \in {j \in f : j >= n}}

(***************************************************************************)
(* Buffer.clear, and a buffer as BufferSet makes it: the normal one with a *)
(* full screen of lines, the other one without any.                        *)
(***************************************************************************)
NewBuffer(which, r) ==
  [len |-> IF which = "normal" THEN r ELSE 0,
   max |-> IF which = "normal" THEN r + Scrollback ELSE r,
   ybase |-> 0, ydisp |-> 0, x |-> 0, y |-> 0,
   top |-> 0, bottom |-> r - 1, savedY |-> 0]

Init ==
  /\ \E s \in Sizes : cols = s.cols /\ rows = s.rows
  /\ active = "normal"
  /\ buf = [w \in Which |-> NewBuffer(w, rows)]
  /\ userScrolling = FALSE
  /\ failed = FALSE
  /\ followed = {}
  /\ changes = 0

\* The observer turns to another line of the normal buffer.
Follow ==
  /\ active = "normal"
  /\ \E i \in 0..(b.len - 1) : followed' = {i}
  /\ UNCHANGED <<cols, rows, active, buf, userScrolling, failed, changes>>

-----------------------------------------------------------------------------
(***************************************************************************)
(* What a handler leaves behind: a new value of the active buffer, and the *)
(* new positions of the followed line, which is in the normal buffer.      *)
(***************************************************************************)
Stay == UNCHANGED <<cols, rows, active, userScrolling>>
Keep == Stay /\ UNCHANGED changes
Change == changes < MaxChanges /\ changes' = changes + 1

Becomes(nb) == buf' = [buf EXCEPT ![active] = nb]

Moves(nb) == Becomes(nb) /\ Keep /\ UNCHANGED <<failed, followed>>

Shifts(nb, f) ==
  /\ Becomes(nb)
  /\ followed' = IF active = "normal" THEN f ELSE followed
  /\ Keep
  /\ UNCHANGED failed

(***************************************************************************)
(* lines.get(i) finds a line when i is in the list; past the end of a full *)
(* list the index wraps to a line; elsewhere the slot is either empty or   *)
(* holds a line that was dropped earlier, and only the first one throws.   *)
(***************************************************************************)
Present(nb, i) == i \in 0..(nb.len - 1) \/ (i >= nb.len /\ nb.len = nb.max)
Reaches(nb, i) == failed' \in IF Present(nb, i) THEN {FALSE} ELSE BOOLEAN

\* A handler that edits the cells of the cursor's line and moves x only.
Edits(nx) ==
  /\ Reaches(b, b.ybase + b.y)
  /\ IF failed' THEN buf' = buf ELSE Becomes([b EXCEPT !.x = nx])
  /\ Keep
  /\ UNCHANGED followed

(***************************************************************************)
(* Terminal.scroll: with the top margin at the first row the line goes to  *)
(* the history, otherwise the lines of the region move up by one.          *)
(***************************************************************************)
\* Mutant: the view stays put when the oldest line goes.
ScrolledBufferHolding(nb) ==
  IF nb.top # 0 \/ nb.len = nb.max
  THEN [nb EXCEPT !.ydisp = IF userScrolling THEN nb.ydisp ELSE nb.ybase]
  ELSE [nb EXCEPT !.len = nb.len + 1, !.ybase = nb.ybase + 1,
                  !.ydisp = IF userScrolling THEN nb.ydisp ELSE nb.ybase + 1]

ScrolledBuffer(nb) ==
  LET full == nb.len = nb.max
      up   == IF nb.top # 0 THEN nb
              ELSE IF full
              THEN [nb EXCEPT !.ydisp = IF userScrolling
                                        THEN Greater(nb.ydisp - 1, 0)
                                        ELSE nb.ydisp]
              ELSE [nb EXCEPT !.len = nb.len + 1,
                              !.ybase = nb.ybase + 1,
                              !.ydisp = IF userScrolling THEN nb.ydisp
                                        ELSE nb.ydisp + 1]
  IN  [up EXCEPT !.ydisp = IF userScrolling THEN up.ydisp ELSE up.ybase]

ScrolledFollowed(nb) ==
  LET topRow    == nb.ybase + nb.top
      bottomRow == nb.ybase + nb.bottom
      inserted  == Before(followed, bottomRow + 1)
  IN  IF nb.top = 0
      THEN IF nb.len = nb.max THEN Trimmed(inserted, 1) ELSE inserted
      ELSE LET f == followed \ {IF nb.bottom > nb.top THEN topRow ELSE bottomRow}
           IN  {IF i > topRow /\ i <= bottomRow THEN i - 1 ELSE i : i \in f}

\* A row down, scrolling at the bottom margin (lineFeed, print, index).
Down(nb) == IF nb.y + 1 > nb.bottom THEN ScrolledBuffer(nb)
            ELSE [nb EXCEPT !.y = nb.y + 1]
DownFollowed(nb) == IF nb.y + 1 > nb.bottom THEN ScrolledFollowed(nb)
                    ELSE followed

InScreenX(x) == IF x >= cols THEN cols - 1 ELSE x
BackX(x) == IF x >= cols THEN x - 1 ELSE x
InScreenY(y) == IF y >= rows THEN rows - 1 ELSE y

-----------------------------------------------------------------------------
(***************************************************************************)
(* Characters.  A wide one takes two columns, a combining one (width 0)    *)
(* joins the cell before it.  Wraparound mode can be set at any time.      *)
(***************************************************************************)
PrintText(width, wraparound) ==
  /\ b.x < MaxX
  /\ IF width = 0 /\ b.x > 0 THEN Edits(b.x)
     ELSE IF b.x + width - 1 < cols THEN Edits(b.x + Greater(width, 1))
     ELSE IF ~wraparound THEN IF width = 2 THEN Moves(b) ELSE Edits(b.x + 1)
     ELSE LET nb == Down([b EXCEPT !.x = 0])
          IN  /\ Reaches(nb, nb.ybase + nb.y)
              /\ Becomes([nb EXCEPT !.x = IF failed' THEN 0 ELSE width])
              /\ followed' = IF active = "normal" THEN DownFollowed(b)
                             ELSE followed
              /\ Keep

LineFeed == Shifts([Down(b) EXCEPT !.x = BackX(b.x)], DownFollowed(b))
CarriageReturn == Moves([b EXCEPT !.x = 0])
Backspace == Moves([b EXCEPT !.x = Greater(b.x - 1, 0)])
NextLine == Shifts([Down(b) EXCEPT !.x = 0], DownFollowed(b))

\* Tab stops may be anywhere: tabSet and tabClear choose them.
Tab == \E x \in (b.x + 1)..(cols - 1) \cup {cols - 1} : Moves([b EXCEPT !.x = x])
CursorForwardTab == Tab
CursorBackwardTab ==
  \E x \in 0..Lesser(b.x - 1, cols - 1) \cup {0} : Moves([b EXCEPT !.x = x])

\* What these do to the cells is in module Reflow; here they reach for the row.
InsertChars == Edits(b.x)
DeleteChars == Edits(b.x)
EraseChars == Edits(b.x)
EraseInLine == Edits(b.x)
RepeatPrecedingCharacter == Edits(b.x)

CursorUp(n) == Moves([b EXCEPT !.y = Greater(b.y - n, 0)])
CursorDown(n) ==
  Moves([b EXCEPT !.y = InScreenY(b.y + n), !.x = BackX(b.x)])
CursorForward(n) == Moves([b EXCEPT !.x = InScreenX(b.x + n)])
CursorBackward(n) == Moves([b EXCEPT !.x = Greater(BackX(b.x) - n, 0)])
CursorNextLine(n) == Moves([b EXCEPT !.y = InScreenY(b.y + n), !.x = 0])
CursorPrecedingLine(n) == Moves([b EXCEPT !.y = Greater(b.y - n, 0), !.x = 0])
CursorCharAbsolute(n) == n - 1 <= MaxX /\ Moves([b EXCEPT !.x = n - 1])
CharPosAbsolute(n) == Moves([b EXCEPT !.x = InScreenX(n - 1)])
LinePosAbsolute(n) == Moves([b EXCEPT !.y = InScreenY(n - 1)])
CursorPosition(r, c) ==
  Moves([b EXCEPT !.y = InScreenY(r - 1), !.x = InScreenX(c - 1)])

HPositionRelative(n) == CursorForward(n)
VPositionRelative(n) == CursorDown(n)
HVPosition(r, c) == CursorPosition(r, c)

\* The saved column is one of the columns; it is not followed further.
SaveCursor ==
  /\ Change /\ Stay
  /\ Becomes([b EXCEPT !.savedY = b.y])
  /\ UNCHANGED <<failed, followed>>
RestoreCursor ==
  \E x \in 0..cols : Moves([b EXCEPT !.x = x, !.y = b.savedY])

\* The margins are not compared with one another, the top one not with rows.
SetScrollRegion(t, m) ==
  /\ Change /\ Stay
  /\ Becomes([b EXCEPT !.top = t - 1, !.x = 0, !.y = 0,
                       !.bottom = IF m \in 1..rows THEN m - 1 ELSE rows - 1])
  /\ UNCHANGED <<failed, followed>>

SoftReset ==
  Moves([b EXCEPT !.top = 0, !.bottom = rows - 1, !.x = 0, !.y = 0])

-----------------------------------------------------------------------------
(***************************************************************************)
(* Lines taken out of the region and blank ones put in: two splices of the *)
(* list for each line.  The second one may start past the end, when the    *)
(* cursor or the top margin is below the screen: the list then grows over  *)
(* the slot of the line that was last.                                     *)
(***************************************************************************)
TakenOut(at) ==
  Without(followed, Greater(0, Lesser(at, b.len - 1)))

PutIn(f, at) ==
  IF at < b.len THEN Before(f, Greater(at, 0))
  ELSE (f \cup (followed \cap {b.len - 1})) \ {at - b.max}

row == b.ybase + b.y
regionTop == b.ybase + b.top
regionBottom == b.ybase + b.bottom

\* Mutant: the lines below the margin move too.
InsertLinesBelowMargin ==
  /\ followed' = IF active = "normal" THEN PutIn(TakenOut(b.len - 1), row)
                 ELSE followed
  /\ Keep
  /\ UNCHANGED <<buf, failed>>

\* A row above the list is shifted in from an empty or a dropped slot.
InsertLines ==
  /\ failed' \in IF row < 0 THEN BOOLEAN ELSE {FALSE}
  /\ followed' = IF active = "normal" THEN PutIn(TakenOut(regionBottom), row)
                 ELSE followed
  /\ Keep
  /\ UNCHANGED buf
DeleteLines == Shifts(b, PutIn(TakenOut(row), regionBottom))
ScrollUp == Shifts(b, PutIn(TakenOut(regionTop), regionBottom))
ScrollDown == Shifts(b, PutIn(TakenOut(regionBottom), regionTop))

Index == Shifts([Down(b) EXCEPT !.x = BackX(b.x)], DownFollowed(b))

\* At the top margin the region moves down; elsewhere the cursor moves up.
ReverseIndex ==
  IF b.y = b.top
  THEN Shifts(b, {IF i >= row /\ i < regionBottom THEN i + 1 ELSE i :
                    i \in followed \ {IF b.bottom > b.top THEN regionBottom
                                      ELSE row}})
  ELSE b.y > -MaxAbove /\ Moves([b EXCEPT !.y = b.y - 1])

\* eraseInDisplay: 0 and 2, 1, 3.
EraseBelow ==
  /\ Reaches(b, row)
  /\ Keep
  /\ UNCHANGED <<buf, followed>>
\* Mutant: the next row is unmarked whatever the column.
EraseAboveAlways ==
  /\ failed' \in IF b.y < 0 THEN {TRUE}
                 ELSE IF Present(b, row) /\ Present(b, b.y + 1)
                 THEN {FALSE} ELSE BOOLEAN
  /\ Keep
  /\ UNCHANGED <<buf, followed>>
\* The row after the cursor's is looked for without ybase.
EraseAbove ==
  /\ failed' \in IF b.y < 0 THEN {TRUE}
                 ELSE IF Present(b, row) /\ (b.x + 1 < cols \/ Present(b, b.y + 1))
                 THEN {FALSE} ELSE BOOLEAN
  /\ Keep
  /\ UNCHANGED <<buf, followed>>

(* ED 3: the lines of the history go.                                      *)
EraseHistory ==
  LET n == b.len - rows
  IN  /\ n > 0
      /\ Shifts([b EXCEPT !.len = b.len - n, !.ybase = Greater(b.ybase - n, 0),
                          !.ydisp = Greater(b.ydisp - n, 0)],
                Trimmed(followed, n))

(***************************************************************************)
(* The alternate buffer (BufferSet): it gets its lines when it is entered, *)
(* the cursor goes with it, and leaving clears it.  What a cleared buffer  *)
(* keeps is the saved cursor.                                              *)
(***************************************************************************)
ActivateAlt(saving) ==
  LET normal == IF saving THEN [b EXCEPT !.savedY = b.y] ELSE b
  IN  /\ Change
      /\ active' = "alt"
      /\ buf' = IF active = "alt" THEN [buf EXCEPT !["alt"] = normal]
                ELSE [normal |-> normal,
                      alt |-> [buf["alt"] EXCEPT !.len = rows, !.x = b.x, !.y = b.y]]
      /\ followed' = {}
      /\ UNCHANGED <<cols, rows, userScrolling, failed>>

ActivateNormal(restoring) ==
  LET to == IF active = "alt" THEN [buf["normal"] EXCEPT !.x = b.x, !.y = b.y] ELSE b
  IN  /\ active' = "normal"
      /\ \E x \in IF restoring THEN 0..cols ELSE {0} :
           buf' = [normal |-> IF restoring THEN [to EXCEPT !.x = x, !.y = to.savedY]
                             ELSE to,
                   alt |-> IF active = "alt"
                           THEN [NewBuffer("alt", rows) EXCEPT !.savedY = b.savedY]
                           ELSE buf["alt"]]
      /\ UNCHANGED <<cols, rows, userScrolling, failed, followed,
                     changes>>

\* Terminal.reset keeps the size and whether the user has scrolled.
Reset ==
  /\ ~failed
  /\ active' = "normal"
  /\ buf' = [w \in Which |-> NewBuffer(w, rows)]
  /\ followed' = {}
  /\ UNCHANGED <<cols, rows, userScrolling, failed, changes>>

-----------------------------------------------------------------------------
(***************************************************************************)
(* The user's side: scrollLines (wheel, scroll bar, page keys), the return *)
(* to the bottom that a key brings, the size of the window.                *)
(***************************************************************************)
ScrollLines(n) ==
  /\ ~(n < 0 /\ b.ydisp = 0)
  /\ userScrolling' = IF n < 0 THEN TRUE
                      ELSE IF n + b.ydisp >= b.ybase THEN FALSE ELSE userScrolling
  /\ Becomes([b EXCEPT !.ydisp = Greater(Lesser(b.ydisp + n, b.ybase), 0)])
  /\ UNCHANGED <<cols, rows, active, failed, followed, changes>>

ScrollPages(n) == ScrollLines(n * (rows - 1))
ScrollToTop == ScrollLines(-b.ydisp)
ScrollToBottom == ScrollLines(b.ybase - b.ydisp)

\* Terminal.handler, for what a key sends.
Key == b.ybase # b.ydisp /\ ScrollToBottom

(***************************************************************************)
(* Buffer.resize: more rows show lines of the history when the cursor is   *)
(* at the bottom and get blank lines otherwise; fewer rows drop the lines  *)
(* below the cursor and push the others to the history.  The loops are     *)
(* counted here: pulled, popped and pushed are how often each branch is    *)
(* taken when the rows of the screen have their lines (RowsPresent).       *)
(***************************************************************************)
Grown(nb, newRows) ==
  LET lacking == Greater(nb.ybase + newRows - nb.len, 0)
      pulled  == IF nb.len <= nb.ybase + nb.y + 1 THEN Lesser(nb.ybase, lacking) ELSE 0
  IN  [nb EXCEPT !.len = nb.len + (lacking - pulled),
                 !.ybase = nb.ybase - pulled,
                 !.ydisp = Greater(nb.ydisp - pulled, 0),
                 !.y = Lesser(nb.y, newRows - 1) + pulled]

\* Mutant: the top of the view is left where it was when lines are trimmed.
ShrunkViewKept(nb, newRows, newMax) ==
  LET popped == Lesser(rows - newRows, Greater(nb.len - nb.ybase - nb.y - 1, 0))
      pushed == rows - newRows - popped
      trim   == Greater(nb.len - popped - newMax, 0)
  IN  [nb EXCEPT !.len = nb.len - popped - trim,
                 !.ybase = Greater(nb.ybase + pushed - trim, 0),
                 !.ydisp = nb.ydisp + pushed,
                 !.y = Lesser(nb.y, newRows - 1)]

Shrunk(nb, newRows, newMax) ==
  LET popped == Lesser(rows - newRows, Greater(nb.len - nb.ybase - nb.y - 1, 0))
      pushed == rows - newRows - popped
      trim   == Greater(nb.len - popped - newMax, 0)
  IN  [nb EXCEPT !.len = nb.len - popped - trim,
                 !.ybase = Greater(nb.ybase + pushed - trim, 0),
                 !.ydisp = Greater(nb.ydisp + pushed - trim, 0),
                 !.y = Lesser(nb.y, newRows - 1)]

MaxLength(which, r) == IF which = "normal" THEN r + Scrollback ELSE r

\* Mutant: the saved row is not brought into the new size.
ResizedRowsSavedKept(nb, which, c, r) ==
  LET newMax == MaxLength(which, r)
      sized  == IF r > rows THEN Grown(nb, r) ELSE Shrunk(nb, r, newMax)
  IN  IF nb.len = 0 THEN [nb EXCEPT !.max = newMax, !.bottom = r - 1]
      ELSE [sized EXCEPT !.max = newMax, !.x = Lesser(nb.x, c - 1),
                         !.top = 0, !.bottom = r - 1]

ResizedRows(nb, which, c, r) ==
  LET newMax == MaxLength(which, r)
      sized  == IF r > rows THEN Grown(nb, r) ELSE Shrunk(nb, r, newMax)
  IN  IF nb.len = 0 THEN [nb EXCEPT !.max = newMax, !.bottom = r - 1]
      ELSE [sized EXCEPT !.max = newMax, !.x = Lesser(nb.x, c - 1),
                         !.savedY = Lesser(nb.savedY, r - 1),
                         !.top = 0, !.bottom = r - 1]

(***************************************************************************)
(* Buffer._reflow, as the number n of lines it takes away (more columns)   *)
(* or adds (fewer; past the capacity more of them change nothing): how the *)
(* cells move is in module Reflow.                                         *)
(***************************************************************************)
ReflowedLarger(nb, n, r) ==
  LET ybase == Greater(nb.ybase - n, 0)
  IN  [nb EXCEPT !.ybase = ybase, !.ydisp = Lesser(nb.ydisp, ybase),
                 !.y = IF n > nb.ybase THEN Greater(nb.y - (n - nb.ybase), 0) ELSE nb.y,
                 !.len = Greater(ybase + r, nb.len - n)]

\* The first row is counted for all n lines at once.  With a cursor below the
\* screen, or a list that goes on below it, it depends on which lines they
\* are: each may be counted as trimmed that is not.
ReflowedSmaller(nb, n, r) ==
  LET trimmed == IF nb.ybase = 0 /\ nb.y # nb.len - 1
                 THEN Greater(0, nb.y - nb.max + n)
                 ELSE Greater(0, nb.len - nb.max + n)
      popped  == IF nb.ybase = 0 THEN Lesser(n, Greater(r - 1 - nb.y, 0)) ELSE 0
      rest    == n - trimmed - popped
      len     == Lesser(nb.max, nb.len - popped + n)
      counted == IF nb.ybase = 0
                 THEN IF rest = 0 THEN 0 ELSE Greater(1, Lesser(rest, len - r))
                 ELSE Greater(nb.ybase, Lesser(nb.ybase + rest, len - r))
      ordinary == nb.len = nb.ybase + r /\ (nb.ybase > 0 \/ nb.y < r)
  IN  { [nb EXCEPT !.ybase = ybase,
                   !.ydisp = IF nb.ydisp = nb.ybase THEN ybase ELSE nb.ydisp,
                   !.y = nb.y + popped,
                   !.len = len] :
          ybase \in IF ordinary THEN {counted} ELSE nb.ybase..(len - r) }

Reflowed(nb, n, c, r) ==
  IF c > cols THEN {ReflowedLarger(nb, n, r)}
  ELSE IF c < cols THEN ReflowedSmaller(nb, n, r) ELSE {nb}

ResizeTo(c, r) ==
  /\ <<c, r>> # <<cols, rows>>
  /\ Change
  /\ LET normal == ResizedRows(buf["normal"], "normal", c, r)
     IN  \E n \in 0..(IF c > cols THEN normal.len - 1 ELSE normal.max) :
           \E reflowed \in Reflowed(normal, n, c, r) :
             buf' = [normal |-> reflowed,
                     alt |-> ResizedRows(buf["alt"], "alt", c, r)]
  /\ cols' = c
  /\ rows' = r
  /\ followed' = {}
  /\ UNCHANGED <<active, userScrolling, failed>>

Resize == \E s \in Sizes : ResizeTo(s.cols, s.rows)

\* setMode and resetMode with parameter 3 change the columns only.
ColumnMode == \E s \in Sizes : ResizeTo(s.cols, rows)

-----------------------------------------------------------------------------
Output ==
  /\ ~failed
  /\ \/ \E w \in 0..2, wraparound \in BOOLEAN : PrintText(w, wraparound)
     \/ LineFeed \/ CarriageReturn \/ Backspace \/ NextLine
     \/ Tab \/ CursorForwardTab \/ CursorBackwardTab
     \/ InsertChars \/ DeleteChars \/ EraseChars \/ EraseInLine
     \/ RepeatPrecedingCharacter
     \/ \E n \in Params : \/ CursorUp(n) \/ CursorDown(n) \/ CursorForward(n)
                          \/ CursorBackward(n) \/ CursorNextLine(n)
                          \/ CursorPrecedingLine(n) \/ CursorCharAbsolute(n)
                          \/ CharPosAbsolute(n) \/ LinePosAbsolute(n)
                          \/ HPositionRelative(n) \/ VPositionRelative(n)
     \/ \E r, c \in Params : CursorPosition(r, c) \/ HVPosition(r, c)
     \/ SaveCursor \/ RestoreCursor
     \/ \E t \in Margins : SetScrollRegion(t[1], t[2])
     \/ SoftReset
     \/ InsertLines \/ DeleteLines \/ ScrollUp \/ ScrollDown
     \/ Index \/ ReverseIndex \/ EraseBelow \/ EraseAbove \/ EraseHistory
     \/ \E saving \in BOOLEAN : ActivateAlt(saving)
     \/ \E restoring \in BOOLEAN : ActivateNormal(restoring)
     \/ ColumnMode

User == \/ \E n \in Params : ScrollLines(n) \/ ScrollLines(-n)
        \/ ScrollPages(1) \/ ScrollPages(-1) \/ ScrollToTop
        \/ Key \/ Resize

Next == Output \/ Reset \/ User \/ Follow

Spec == Init /\ [][Next]_vars

-----------------------------------------------------------------------------
TypeOK ==
  /\ cols \in Nat /\ rows \in Nat
  /\ active \in Which
  /\ buf \in [Which -> Buffers]
  /\ userScrolling \in BOOLEAN /\ failed \in BOOLEAN
  /\ followed \subseteq Int
  /\ changes \in Nat

(***************************************************************************)
(* Every row of the screen has its line, the list is never over its        *)
(* capacity, and the view starts at a line of the list with a full screen  *)
(* of lines after it: what each handler assumes when it reaches for a row, *)
(* through scrolling, region splices, buffer switches, trims and resizes.  *)
(***************************************************************************)
HasRows(nb) ==
  /\ nb.ybase + rows <= nb.len
  /\ nb.ydisp <= nb.ybase
  /\ nb.len <= nb.max
RowsPresent ==
  /\ HasRows(buf["normal"])
  /\ buf["alt"].len = 0 \/ HasRows(buf["alt"])
  /\ b.len > 0

(***************************************************************************)
(* The cursor's row and the saved rows leave the screen in two ways only:  *)
(* a reverse index above the top margin, and a window that shrinks while   *)
(* the alternate buffer, with its saved position, is not shown.            *)
(***************************************************************************)
OnScreen(y) == y \in 0..(rows - 1)
RowsInScreen == OnScreen(b.y) /\ \A w \in Which : OnScreen(buf[w].savedY)
CursorLeaves ==
  [][RowsInScreen /\ ~RowsInScreen' =>
       \/ b.y = 0 /\ b.top > 0 /\ b'.y = -1
       \/ active = "normal" /\ buf["alt"].savedY \in rows'..(rows - 1)
    ]_vars

(***************************************************************************)
(* Output stops being shown for good only when a handler looks for the     *)
(* cursor's row while the cursor is off the screen, or when the part above *)
(* the cursor is erased with the cursor in the last column of the last row *)
(* and no line in the history.                                             *)
(***************************************************************************)
FreezeCause ==
  [][~failed /\ failed' =>
       \/ ~OnScreen(b.y)
       \/ b.y = rows - 1 /\ b.x >= cols - 1 /\ b.ybase = 0
    ]_vars

(***************************************************************************)
(* What a user who has scrolled up reads stays where it is while output    *)
(* arrives: a line of the history keeps its distance to the top of the     *)
(* view while that is a place of the list, until the view is at the first  *)
(* line kept.                                                              *)
(***************************************************************************)
SameLayout == cols' = cols /\ rows' = rows /\ active' = active
HistoryStays ==
  [][\A i \in followed :
       (/\ userScrolling /\ SameLayout /\ active = "normal"
        /\ i < b.ybase /\ b.top < rows /\ OnScreen(b.y)
        /\ Output /\ b'.ydisp > 0 /\ i + b'.ydisp >= b.ydisp)
       => i - b.ydisp + b'.ydisp \in followed']_vars

(***************************************************************************)
(* Lines outside the margins keep their row: with the cursor between well  *)
(* formed margins and no line below the screen, no sequence moves a row    *)
(* outside of them, moves a line across them, or shows one line in two     *)
(* rows.                                                                   *)
(***************************************************************************)
InRegion == b.top < b.bottom /\ b.y \in b.top..b.bottom /\ b.len = b.ybase + rows
MarginsHold ==
  [][\A i \in followed :
       (/\ active = "normal" /\ SameLayout /\ InRegion
        /\ followed = {i} /\ Output)
       => /\ i > regionBottom \/ (i >= b.ybase /\ i < regionTop)
             => i - b.ybase + b'.ybase \in followed'
          /\ i \in regionTop..regionBottom /\ b.top > 0
             => \A j \in followed' : j - b'.ybase \in b.top..b.bottom
          /\ Cardinality(followed') <= 1]_vars
=============================================================================
