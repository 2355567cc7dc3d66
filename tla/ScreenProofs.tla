----------------------------- MODULE ScreenProofs -----------------------------
(***************************************************************************)
(* Proofs about the rows of the screen (module Screen), for windows of any *)
(* size, any history and any sequence of output, calls and resizes.        *)
(***************************************************************************)
EXTENDS MCScreen, FiniteSetTheorems, TLAPS

(* What is true of a buffer between two handlers, in a window of r rows.   *)
(* The alternate buffer has no lines while it is not shown.                *)
Sound(nb, which, r) ==
  /\ nb \in Buffers
  /\ nb.max = MaxLength(which, r) /\ nb.len <= nb.max
  /\ nb.bottom < r /\ nb.ydisp <= nb.ybase
  /\ \/ nb.ybase + r <= nb.len
     \/ which = "alt" /\ nb.len = 0 /\ nb.ybase = 0

ScreenInv ==
  /\ TypeOK
  /\ rows > 0 /\ cols > 1
  /\ \A w \in Which : Sound(buf[w], w, rows)
  /\ b.len > 0
-----------------------------------------------------------------------------
LEMMA NewSound ==
  ASSUME NEW r \in Nat, r > 0, NEW w \in Which
  PROVE  /\ Sound(NewBuffer(w, r), w, r) /\ NewBuffer(w, r) \in Buffers
         /\ NewBuffer("normal", r).len = r
BY ScreenAssumption DEF Sound, NewBuffer, Buffers, Which, MaxLength

LEMMA InitScreen == Init => ScreenInv
<1> SUFFICES ASSUME Init PROVE ScreenInv
  OBVIOUS
<1>1. rows \in Nat /\ rows > 0 /\ cols \in Nat /\ cols > 1
  BY ScreenAssumption DEF Init
<1>2. buf = [w \in Which |-> NewBuffer(w, rows)] /\ active = "normal" /\ active \in Which
  BY DEF Init, Which
<1>3. buf \in [Which -> Buffers] /\ (\A w \in Which : Sound(buf[w], w, rows)) /\ b.len > 0
  BY <1>1, <1>2, NewSound DEF b
<1> QED
  BY <1>1, <1>2, <1>3 DEF Init, ScreenInv, TypeOK

(* A handler that changes the shown buffer, and leaves it sound.           *)
LEMMA BecomesSound ==
  ASSUME ScreenInv, Stay, NEW nb, Becomes(nb), Sound(nb, active, rows), nb.len > 0
  PROVE  /\ rows' > 0 /\ cols' > 1 /\ cols' \in Nat /\ rows' \in Nat /\ active' \in Which
         /\ userScrolling' \in BOOLEAN /\ buf' \in [Which -> Buffers]
         /\ \A w \in Which : Sound(buf'[w], w, rows')
         /\ b'.len > 0 /\ b' = nb
<1> QED
  BY DEF ScreenInv, TypeOK, Stay, Becomes, Sound, b

(* What the action properties say of one step.                             *)
CursorStep ==
  RowsInScreen /\ ~RowsInScreen' =>
    \/ b.y = 0 /\ b.top > 0 /\ b'.y = -1
    \/ active = "normal" /\ buf["alt"].savedY \in rows'..(rows - 1)
FreezeStep ==
  ~failed /\ failed' => ~OnScreen(b.y) \/ (b.y = rows - 1 /\ b.x >= cols - 1 /\ b.ybase = 0)
Good == ScreenInv' /\ CursorStep /\ FreezeStep

LEMMA BecomesGood ==
  ASSUME ScreenInv, Stay, NEW nb, Becomes(nb), Sound(nb, active, rows), nb.len > 0,
         changes' \in Nat, failed' \in BOOLEAN, followed' \subseteq Int, FreezeStep,
         RowsInScreen => /\ OnScreen(nb.savedY)
                         /\ OnScreen(nb.y) \/ (b.y = 0 /\ b.top > 0 /\ nb.y = -1)
  PROVE  Good
<1>1. ScreenInv' /\ b' = nb
  BY BecomesSound DEF ScreenInv, TypeOK
<1>2. rows' = rows /\ \A w \in Which : buf'[w].savedY = nb.savedY \/ buf'[w].savedY = buf[w].savedY
  BY DEF Stay, Becomes, ScreenInv, TypeOK
<1>3. CursorStep
  BY <1>1, <1>2 DEF CursorStep, RowsInScreen, OnScreen
<1> QED
  BY <1>1, <1>3 DEF Good

(* A move changes neither the lines nor the view.                          *)
SameLines(nb) ==
  /\ nb \in Buffers
  /\ nb.len = b.len /\ nb.max = b.max /\ nb.ybase = b.ybase /\ nb.ydisp = b.ydisp
  /\ nb.bottom < rows

LEMMA SameLinesSound ==
  ASSUME ScreenInv, NEW nb, SameLines(nb)
  PROVE  Sound(nb, active, rows) /\ nb.len > 0
BY DEF ScreenInv, TypeOK, SameLines, Sound, b

LEMMA MoveKinds ==
  ASSUME ScreenInv, NEW nx \in Int, NEW ny \in Int
  PROVE  /\ SameLines([b EXCEPT !.x = nx])
         /\ SameLines([b EXCEPT !.y = ny])
         /\ SameLines([b EXCEPT !.x = nx, !.y = ny])
         /\ SameLines([b EXCEPT !.y = ny, !.x = nx])
         /\ SameLines(b)
         /\ SameLines([b EXCEPT !.savedY = ny])
BY DEF ScreenInv, TypeOK, SameLines, Sound, b, Buffers

(* A row down scrolls the list or moves the cursor.                        *)
LEMMA ScrolledIs ==
  ASSUME NEW nb \in Buffers
  PROVE  LET full == nb.top # 0 \/ nb.len = nb.max
             base == IF full THEN nb.ybase ELSE nb.ybase + 1
         IN  ScrolledBuffer(nb) =
               [nb EXCEPT !.len = IF full THEN nb.len ELSE nb.len + 1, !.ybase = base,
                          !.ydisp = IF ~userScrolling THEN base
                                    ELSE IF nb.top = 0 /\ full THEN Greater(nb.ydisp - 1, 0) ELSE nb.ydisp]
<1>0. /\ nb.len \in Nat /\ nb.ybase \in Nat /\ nb.ydisp \in Nat /\ nb.ydisp + 1 \in Nat
      /\ nb.len + 1 \in Nat /\ nb.ybase + 1 \in Nat
  BY DEF Buffers
<1>a. Greater(nb.ydisp - 1, 0) \in Nat
  BY <1>0 DEF Greater
<1>b. nb = [nb EXCEPT !.len = nb.len, !.ybase = nb.ybase, !.ydisp = nb.ydisp]
  BY DEF Buffers
<1> DEFINE gone == Greater(nb.ydisp - 1, 0)
           up == [nb EXCEPT !.len = nb.len + 1, !.ybase = nb.ybase + 1, !.ydisp = IF userScrolling THEN nb.ydisp ELSE nb.ydisp + 1]
           view == [nb EXCEPT !.ydisp = IF userScrolling THEN gone ELSE nb.ydisp]
<1>1. CASE nb.top # 0
  <2>1. ScrolledBuffer(nb) = [nb EXCEPT !.ydisp = IF userScrolling THEN nb.ydisp ELSE nb.ybase]
    BY <1>1 DEF ScrolledBuffer
  <2> QED
    BY <1>0, <1>a, <1>b, <1>1, <2>1 DEF Buffers
<1>2. CASE nb.top = 0 /\ nb.len = nb.max
  <2>1. ScrolledBuffer(nb) = [view EXCEPT !.ydisp = IF userScrolling THEN view.ydisp ELSE view.ybase]
    BY <1>2 DEF ScrolledBuffer
  <2>2. CASE userScrolling
    BY <1>0, <1>a, <1>b, <1>2, <2>1, <2>2 DEF Buffers
  <2>3. CASE ~userScrolling
    BY <1>0, <1>a, <1>b, <1>2, <2>1, <2>3 DEF Buffers
  <2> QED
    BY <2>2, <2>3
<1>3. CASE nb.top = 0 /\ nb.len # nb.max
  <2>1. ScrolledBuffer(nb) = [up EXCEPT !.ydisp = IF userScrolling THEN up.ydisp ELSE up.ybase]
    BY <1>3 DEF ScrolledBuffer
  <2>2. CASE userScrolling
    BY <1>0, <1>3, <2>1, <2>2 DEF Buffers
  <2>3. CASE ~userScrolling
    BY <1>0, <1>3, <2>1, <2>3 DEF Buffers
  <2> QED
    BY <2>2, <2>3
<1> QED
  BY <1>1, <1>2, <1>3

LEMMA ScrolledSound ==
  ASSUME ScreenInv, NEW nb, SameLines(nb)
  PROVE  /\ Sound(ScrolledBuffer(nb), active, rows) /\ ScrolledBuffer(nb).len > 0
         /\ ScrolledBuffer(nb) \in Buffers /\ ScrolledBuffer(nb).y = nb.y
         /\ ScrolledBuffer(nb).savedY = nb.savedY
         /\ ScrolledBuffer(nb).ybase = IF nb.top # 0 \/ nb.len = nb.max THEN nb.ybase ELSE nb.ybase + 1
         /\ userScrolling => ScrolledBuffer(nb).ydisp = IF nb.top = 0 /\ nb.len = nb.max
                                                       THEN Greater(nb.ydisp - 1, 0) ELSE nb.ydisp
<1> DEFINE full == nb.top # 0 \/ nb.len = nb.max
           n == IF full THEN nb.len ELSE nb.len + 1
           base == IF full THEN nb.ybase ELSE nb.ybase + 1
           disp == IF ~userScrolling THEN base
                   ELSE IF nb.top = 0 /\ full THEN Greater(nb.ydisp - 1, 0) ELSE nb.ydisp
           new == [nb EXCEPT !.len = n, !.ybase = base, !.ydisp = disp]
<1>0. /\ nb \in Buffers /\ Sound(nb, active, rows) /\ nb.len > 0 /\ rows \in Nat
      /\ nb.ybase + rows <= nb.len
  BY SameLinesSound DEF ScreenInv, TypeOK, SameLines, Sound
<1>1. n \in Nat /\ base \in Nat /\ disp \in Nat /\ n > 0 /\ n <= nb.max /\ disp <= base /\ base + rows <= n
  BY <1>0 DEF Buffers, Sound, Greater
<1>2. ScrolledBuffer(nb) = new
  BY <1>0, ScrolledIs
<1> HIDE DEF n, base, disp
<1>3. /\ new \in Buffers /\ new.len = n /\ new.ybase = base /\ new.ydisp = disp
      /\ new.max = nb.max /\ new.y = nb.y /\ new.bottom = nb.bottom /\ new.savedY = nb.savedY
  BY <1>0, <1>1 DEF Buffers
<1>4. base = IF nb.top # 0 \/ nb.len = nb.max THEN nb.ybase ELSE nb.ybase + 1
  BY DEF base
<1>5. userScrolling => disp = IF nb.top = 0 /\ nb.len = nb.max THEN Greater(nb.ydisp - 1, 0) ELSE nb.ydisp
  BY DEF disp
<1> HIDE DEF new
<1> QED
  BY <1>0, <1>1, <1>2, <1>3, <1>4, <1>5 DEF Sound

LEMMA DownSound ==
  ASSUME ScreenInv, NEW nb, SameLines(nb)
  PROVE  /\ Sound(Down(nb), active, rows) /\ Down(nb).len > 0
         /\ Down(nb) \in Buffers
         /\ Down(nb).y \in {nb.y, nb.y + 1} /\ (Down(nb).y # nb.y => nb.y < nb.bottom)
         /\ Down(nb).savedY = nb.savedY
<1>1. CASE nb.y + 1 > nb.bottom
  BY <1>1, ScrolledSound DEF Down
<1>2. CASE ~(nb.y + 1 > nb.bottom)
  BY <1>2, SameLinesSound DEF Down, SameLines, Sound, Buffers
<1> QED
  BY <1>1, <1>2

(* Positions of the followed line are integers.                            *)
LEMMA Positions ==
  ASSUME NEW f \in SUBSET Int, NEW at \in Int
  PROVE  Without(f, at) \subseteq Int /\ Before(f, at) \subseteq Int /\ Trimmed(f, at) \subseteq Int
<1>1. Without(f, at) \subseteq Int
  BY \A i \in f : i \in Int /\ i - 1 \in Int DEF Without
<1>2. Before(f, at) \subseteq Int
  BY \A i \in f : i \in Int /\ i + 1 \in Int DEF Before
<1>3. Trimmed(f, at) \subseteq Int
  BY DEF Trimmed
<1> QED
  BY <1>1, <1>2, <1>3

LEMMA ScrolledPositions ==
  ASSUME ScreenInv, NEW nb \in Buffers
  PROVE  ScrolledFollowed(nb) \subseteq Int /\ DownFollowed(nb) \subseteq Int
<1>1. followed \subseteq Int /\ nb.ybase + nb.bottom + 1 \in Int /\ nb.ybase + nb.top \in Int
      /\ nb.ybase + nb.bottom \in Int
  BY DEF ScreenInv, TypeOK, Buffers
<1>2. Before(followed, nb.ybase + nb.bottom + 1) \subseteq Int
  BY <1>1, Positions
<1>3. Trimmed(Before(followed, nb.ybase + nb.bottom + 1), 1) \subseteq Int
  BY <1>2, Positions
<1>4. \A f \in SUBSET Int, lo, hi \in Int : {IF i > lo /\ i <= hi THEN i - 1 ELSE i : i \in f} \subseteq Int
  OBVIOUS
<1> QED
  BY <1>1, <1>2, <1>3, <1>4 DEF ScrolledFollowed, DownFollowed

(* A step that leaves the lines, the view and the first row where they are. *)
Steady == b'.ybase = b.ybase /\ b'.ydisp = b.ydisp /\ followed' = followed

LEMMA SteadyKept ==
  ASSUME ScreenInv, Stay, NEW nb, SameLines(nb), Becomes(nb), followed' = followed
  PROVE  Steady
<1>1. Sound(nb, active, rows) /\ nb.len > 0
  BY SameLinesSound
<1>2. b' = nb
  BY <1>1, BecomesSound
<1> QED
  BY <1>2 DEF Steady, SameLines

(* Steps of the kinds that Moves, Shifts and Edits are.                    *)
LEMMA MovesGood ==
  ASSUME ScreenInv, NEW nb, SameLines(nb), Moves(nb),
         RowsInScreen => /\ OnScreen(nb.savedY)
                         /\ OnScreen(nb.y) \/ (b.y = 0 /\ b.top > 0 /\ nb.y = -1)
  PROVE  Good /\ Steady
<1>1. /\ Stay /\ Becomes(nb) /\ failed' = failed /\ followed' = followed /\ changes' = changes
  BY DEF Moves, Keep
<1>2. changes' \in Nat /\ failed' \in BOOLEAN /\ followed' \subseteq Int /\ FreezeStep
  BY <1>1 DEF ScreenInv, TypeOK, FreezeStep
<1> QED
  BY <1>1, <1>2, SameLinesSound, BecomesGood, SteadyKept

LEMMA ShiftsGood ==
  ASSUME ScreenInv, NEW nb, Sound(nb, active, rows), nb.len > 0, NEW f \in SUBSET Int, Shifts(nb, f),
         RowsInScreen => OnScreen(nb.savedY) /\ OnScreen(nb.y)
  PROVE  Good /\ b' = nb
<1>1. Stay /\ Becomes(nb) /\ failed' = failed /\ followed' \subseteq Int /\ changes' = changes
  BY DEF Shifts, Keep, ScreenInv, TypeOK
<1>2. changes' \in Nat /\ failed' \in BOOLEAN /\ FreezeStep
  BY <1>1 DEF ScreenInv, TypeOK, FreezeStep
<1> QED
  BY <1>1, <1>2, BecomesGood, BecomesSound

(* A row of the screen is reached.                                         *)
LEMMA ReachesRow ==
  ASSUME NEW nb \in Buffers, Sound(nb, active, rows), nb.len > 0, rows \in Nat, OnScreen(nb.y),
         Reaches(nb, nb.ybase + nb.y)
  PROVE  ~failed'
<1>1. nb.ybase + nb.y \in 0..(nb.len - 1)
  BY DEF Sound, Buffers, OnScreen
<1> QED
  BY <1>1 DEF Reaches, Present

LEMMA EditsGood ==
  ASSUME ScreenInv, NEW nx \in Int, Edits(nx)
  PROVE  Good /\ Steady
<1> DEFINE nb == IF failed' THEN b ELSE [b EXCEPT !.x = nx]
<1>1. Stay /\ failed' \in BOOLEAN /\ followed' = followed /\ changes' = changes
  BY DEF Edits, Keep, Reaches
<1>2. buf = [buf EXCEPT ![active] = b] /\ b \in Buffers /\ Sound(b, active, rows) /\ b.len > 0 /\ rows \in Nat
      /\ changes \in Nat /\ followed \subseteq Int
  BY DEF ScreenInv, TypeOK, b
<1>3. Becomes(nb)
  BY <1>2 DEF Edits, Becomes
<1>4. SameLines(nb) /\ nb.y = b.y /\ nb.savedY = b.savedY
  BY <1>2, MoveKinds DEF Buffers
<1>5. FreezeStep
  BY <1>2, ReachesRow DEF Edits, FreezeStep
<1>6. RowsInScreen => OnScreen(nb.savedY) /\ OnScreen(nb.y)
  BY <1>4 DEF RowsInScreen, ScreenInv, TypeOK, b
<1> HIDE DEF nb
<1> QED
  BY <1>1, <1>2, <1>3, <1>4, <1>5, <1>6, SameLinesSound, BecomesGood, SteadyKept

-----------------------------------------------------------------------------
(* Moves of the cursor, whichever of its coordinates they set.             *)
LEMMA CursorMoves ==
  ASSUME ScreenInv, NEW nx \in Int, NEW ny \in Int,
         \/ Moves([b EXCEPT !.x = nx]) \/ Moves([b EXCEPT !.y = ny])
         \/ Moves([b EXCEPT !.x = nx, !.y = ny]) \/ Moves([b EXCEPT !.y = ny, !.x = nx]),
         RowsInScreen => OnScreen(ny) \/ (b.y = 0 /\ b.top > 0 /\ ny = -1)
  PROVE  Good /\ Steady
<1>1. b \in Buffers /\ (RowsInScreen => OnScreen(b.y) /\ OnScreen(b.savedY))
  BY DEF ScreenInv, TypeOK, b, RowsInScreen
<1>2. CASE Moves([b EXCEPT !.x = nx])
  <2>1. SameLines([b EXCEPT !.x = nx]) /\ [b EXCEPT !.x = nx].y = b.y /\ [b EXCEPT !.x = nx].savedY = b.savedY
    BY <1>1, MoveKinds DEF Buffers
  <2> QED
    BY <1>1, <1>2, <2>1, MovesGood
<1>3. CASE Moves([b EXCEPT !.y = ny])
  <2>1. SameLines([b EXCEPT !.y = ny]) /\ [b EXCEPT !.y = ny].y = ny /\ [b EXCEPT !.y = ny].savedY = b.savedY
    BY <1>1, MoveKinds DEF Buffers
  <2> QED
    BY <1>1, <1>3, <2>1, MovesGood
<1>4. CASE Moves([b EXCEPT !.x = nx, !.y = ny]) \/ Moves([b EXCEPT !.y = ny, !.x = nx])
  <2> DEFINE nb == [b EXCEPT !.x = nx, !.y = ny]
  <2>1. SameLines(nb) /\ nb.y = ny /\ nb.savedY = b.savedY
    BY <1>1, MoveKinds DEF Buffers
  <2>2. [b EXCEPT !.y = ny, !.x = nx] = nb
    BY <1>1 DEF Buffers
  <2> HIDE DEF nb
  <2> QED
    BY <1>1, <1>4, <2>1, <2>2, MovesGood
<1> QED
  BY <1>2, <1>3, <1>4

LEMMA CoordinateTypes ==
  ASSUME ScreenInv, NEW i \in Int
  PROVE  /\ InScreenX(i) \in Int /\ BackX(i) \in Int /\ InScreenY(i) \in Int /\ Greater(i, 0) \in Int
         /\ i >= 0 => OnScreen(InScreenY(i))
         /\ RowsInScreen /\ i <= b.y => OnScreen(Greater(i, 0))
BY DEF ScreenInv, TypeOK, InScreenX, BackX, InScreenY, Greater, OnScreen, RowsInScreen, b, Buffers

(* The sequences that only move the cursor.                                *)
CursorMove(n) ==
  \/ CursorUp(n) \/ CursorDown(n) \/ CursorForward(n) \/ CursorBackward(n)
  \/ CursorNextLine(n) \/ CursorPrecedingLine(n) \/ CursorCharAbsolute(n)
  \/ CharPosAbsolute(n) \/ LinePosAbsolute(n)
  \/ HPositionRelative(n) \/ VPositionRelative(n)

LEMMA CursorMoveGood ==
  ASSUME ScreenInv, NEW n \in Params, CursorMove(n)
  PROVE  Good /\ Steady
<1>1. n \in Nat /\ n > 0 /\ b.x \in Int /\ b.y \in Int
  BY ScreenAssumption DEF ScreenInv, TypeOK, b, Buffers
<1>2. /\ b.y + n \in Int /\ b.y - n \in Int /\ b.x + n \in Int /\ BackX(b.x) \in Int /\ n - 1 \in Int
      /\ 0 \in Int /\ BackX(b.x) - n \in Int /\ b.y - n <= b.y /\ n - 1 >= 0
  BY <1>1, CoordinateTypes
<1>3. /\ InScreenY(b.y + n) \in Int /\ InScreenX(b.x + n) \in Int /\ Greater(BackX(b.x) - n, 0) \in Int
      /\ Greater(b.y - n, 0) \in Int /\ InScreenX(n - 1) \in Int /\ InScreenY(n - 1) \in Int
      /\ OnScreen(InScreenY(n - 1)) /\ (b.y + n >= 0 => OnScreen(InScreenY(b.y + n)))
      /\ (RowsInScreen => OnScreen(Greater(b.y - n, 0)))
  BY <1>2, CoordinateTypes
<1>4. RowsInScreen => OnScreen(b.y) /\ OnScreen(InScreenY(b.y + n))
  BY <1>1, <1>3 DEF RowsInScreen, OnScreen
<1>5. CASE CursorUp(n) \/ CursorPrecedingLine(n)
  BY <1>2, <1>3, <1>5, CursorMoves DEF CursorUp, CursorPrecedingLine
<1>6. CASE CursorDown(n) \/ VPositionRelative(n)
  BY <1>2, <1>3, <1>4, <1>6, CursorMoves DEF CursorDown, VPositionRelative
<1>7. CASE CursorNextLine(n)
  BY <1>2, <1>3, <1>4, <1>7, CursorMoves DEF CursorNextLine
<1>8. CASE CursorForward(n) \/ CursorBackward(n) \/ HPositionRelative(n)
  BY <1>1, <1>3, <1>4, <1>8, CursorMoves DEF CursorForward, CursorBackward, HPositionRelative
<1>9. CASE CursorCharAbsolute(n) \/ CharPosAbsolute(n)
  BY <1>1, <1>2, <1>3, <1>4, <1>9, CursorMoves DEF CursorCharAbsolute, CharPosAbsolute
<1>10. CASE LinePosAbsolute(n)
  BY <1>2, <1>3, <1>10, CursorMoves DEF LinePosAbsolute
<1> QED
  BY <1>5, <1>6, <1>7, <1>8, <1>9, <1>10 DEF CursorMove

LEMMA CursorPositionGood ==
  ASSUME ScreenInv, NEW r \in Params, NEW c \in Params, CursorPosition(r, c) \/ HVPosition(r, c)
  PROVE  Good /\ Steady
<1>1. r - 1 \in Int /\ c - 1 \in Int /\ r - 1 >= 0
  BY ScreenAssumption
<1>2. InScreenY(r - 1) \in Int /\ InScreenX(c - 1) \in Int /\ OnScreen(InScreenY(r - 1))
  BY <1>1, CoordinateTypes
<1> QED
  BY <1>2, CursorMoves DEF CursorPosition, HVPosition

LEMMA ColumnMoveGood ==
  ASSUME ScreenInv, CarriageReturn \/ Backspace \/ Tab \/ CursorForwardTab \/ CursorBackwardTab
  PROVE  Good /\ Steady
<1>1. b.x \in Int /\ b.y \in Int /\ cols \in Int /\ (RowsInScreen => OnScreen(b.y))
  BY DEF ScreenInv, TypeOK, b, Buffers, RowsInScreen
<1>2. ASSUME NEW x \in Int, Moves([b EXCEPT !.x = x])
      PROVE  Good /\ Steady
  BY <1>1, <1>2, CursorMoves
<1>3. Greater(b.x - 1, 0) \in Int /\ Lesser(b.x - 1, cols - 1) \in Int
  BY <1>1 DEF Greater, Lesser
<1>4. (\A x \in (b.x + 1)..(cols - 1) \cup {cols - 1} : x \in Int)
      /\ \A x \in 0..Lesser(b.x - 1, cols - 1) \cup {0} : x \in Int
  BY <1>1, <1>3
<1>5. CASE CarriageReturn
  BY <1>2, <1>5 DEF CarriageReturn
<1>6. CASE Backspace
  BY <1>2, <1>3, <1>6 DEF Backspace
<1>7. CASE Tab \/ CursorForwardTab
  BY <1>2, <1>4, <1>7 DEF Tab, CursorForwardTab
<1>8. CASE CursorBackwardTab
  BY <1>2, <1>4, <1>8 DEF CursorBackwardTab
<1> QED
  BY <1>5, <1>6, <1>7, <1>8

LEMMA SavedGood ==
  ASSUME ScreenInv, SaveCursor \/ RestoreCursor
  PROVE  Good /\ Steady
<1>1. b \in Buffers /\ b.y \in Int /\ b.savedY \in Int /\ cols \in Nat /\ changes \in Nat
      /\ (RowsInScreen => OnScreen(b.y) /\ OnScreen(b.savedY))
  BY DEF ScreenInv, TypeOK, b, Buffers, RowsInScreen
<1>2. CASE SaveCursor
  <2> DEFINE nb == [b EXCEPT !.savedY = b.y]
  <2>1. SameLines(nb) /\ nb.y = b.y /\ nb.savedY = b.y
    BY <1>1, MoveKinds DEF Buffers
  <2>2. Stay /\ Becomes(nb) /\ changes' \in Nat /\ failed' = failed /\ followed' = followed
    BY <1>1, <1>2 DEF SaveCursor, Change
  <2> HIDE DEF nb
  <2>3. failed' \in BOOLEAN /\ followed' \subseteq Int /\ FreezeStep
    BY <2>2 DEF ScreenInv, TypeOK, FreezeStep
  <2> QED
    BY <1>1, <2>1, <2>2, <2>3, SameLinesSound, BecomesGood, SteadyKept
<1>3. CASE RestoreCursor
  <2>1. PICK x \in 0..cols : Moves([b EXCEPT !.x = x, !.y = b.savedY])
    BY <1>3 DEF RestoreCursor
  <2>2. x \in Int
    BY <1>1
  <2> QED
    BY <1>1, <2>1, <2>2, CursorMoves
<1> QED
  BY <1>2, <1>3

LEMMA MarginsSet ==
  ASSUME ScreenInv, NEW t \in Nat, NEW m \in Nat, m < rows,
         NEW nb, nb = [b EXCEPT !.top = t, !.bottom = m, !.x = 0, !.y = 0]
  PROVE  SameLines(nb) /\ nb.y = 0 /\ nb.savedY = b.savedY
<1>1. b \in Buffers
  BY DEF ScreenInv, TypeOK, b
<1>2. nb \in Buffers
  <2> DEFINE set == [b EXCEPT !.top = t, !.bottom = m]
  <2>1. set \in Buffers
    BY <1>1 DEF Buffers
  <2>2. nb = [set EXCEPT !.x = 0, !.y = 0]
    BY <1>1 DEF Buffers
  <2> HIDE DEF set
  <2>3. \A o \in Buffers, i, j \in Int : [o EXCEPT !.x = i, !.y = j] \in Buffers
    BY DEF Buffers
  <2>4. [set EXCEPT !.x = 0, !.y = 0] \in Buffers
    <3>1. \E z \in Int : z = 0
      OBVIOUS
    <3> QED
      BY <2>1, <2>3, <3>1
  <2> QED
    BY <2>2, <2>4
<1>3. nb.len = b.len /\ nb.max = b.max /\ nb.ybase = b.ybase /\ nb.ydisp = b.ydisp
  BY <1>1 DEF Buffers
<1>4. nb.bottom = m /\ nb.y = 0 /\ nb.savedY = b.savedY
  BY <1>1 DEF Buffers
<1> QED
  BY <1>2, <1>3, <1>4 DEF SameLines

LEMMA MarginsGood ==
  ASSUME ScreenInv, SoftReset \/ \E t \in Margins : SetScrollRegion(t[1], t[2])
  PROVE  Good /\ Steady
<1>1. b \in Buffers /\ rows \in Nat /\ rows > 0 /\ changes \in Nat
      /\ (RowsInScreen => OnScreen(b.savedY)) /\ OnScreen(0)
  BY DEF ScreenInv, TypeOK, b, RowsInScreen, OnScreen
<1>2. CASE SoftReset
  <2> DEFINE nb == [b EXCEPT !.top = 0, !.bottom = rows - 1, !.x = 0, !.y = 0]
  <2>2. Moves(nb)
    BY <1>2 DEF SoftReset
  <2>3. rows - 1 \in Nat /\ rows - 1 < rows
    BY <1>1
  <2>1. SameLines(nb) /\ nb.y = 0 /\ nb.savedY = b.savedY
    BY <2>3, MarginsSet
  <2> HIDE DEF nb
  <2> QED
    BY <1>1, <2>1, <2>2, MovesGood
<1>3. ASSUME NEW t \in Margins, SetScrollRegion(t[1], t[2])
      PROVE  Good /\ Steady
  <2> DEFINE last == IF t[2] \in 1..rows THEN t[2] - 1 ELSE rows - 1
             nb == [b EXCEPT !.top = t[1] - 1, !.x = 0, !.y = 0, !.bottom = last]
  <2>1. t[1] - 1 \in Nat /\ last \in Nat /\ last < rows
    BY <1>1, ScreenAssumption
  <2>2. Stay /\ changes' = changes + 1 /\ failed' = failed /\ followed' = followed
    BY <1>3 DEF SetScrollRegion, Change
  <2>5. Becomes(nb)
    <3>1. nb = [b EXCEPT !.top = t[1] - 1, !.x = 0, !.y = 0,
                         !.bottom = IF t[2] \in 1..rows THEN t[2] - 1 ELSE rows - 1]
      OBVIOUS
    <3> HIDE DEF nb
    <3> QED
      BY <1>3, <3>1 DEF SetScrollRegion
  <2> HIDE DEF last
  <2>3. nb = [b EXCEPT !.top = t[1] - 1, !.bottom = last, !.x = 0, !.y = 0]
    BY <1>1 DEF Buffers
  <2> HIDE DEF nb
  <2>6. SameLines(nb) /\ nb.y = 0 /\ nb.savedY = b.savedY
    BY <2>1, <2>3, MarginsSet
  <2>4. changes' \in Nat /\ failed' \in BOOLEAN /\ followed' \subseteq Int /\ FreezeStep
    BY <2>2 DEF ScreenInv, TypeOK, FreezeStep
  <2> QED
    BY <1>1, <2>2, <2>4, <2>5, <2>6, SameLinesSound, BecomesGood, SteadyKept
<1> QED
  BY <1>2, <1>3

-----------------------------------------------------------------------------
(* Text, and the sequences that go a row down.                             *)
LEMMA OtherColumn ==
  ASSUME NEW nb \in Buffers, Sound(nb, active, rows), nb.len > 0, NEW nx \in Int
  PROVE  /\ Sound([nb EXCEPT !.x = nx], active, rows) /\ [nb EXCEPT !.x = nx].len > 0
         /\ [nb EXCEPT !.x = nx].y = nb.y /\ [nb EXCEPT !.x = nx].savedY = nb.savedY
BY DEF Sound, Buffers

LEMMA RowDown ==
  ASSUME ScreenInv
  PROVE  /\ b \in Buffers /\ Down(b) \in Buffers /\ Sound(Down(b), active, rows) /\ Down(b).len > 0
         /\ DownFollowed(b) \in SUBSET Int /\ b.x \in Int /\ b.y \in Int
         /\ RowsInScreen => OnScreen(Down(b).savedY) /\ OnScreen(Down(b).y)
<1>1. b \in Buffers /\ b.x \in Int /\ b.y \in Int /\ b.bottom \in Nat /\ b.bottom < rows /\ SameLines(b)
      /\ rows \in Nat
  BY MoveKinds DEF ScreenInv, TypeOK, b, Buffers, SameLines
<1>2. /\ Sound(Down(b), active, rows) /\ Down(b).len > 0 /\ Down(b) \in Buffers
      /\ Down(b).y \in {b.y, b.y + 1} /\ (Down(b).y # b.y => b.y < b.bottom)
      /\ Down(b).savedY = b.savedY
  BY <1>1, DownSound
<1>3. RowsInScreen => OnScreen(b.y) /\ OnScreen(b.savedY)
  BY DEF RowsInScreen, ScreenInv, TypeOK, b
<1>4. RowsInScreen => OnScreen(Down(b).y)
  BY <1>1, <1>2, <1>3 DEF OnScreen
<1> QED
  BY <1>1, <1>2, <1>3, <1>4, ScrolledPositions

LEMMA DownGood ==
  ASSUME ScreenInv, LineFeed \/ NextLine \/ Index
  PROVE  Good
<1>1. PICK nx \in Int : Shifts([Down(b) EXCEPT !.x = nx], DownFollowed(b))
  BY RowDown, CoordinateTypes DEF LineFeed, NextLine, Index
<1> DEFINE nb == [Down(b) EXCEPT !.x = nx]
<1>2. Sound(nb, active, rows) /\ nb.len > 0 /\ nb.y = Down(b).y /\ nb.savedY = Down(b).savedY
  BY RowDown, OtherColumn
<1>3. Shifts(nb, DownFollowed(b))
  BY <1>1
<1> HIDE DEF nb
<1> QED
  BY <1>2, <1>3, RowDown, ShiftsGood

LEMMA WrapSound ==
  ASSUME ScreenInv, NEW nb, nb = Down([b EXCEPT !.x = 0])
  PROVE  /\ nb \in Buffers /\ Sound(nb, active, rows) /\ nb.len > 0
         /\ (RowsInScreen => OnScreen(nb.savedY) /\ OnScreen(nb.y))
         /\ (OnScreen(b.y) => OnScreen(nb.y))
<1> DEFINE start == [b EXCEPT !.x = 0]
<1>1. b \in Buffers /\ b.y \in Int /\ rows \in Nat
  BY DEF ScreenInv, TypeOK, b, Buffers
<1>2. SameLines(start) /\ start.y = b.y /\ start.savedY = b.savedY /\ start.bottom < rows
      /\ start.bottom \in Nat
  <2>1. \E z \in Int : z = 0
    OBVIOUS
  <2>2. SameLines(start)
    BY <2>1, MoveKinds
  <2> QED
    BY <1>1, <2>2 DEF Buffers, SameLines
<1>3. nb = Down(start)
  OBVIOUS
<1> HIDE DEF start
<1>4. /\ nb \in Buffers /\ Sound(nb, active, rows) /\ nb.len > 0 /\ nb.savedY = b.savedY
      /\ nb.y \in {b.y, b.y + 1} /\ (nb.y # b.y => b.y < start.bottom)
  BY <1>2, <1>3, DownSound
<1>5. OnScreen(b.y) => OnScreen(nb.y)
  BY <1>1, <1>2, <1>4 DEF OnScreen
<1> QED
  BY <1>4, <1>5 DEF RowsInScreen, ScreenInv, TypeOK, b

LEMMA PrintTextGood ==
  ASSUME ScreenInv, NEW w \in 0..2, NEW wraparound \in BOOLEAN, PrintText(w, wraparound)
  PROVE  Good
<1>1. b.x \in Int /\ b.x + 1 \in Int /\ b.x + Greater(w, 1) \in Int /\ b \in Buffers
  BY DEF ScreenInv, TypeOK, b, Buffers, Greater
<1>2. CASE Edits(b.x) \/ Edits(b.x + Greater(w, 1)) \/ Edits(b.x + 1)
  BY <1>1, <1>2, EditsGood
<1>3. CASE Moves(b)
  <2>1. SameLines(b) /\ (RowsInScreen => OnScreen(b.savedY) /\ OnScreen(b.y))
    BY <1>1, MoveKinds DEF RowsInScreen, ScreenInv, TypeOK, b
  <2> QED
    BY <1>3, <2>1, MovesGood
<1> DEFINE nb == Down([b EXCEPT !.x = 0])
           shown == [nb EXCEPT !.x = IF failed' THEN 0 ELSE w]
<1>4. CASE /\ Reaches(nb, nb.ybase + nb.y) /\ Becomes(shown) /\ Keep
           /\ followed' = IF active = "normal" THEN DownFollowed(b) ELSE followed
  <2>1. /\ nb \in Buffers /\ Sound(nb, active, rows) /\ nb.len > 0 /\ rows \in Nat
        /\ (RowsInScreen => OnScreen(nb.savedY) /\ OnScreen(nb.y))
        /\ (OnScreen(b.y) => OnScreen(nb.y))
    BY WrapSound DEF ScreenInv, TypeOK
  <2>2. /\ followed' \subseteq Int /\ failed' \in BOOLEAN /\ Stay
        /\ changes' \in Nat
    BY <1>4, RowDown DEF ScreenInv, TypeOK, Keep, Reaches
  <2>3. FreezeStep
    BY <1>4, <2>1, ReachesRow DEF FreezeStep
  <2> HIDE DEF nb
  <2>4. Sound(shown, active, rows) /\ shown.len > 0 /\ shown.y = nb.y /\ shown.savedY = nb.savedY
    BY <2>1, OtherColumn
  <2> HIDE DEF shown
  <2> QED
    BY <1>4, <2>1, <2>2, <2>3, <2>4, BecomesGood
<1> QED
  BY <1>2, <1>3, <1>4 DEF PrintText

-----------------------------------------------------------------------------
(* The sequences that move lines, and those that only reach for them.      *)
LEMMA SplicePositions ==
  ASSUME ScreenInv, NEW at \in Int, NEW f \in SUBSET Int
  PROVE  TakenOut(at) \in SUBSET Int /\ PutIn(f, at) \in SUBSET Int
<1>1. followed \in SUBSET Int /\ b.len \in Nat
  BY DEF ScreenInv, TypeOK, b, Buffers
<1>2. Greater(0, Lesser(at, b.len - 1)) \in Int /\ Greater(at, 0) \in Int
  BY <1>1 DEF Greater, Lesser
<1> QED
  BY <1>1, <1>2, Positions DEF TakenOut, PutIn

LEMMA SplicesGood ==
  ASSUME ScreenInv, DeleteLines \/ ScrollUp \/ ScrollDown
  PROVE  Good
<1>1. row \in Int /\ regionTop \in Int /\ regionBottom \in Int /\ b \in Buffers
      /\ (RowsInScreen => OnScreen(b.savedY) /\ OnScreen(b.y))
  BY DEF ScreenInv, TypeOK, b, Buffers, row, regionTop, regionBottom, RowsInScreen
<1>2. \A at, to \in Int : PutIn(TakenOut(at), to) \in SUBSET Int
  BY SplicePositions
<1>3. Sound(b, active, rows) /\ b.len > 0
  BY DEF ScreenInv, TypeOK, b
<1> QED
  BY <1>1, <1>2, <1>3, ShiftsGood DEF DeleteLines, ScrollUp, ScrollDown

LEMMA Unchanged ==
  ASSUME ScreenInv, buf' = buf
  PROVE  Becomes(b) /\ Sound(b, active, rows) /\ b.len > 0
         /\ (RowsInScreen => OnScreen(b.savedY) /\ OnScreen(b.y))
BY DEF ScreenInv, TypeOK, b, Becomes, RowsInScreen

LEMMA InsertLinesGood ==
  ASSUME ScreenInv, InsertLines
  PROVE  Good
<1>1. row \in Int /\ regionBottom \in Int /\ b.y \in Int /\ b.ybase \in Nat
  BY DEF ScreenInv, TypeOK, b, Buffers, row, regionBottom
<1>2. PutIn(TakenOut(regionBottom), row) \in SUBSET Int
  BY <1>1, SplicePositions
<1>3. /\ buf' = buf /\ Stay /\ failed' \in BOOLEAN /\ changes' \in Nat /\ followed' \subseteq Int
      /\ (failed' => row < 0 )
  BY <1>2 DEF InsertLines, Keep, ScreenInv, TypeOK
<1>4. FreezeStep
  BY <1>1, <1>3 DEF FreezeStep, OnScreen, row
<1> QED
  BY <1>3, <1>4, Unchanged, BecomesGood

LEMMA ReverseIndexGood ==
  ASSUME ScreenInv, ReverseIndex
  PROVE  Good
<1>1. row \in Int /\ regionBottom \in Int /\ b.y \in Int /\ b.top \in Nat /\ followed \subseteq Int
      /\ b \in Buffers /\ Sound(b, active, rows) /\ b.len > 0 /\ rows \in Nat
      /\ (RowsInScreen => OnScreen(b.savedY) /\ OnScreen(b.y))
  BY DEF ScreenInv, TypeOK, b, Buffers, row, regionBottom, RowsInScreen
<1>2. CASE b.y = b.top
  <2>1. \A f \in SUBSET Int, lo, hi \in Int : {IF i >= lo /\ i < hi THEN i + 1 ELSE i : i \in f} \in SUBSET Int
    OBVIOUS
  <2>2. followed \ {IF b.bottom > b.top THEN regionBottom ELSE row} \in SUBSET Int
    BY <1>1
  <2>3. PICK f \in SUBSET Int : Shifts(b, f)
    BY <1>1, <1>2, <2>1, <2>2 DEF ReverseIndex
  <2> QED
    BY <1>1, <2>3, ShiftsGood
<1>3. CASE b.y # b.top
  <2>1. Moves([b EXCEPT !.y = b.y - 1]) /\ b.y - 1 \in Int /\ b.x \in Int
    BY <1>1, <1>3 DEF ReverseIndex, Buffers
  <2>2. RowsInScreen => OnScreen(b.y - 1) \/ (b.y = 0 /\ b.top > 0 /\ b.y - 1 = -1)
    BY <1>1, <1>3 DEF OnScreen
  <2> QED
    BY <2>1, <2>2, CursorMoves
<1> QED
  BY <1>2, <1>3

LEMMA EraseGood ==
  ASSUME ScreenInv, EraseBelow \/ EraseAbove
  PROVE  Good /\ Steady
<1>1. /\ buf' = buf /\ Stay /\ failed' \in BOOLEAN /\ changes' \in Nat /\ followed' \subseteq Int
      /\ followed' = followed
  BY DEF EraseBelow, EraseAbove, Keep, ScreenInv, TypeOK, Reaches
<1>2. /\ b \in Buffers /\ Sound(b, active, rows) /\ b.len > 0 /\ rows \in Nat /\ b.y \in Int /\ b.x \in Int
      /\ b.ybase \in Nat /\ b.len \in Nat /\ b.ybase + rows <= b.len /\ cols \in Nat
  BY DEF ScreenInv, TypeOK, b, Buffers, Sound
<1>5. SameLines(b)
  BY <1>2, MoveKinds
<1>3. CASE EraseBelow
  <2>1. FreezeStep
    BY <1>2, <1>3, ReachesRow DEF EraseBelow, FreezeStep, row
  <2> QED
    BY <1>1, <1>5, <2>1, Unchanged, BecomesGood, SteadyKept
<1>4. CASE EraseAbove
  <2>1. ASSUME OnScreen(b.y), ~(b.y = rows - 1 /\ b.x >= cols - 1 /\ b.ybase = 0)
        PROVE  ~failed'
    <3>1. b.y >= 0 /\ b.y < rows
      BY <1>2, <2>1 DEF OnScreen
    <3>2. Present(b, row)
      BY <1>2, <3>1 DEF Present, row
    <3>3. b.x + 1 < cols \/ Present(b, b.y + 1)
      BY <1>2, <2>1, <3>1 DEF Present
    <3>4. ~(b.y < 0)
      BY <1>2, <3>1
    <3>5. failed' \in {FALSE}
      BY <1>4, <3>2, <3>3, <3>4, Zenon DEF EraseAbove
    <3> QED
      BY <3>5
  <2>2. FreezeStep
    BY <2>1 DEF FreezeStep
  <2> QED
    BY <1>1, <1>5, <2>2, Unchanged, BecomesGood, SteadyKept
<1> QED
  BY <1>3, <1>4

LEMMA EraseHistoryGood ==
  ASSUME ScreenInv, EraseHistory
  PROVE  Good
<1> DEFINE n == b.len - rows
           nb == [b EXCEPT !.len = b.len - n, !.ybase = Greater(b.ybase - n, 0),
                           !.ydisp = Greater(b.ydisp - n, 0)]
<1>1. b \in Buffers /\ Sound(b, active, rows) /\ b.len > 0 /\ rows \in Nat /\ rows > 0
      /\ b.ybase + rows <= b.len /\ b.ydisp <= b.ybase
      /\ b.len \in Nat /\ b.ybase \in Nat /\ b.ydisp \in Nat /\ followed \in SUBSET Int
      /\ (RowsInScreen => OnScreen(b.savedY) /\ OnScreen(b.y))
  BY DEF ScreenInv, TypeOK, b, Buffers, Sound, RowsInScreen
<1>2. n > 0 /\ Shifts(nb, Trimmed(followed, n))
  BY DEF EraseHistory
<1>3. b.len - n = rows /\ Greater(b.ybase - n, 0) = 0 /\ Greater(b.ydisp - n, 0) = 0 /\ n \in Int
  BY <1>1 DEF Greater
<1>4. Trimmed(followed, n) \in SUBSET Int
  BY <1>1, <1>3, Positions
<1>5. nb = [b EXCEPT !.len = rows, !.ybase = 0, !.ydisp = 0]
  BY <1>3
<1> HIDE DEF nb
<1>6. nb \in Buffers /\ nb.len = rows /\ nb.ybase = 0 /\ nb.ydisp = 0 /\ nb.max = b.max
      /\ nb.bottom = b.bottom /\ nb.y = b.y /\ nb.savedY = b.savedY
  BY <1>1, <1>5 DEF Buffers
<1>7. Sound(nb, active, rows) /\ nb.len > 0
  BY <1>1, <1>3, <1>6 DEF Sound, Buffers
<1> QED
  BY <1>1, <1>2, <1>4, <1>6, <1>7, ShiftsGood

-----------------------------------------------------------------------------
(* The alternate buffer is entered and left.                               *)
LEMMA TwoBuffers ==
  ASSUME ScreenInv, cols' = cols, rows' = rows, userScrolling' \in BOOLEAN,
         failed' = failed, followed' \subseteq Int, changes' \in Nat, active' \in Which,
         NEW n, NEW a, buf' = [normal |-> n, alt |-> a],
         Sound(n, "normal", rows), Sound(a, "alt", rows),
         active' = "alt" => a.len > 0,
         RowsInScreen => /\ OnScreen(n.savedY) /\ OnScreen(a.savedY)
                         /\ OnScreen(n.y) \/ active' = "alt"
                         /\ OnScreen(a.y) \/ active' = "normal"
  PROVE  Good
<1>1. n \in Buffers /\ a \in Buffers /\ n.len > 0
  BY DEF Sound, ScreenInv, TypeOK, Buffers
<1>2. buf' \in [Which -> Buffers] /\ buf'["normal"] = n /\ buf'["alt"] = a
  BY <1>1 DEF Which
<1>3. b' = IF active' = "normal" THEN n ELSE a
  BY <1>2 DEF b, Which
<1>4. ScreenInv'
  BY <1>1, <1>2, <1>3 DEF ScreenInv, TypeOK, Which
<1>5. CursorStep
  BY <1>2, <1>3 DEF CursorStep, RowsInScreen, OnScreen, Which
<1> QED
  BY <1>4, <1>5 DEF Good, FreezeStep

LEMMA BothBuffers ==
  ASSUME ScreenInv
  PROVE  /\ buf["normal"] \in Buffers /\ buf["alt"] \in Buffers
         /\ Sound(buf["normal"], "normal", rows) /\ Sound(buf["alt"], "alt", rows)
         /\ active \in {"normal", "alt"} /\ b = buf[active] /\ b \in Buffers /\ Sound(b, active, rows)
         /\ b.y \in Int /\ b.x \in Int /\ rows \in Nat /\ rows > 0 /\ cols \in Nat
         /\ buf = [normal |-> buf["normal"], alt |-> buf["alt"]]
         /\ (RowsInScreen => OnScreen(b.y) /\ OnScreen(buf["normal"].savedY) /\ OnScreen(buf["alt"].savedY))
BY DEF ScreenInv, TypeOK, Which, b, Buffers, RowsInScreen

LEMMA ActivateAltGood ==
  ASSUME ScreenInv, NEW saving \in BOOLEAN, ActivateAlt(saving)
  PROVE  Good
<1> DEFINE normal == IF saving THEN [b EXCEPT !.savedY = b.y] ELSE b
           entered == [buf["alt"] EXCEPT !.len = rows, !.x = b.x, !.y = b.y]
<1>1. /\ cols' = cols /\ rows' = rows /\ userScrolling' \in BOOLEAN /\ failed' = failed
      /\ followed' = {} /\ changes' \in Nat /\ active' = "alt" /\ active' \in Which
  BY DEF ActivateAlt, Change, ScreenInv, TypeOK, Which
<1>2. Sound(normal, active, rows) /\ normal.y = b.y /\ normal.savedY \in {b.savedY, b.y}
      /\ normal.len = b.len
  BY BothBuffers DEF Sound, Buffers
<1>3. Sound(entered, "alt", rows) /\ entered.len > 0 /\ entered.y = b.y
      /\ entered.savedY = buf["alt"].savedY
  <2>1. entered \in Buffers /\ entered.len = rows /\ entered.max = buf["alt"].max
        /\ entered.ybase = buf["alt"].ybase /\ entered.ydisp = buf["alt"].ydisp
        /\ entered.bottom = buf["alt"].bottom /\ entered.y = b.y /\ entered.savedY = buf["alt"].savedY
    BY BothBuffers DEF Buffers
  <2>2. buf["alt"].ybase = 0 /\ buf["alt"].max = rows
    BY BothBuffers DEF Sound, Buffers, MaxLength
  <2> QED
    BY <2>1, <2>2, BothBuffers DEF Sound, MaxLength
<1>4. CASE active = "alt"
  <2>1. buf' = [normal |-> buf["normal"], alt |-> normal]
    <3>1. buf' = [buf EXCEPT !["alt"] = normal]
      BY <1>4 DEF ActivateAlt
    <3> HIDE DEF normal
    <3> QED
      BY <3>1, BothBuffers
  <2>2. normal.len > 0
    BY <1>2 DEF ScreenInv
  <2> HIDE DEF normal
  <2> QED
    BY <1>1, <1>2, <1>4, <2>1, <2>2, BothBuffers, TwoBuffers
<1>5. CASE active = "normal"
  <2>1. buf' = [normal |-> normal, alt |-> entered]
    BY <1>5 DEF ActivateAlt
  <2> HIDE DEF normal, entered
  <2> QED
    BY <1>1, <1>2, <1>3, <1>5, <2>1, BothBuffers, TwoBuffers
<1> QED
  BY <1>4, <1>5, BothBuffers

LEMMA ActivateNormalGood ==
  ASSUME ScreenInv, NEW restoring \in BOOLEAN, ActivateNormal(restoring)
  PROVE  Good
<1> DEFINE to == IF active = "alt" THEN [buf["normal"] EXCEPT !.x = b.x, !.y = b.y] ELSE b
           left == IF active = "alt" THEN [NewBuffer("alt", rows) EXCEPT !.savedY = b.savedY]
                   ELSE buf["alt"]
<1>1. /\ cols' = cols /\ rows' = rows /\ userScrolling' \in BOOLEAN /\ failed' = failed
      /\ followed' \subseteq Int /\ changes' \in Nat /\ active' = "normal" /\ active' \in Which
  BY DEF ActivateNormal, ScreenInv, TypeOK, Which
<1>2. Sound(to, "normal", rows) /\ to.y = b.y /\ to.savedY = buf["normal"].savedY /\ to \in Buffers
  BY BothBuffers DEF Sound, Buffers
<1>3. Sound(left, "alt", rows) /\ left.savedY = buf["alt"].savedY
  <2>1. CASE active = "alt"
    <3>1. NewBuffer("alt", rows) \in Buffers /\ Sound(NewBuffer("alt", rows), "alt", rows)
      BY BothBuffers, NewSound DEF Which
    <3>2. b.savedY \in Int /\ b.savedY = buf["alt"].savedY
      BY <2>1, BothBuffers DEF Buffers
    <3> QED
      BY <2>1, <3>1, <3>2 DEF Sound, Buffers
  <2>2. CASE active = "normal"
    BY <2>2, BothBuffers
  <2> QED
    BY <2>1, <2>2, BothBuffers
<1>4. PICK x \in IF restoring THEN 0..cols ELSE {0} :
        buf' = [normal |-> IF restoring THEN [to EXCEPT !.x = x, !.y = to.savedY] ELSE to,
                alt |-> left]
  BY DEF ActivateNormal
<1> DEFINE shown == IF restoring THEN [to EXCEPT !.x = x, !.y = to.savedY] ELSE to
<1> HIDE DEF to, left
<1>5. x \in Int
  BY <1>4, BothBuffers
<1>6. Sound(shown, "normal", rows) /\ shown.savedY = to.savedY /\ shown.y \in {to.y, to.savedY}
  BY <1>2, <1>5 DEF Sound, Buffers
<1>7. buf' = [normal |-> shown, alt |-> left]
  BY <1>4
<1> HIDE DEF shown
<1>8. RowsInScreen => OnScreen(shown.y) /\ OnScreen(shown.savedY) /\ OnScreen(left.savedY)
  BY <1>2, <1>3, <1>6, BothBuffers
<1> QED
  BY <1>1, <1>3, <1>6, <1>7, <1>8, TwoBuffers

LEMMA ResetGood ==
  ASSUME ScreenInv, Reset
  PROVE  Good
<1>1. /\ cols' = cols /\ rows' = rows /\ userScrolling' \in BOOLEAN /\ failed' = failed
      /\ followed' = {} /\ changes' \in Nat /\ active' = "normal" /\ active' \in Which
  BY DEF Reset, ScreenInv, TypeOK, Which
<1>2. buf' = [normal |-> NewBuffer("normal", rows), alt |-> NewBuffer("alt", rows)]
  BY DEF Reset, Which
<1>3. Sound(NewBuffer("normal", rows), "normal", rows) /\ Sound(NewBuffer("alt", rows), "alt", rows)
  BY BothBuffers, NewSound DEF Which
<1>4. NewBuffer("normal", rows).y = 0 /\ NewBuffer("normal", rows).savedY = 0
      /\ NewBuffer("alt", rows).savedY = 0
  BY DEF NewBuffer
<1>5. OnScreen(0)
  BY BothBuffers DEF OnScreen
<1> QED
  BY <1>1, <1>2, <1>3, <1>4, <1>5, TwoBuffers

-----------------------------------------------------------------------------
(* The user's side: the view, the observer.                                *)
LEMMA ScrollLinesGood ==
  ASSUME ScreenInv, NEW n \in Int, ScrollLines(n)
  PROVE  Good
<1> DEFINE top == Greater(Lesser(b.ydisp + n, b.ybase), 0)
           nb == [b EXCEPT !.ydisp = top]
<1>1. b \in Buffers /\ b.ydisp \in Nat /\ b.ybase \in Nat /\ Sound(b, active, rows) /\ b.len > 0
  BY BothBuffers DEF Buffers, ScreenInv
<1>2. top \in Nat /\ top <= b.ybase
  BY <1>1 DEF Greater, Lesser
<1>3. /\ cols' = cols /\ rows' = rows /\ active' = active /\ userScrolling' \in BOOLEAN
      /\ failed' = failed /\ followed' = followed /\ changes' = changes /\ Becomes(nb)
  BY DEF ScrollLines, ScreenInv, TypeOK
<1> HIDE DEF top
<1>4. Sound(nb, active, rows) /\ nb.len > 0 /\ nb.y = b.y /\ nb.savedY = b.savedY
  BY <1>1, <1>2 DEF Sound, Buffers
<1> HIDE DEF nb
<1>5. CASE active = "normal"
  <2>1. buf' = [normal |-> nb, alt |-> buf["alt"]]
    BY <1>3, <1>5, BothBuffers DEF Becomes
  <2> QED
    BY <1>3, <1>4, <1>5, <2>1, BothBuffers, TwoBuffers DEF ScreenInv, TypeOK
<1>6. CASE active = "alt"
  <2>1. buf' = [normal |-> buf["normal"], alt |-> nb]
    BY <1>3, <1>6, BothBuffers DEF Becomes
  <2> QED
    BY <1>3, <1>4, <1>6, <2>1, BothBuffers, TwoBuffers DEF ScreenInv, TypeOK
<1> QED
  BY <1>5, <1>6, BothBuffers

LEMMA ViewGood ==
  ASSUME ScreenInv,
         \/ \E n \in Params : ScrollLines(n) \/ ScrollLines(-n)
         \/ ScrollPages(1) \/ ScrollPages(-1) \/ ScrollToTop \/ Key
  PROVE  Good
<1>1. b.ydisp \in Nat /\ b.ybase \in Nat /\ rows \in Nat
  BY BothBuffers DEF Buffers
<1>2. -b.ydisp \in Int /\ b.ybase - b.ydisp \in Int /\ 1 * (rows - 1) \in Int /\ (-1) * (rows - 1) \in Int
  BY <1>1
<1>3. CASE \E n \in Params : ScrollLines(n) \/ ScrollLines(-n)
  <2>1. PICK n \in Params : ScrollLines(n) \/ ScrollLines(-n)
    BY <1>3
  <2>2. n \in Int /\ -n \in Int
    BY ScreenAssumption
  <2> QED
    BY <2>1, <2>2, ScrollLinesGood
<1>4. CASE ScrollPages(1) \/ ScrollPages(-1) \/ ScrollToTop \/ Key
  BY <1>2, <1>4, ScrollLinesGood DEF ScrollPages, ScrollToTop, ScrollToBottom, Key
<1> QED
  BY <1>3, <1>4

LEMMA IdleGood ==
  ASSUME ScreenInv, Follow \/ UNCHANGED vars
  PROVE  Good
<1>1. /\ UNCHANGED <<cols, rows, active, buf, userScrolling, failed, changes>>
      /\ followed' \subseteq Int
  <2>1. CASE Follow
    <3>1. PICK i \in 0..(b.len - 1) : followed' = {i}
      BY <2>1 DEF Follow
    <3>2. i \in Int
      BY <3>1, BothBuffers DEF Buffers
    <3> QED
      BY <2>1, <3>1, <3>2 DEF Follow
  <2>2. CASE UNCHANGED vars
    BY <2>2 DEF vars, ScreenInv, TypeOK
  <2> QED
    BY <2>1, <2>2
<1>2. Stay /\ changes' \in Nat /\ failed' \in BOOLEAN /\ FreezeStep
  BY <1>1 DEF Stay, ScreenInv, TypeOK, FreezeStep
<1> QED
  BY <1>1, <1>2, Unchanged, BecomesGood

-----------------------------------------------------------------------------
(* A resize: first the rows of each buffer, then the lines of the normal   *)
(* one.  Only a row saved in a buffer without lines can be left behind.    *)
LEMMA GrownSound ==
  ASSUME NEW which \in Which, rows \in Nat, rows > 0, NEW nb, Sound(nb, which, rows), nb.len > 0,
         NEW r \in Nat, r > rows
  PROVE  LET new == Grown(nb, r)
         IN  /\ new \in Buffers /\ new.ybase + r <= new.len /\ new.len <= MaxLength(which, r)
             /\ new.ydisp <= new.ybase /\ new.savedY = nb.savedY /\ new.x = nb.x
             /\ nb.y \in 0..(rows - 1) => new.y \in 0..(r - 1)
<1> DEFINE lacking == Greater(nb.ybase + r - nb.len, 0)
           pulled  == IF nb.len <= nb.ybase + nb.y + 1 THEN Lesser(nb.ybase, lacking) ELSE 0
           n == nb.len + (lacking - pulled)
           base == nb.ybase - pulled
           disp == Greater(nb.ydisp - pulled, 0)
           y == Lesser(nb.y, r - 1) + pulled
<1>1. /\ nb \in Buffers /\ nb.len \in Nat /\ nb.ybase \in Nat /\ nb.ydisp \in Nat /\ nb.y \in Int /\ nb.x \in Int
      /\ nb.ybase + rows <= nb.len /\ nb.len <= nb.max /\ nb.ydisp <= nb.ybase
      /\ nb.max = MaxLength(which, rows)
  BY DEF Sound, Buffers
<1>2. lacking \in Nat /\ pulled \in Nat /\ pulled <= lacking /\ pulled <= nb.ybase
  BY <1>1 DEF Lesser, Greater
<1>3. n \in Nat /\ base \in Nat /\ disp \in Nat /\ y \in Int /\ base + r <= n /\ disp <= base
  <2>1. nb.len + lacking >= nb.ybase + r
    BY <1>1 DEF Greater
  <2> HIDE DEF lacking, pulled
  <2>2. n \in Nat /\ base \in Nat /\ base + r <= n
    BY <1>1, <1>2, <2>1
  <2>3. disp \in Nat /\ disp <= base
    BY <1>1, <1>2 DEF Greater
  <2>4. y \in Int
    BY <1>1, <1>2 DEF Lesser
  <2> QED
    BY <2>2, <2>3, <2>4
<1>4. n <= MaxLength(which, r)
  <2>1. CASE lacking = 0
    BY <1>1, <1>2, <2>1, ScreenAssumption DEF MaxLength
  <2>2. CASE lacking # 0
    <3>1. nb.len + lacking = nb.ybase + r
      BY <1>1, <2>2 DEF Greater
    <3>2. nb.ybase + r <= MaxLength(which, r)
      BY <1>1, ScreenAssumption DEF MaxLength
    <3>3. MaxLength(which, r) \in Nat
      BY ScreenAssumption DEF MaxLength
    <3> QED
      BY <1>1, <1>2, <3>1, <3>2, <3>3
  <2> QED
    BY <2>1, <2>2
<1>5. nb.y \in 0..(rows - 1) => y \in 0..(r - 1)
  BY <1>1 DEF Lesser, Greater
<1>6. Grown(nb, r) = [nb EXCEPT !.len = n, !.ybase = base, !.ydisp = disp, !.y = y]
  BY DEF Grown
<1> HIDE DEF n, base, disp, y
<1>7. LET new == [nb EXCEPT !.len = n, !.ybase = base, !.ydisp = disp, !.y = y]
      IN  new \in Buffers /\ new.len = n /\ new.ybase = base /\ new.ydisp = disp /\ new.y = y
          /\ new.savedY = nb.savedY /\ new.x = nb.x
  BY <1>1, <1>3 DEF Buffers
<1> QED
  BY <1>3, <1>4, <1>5, <1>6, <1>7

LEMMA ShrunkSound ==
  ASSUME NEW which \in Which, rows \in Nat, rows > 0, NEW nb, Sound(nb, which, rows), nb.len > 0,
         NEW r \in Nat, r > 0, r <= rows
  PROVE  LET new == Shrunk(nb, r, MaxLength(which, r))
         IN  /\ new \in Buffers /\ new.ybase + r <= new.len /\ new.len <= MaxLength(which, r)
             /\ new.ydisp <= new.ybase /\ new.savedY = nb.savedY /\ new.x = nb.x
             /\ nb.y \in 0..(rows - 1) => new.y \in 0..(r - 1)
<1> DEFINE most == MaxLength(which, r)
           below == Greater(nb.len - nb.ybase - nb.y - 1, 0)
           popped == Lesser(rows - r, below)
           pushed == rows - r - popped
           trim == Greater(nb.len - popped - most, 0)
           n == nb.len - popped - trim
           base == Greater(nb.ybase + pushed - trim, 0)
           disp == Greater(nb.ydisp + pushed - trim, 0)
           y == Lesser(nb.y, r - 1)
<1>1. /\ nb \in Buffers /\ nb.len \in Nat /\ nb.ybase \in Nat /\ nb.ydisp \in Nat /\ nb.y \in Int /\ nb.x \in Int
      /\ nb.ybase + rows <= nb.len /\ nb.ydisp <= nb.ybase
  BY DEF Sound, Buffers
<1>2. most \in Nat /\ r <= most
  BY ScreenAssumption DEF MaxLength
<1>3. below \in Nat
  BY <1>1 DEF Greater
<1> HIDE DEF below, most
<1>4. popped \in Nat /\ popped <= rows - r
  BY <1>3 DEF Lesser
<1> HIDE DEF popped
<1>5. pushed \in Nat /\ pushed + popped = rows - r
  BY <1>4
<1> HIDE DEF pushed
<1>6. trim \in Nat /\ nb.len - popped - trim <= most /\ (trim > 0 => nb.len - popped - trim = most)
  BY <1>1, <1>2, <1>4 DEF Greater
<1> HIDE DEF trim
<1>7. n \in Nat /\ base \in Nat /\ disp \in Nat /\ y \in Int /\ base + r <= n /\ disp <= base /\ n <= most
  BY <1>1, <1>2, <1>4, <1>5, <1>6 DEF Greater, Lesser
<1>8. nb.y \in 0..(rows - 1) => y \in 0..(r - 1)
  BY <1>1 DEF Lesser
<1>9. Shrunk(nb, r, MaxLength(which, r)) = [nb EXCEPT !.len = n, !.ybase = base, !.ydisp = disp, !.y = y]
  BY DEF Shrunk, n, base, disp, y, trim, pushed, popped, below, most
<1> HIDE DEF n, base, disp, y
<1>10. LET new == [nb EXCEPT !.len = n, !.ybase = base, !.ydisp = disp, !.y = y]
       IN  new \in Buffers /\ new.len = n /\ new.ybase = base /\ new.ydisp = disp /\ new.y = y
           /\ new.savedY = nb.savedY /\ new.x = nb.x
  BY <1>1, <1>7 DEF Buffers
<1> QED
  BY <1>7, <1>8, <1>9, <1>10 DEF most

LEMMA ResizedRowsSound ==
  ASSUME NEW which \in Which, rows \in Nat, rows > 0, NEW nb, Sound(nb, which, rows),
         NEW r \in Nat, r > 0, NEW c \in Nat
  PROVE  LET new == ResizedRows(nb, which, c, r)
         IN  /\ Sound(new, which, r)
             /\ nb.len = 0 => new.len = 0 /\ new.savedY = nb.savedY
             /\ nb.len > 0 => /\ new.len > 0 /\ new.ybase + r <= new.len
                              /\ nb.savedY \in 0..(rows - 1) => new.savedY \in 0..(r - 1)
                              /\ nb.y \in 0..(rows - 1) => new.y \in 0..(r - 1)
<1> DEFINE most == MaxLength(which, r)
           sized == IF r > rows THEN Grown(nb, r) ELSE Shrunk(nb, r, most)
           x == Lesser(nb.x, c - 1)
           saved == Lesser(nb.savedY, r - 1)
           new == ResizedRows(nb, which, c, r)
<1>1. nb \in Buffers /\ nb.len \in Nat /\ nb.x \in Int /\ nb.savedY \in Int /\ most \in Nat /\ r - 1 \in Nat
  BY ScreenAssumption DEF Sound, Buffers, MaxLength
<1>2. CASE nb.len = 0
  <2>1. new = [nb EXCEPT !.max = most, !.bottom = r - 1]
    BY <1>2 DEF ResizedRows
  <2> HIDE DEF new, most
  <2>2. /\ new \in Buffers /\ new.max = most /\ new.bottom = r - 1 /\ new.len = 0 /\ new.savedY = nb.savedY
        /\ new.ybase = nb.ybase /\ new.ydisp = nb.ydisp
    BY <1>1, <1>2, <2>1 DEF Buffers
  <2>3. which = "alt" /\ nb.ybase = 0 /\ nb.ydisp <= nb.ybase
    BY <1>1, <1>2 DEF Sound, Buffers
  <2>4. Sound(new, which, r)
    BY <1>1, <1>2, <2>2, <2>3 DEF Sound, most
  <2> QED
    BY <1>2, <2>2, <2>4 DEF new
<1>3. CASE nb.len > 0
  <2>1. new = [sized EXCEPT !.max = most, !.x = x, !.savedY = saved, !.top = 0, !.bottom = r - 1]
    BY <1>3 DEF ResizedRows
  <2>2. /\ sized \in Buffers /\ sized.ybase + r <= sized.len /\ sized.len <= most
        /\ sized.ydisp <= sized.ybase /\ (nb.y \in 0..(rows - 1) => sized.y \in 0..(r - 1))
    BY <1>1, <1>3, GrownSound, ShrunkSound
  <2>3. x \in Int /\ saved \in Int /\ (nb.savedY \in 0..(rows - 1) => saved \in 0..(r - 1))
    BY <1>1 DEF Lesser
  <2> HIDE DEF new, most, sized, x, saved
  <2> DEFINE first == [sized EXCEPT !.max = most, !.x = x, !.savedY = saved]
  <2>4. /\ first \in Buffers /\ first.max = most /\ first.savedY = saved /\ first.y = sized.y
        /\ first.len = sized.len /\ first.ybase = sized.ybase /\ first.ydisp = sized.ydisp
    BY <1>1, <2>2, <2>3 DEF Buffers
  <2>5. new = [first EXCEPT !.top = 0, !.bottom = r - 1]
    BY <2>1, <2>2 DEF Buffers
  <2> HIDE DEF first
  <2>6. /\ new \in Buffers /\ new.max = most /\ new.savedY = saved /\ new.y = sized.y /\ new.bottom = r - 1
        /\ new.len = sized.len /\ new.ybase = sized.ybase /\ new.ydisp = sized.ydisp
    BY <1>1, <2>4, <2>5 DEF Buffers
  <2>7. new.len > 0 /\ new.ybase + r <= new.len
    BY <1>1, <2>2, <2>6 DEF Buffers
  <2>8. Sound(new, which, r)
    BY <1>1, <2>2, <2>6, <2>7 DEF Sound, most
  <2> QED
    BY <1>3, <2>2, <2>3, <2>6, <2>7, <2>8 DEF new
<1> QED
  BY <1>1, <1>2, <1>3

LEMMA LargerSound ==
  ASSUME NEW nb, NEW r \in Nat, r > 0, Sound(nb, "normal", r), nb.len > 0, NEW n \in Nat
  PROVE  LET new == ReflowedLarger(nb, n, r)
         IN  /\ Sound(new, "normal", r) /\ new.len > 0 /\ new.savedY = nb.savedY
             /\ nb.y \in 0..(r - 1) => new.y \in 0..(r - 1)
<1> DEFINE base == Greater(nb.ybase - n, 0)
           disp == Lesser(nb.ydisp, base)
           y == IF n > nb.ybase THEN Greater(nb.y - (n - nb.ybase), 0) ELSE nb.y
           len == Greater(base + r, nb.len - n)
           new == [nb EXCEPT !.ybase = base, !.ydisp = disp, !.y = y, !.len = len]
<1>1. /\ nb \in Buffers /\ nb.len \in Nat /\ nb.ybase \in Nat /\ nb.ydisp \in Nat /\ nb.y \in Int
      /\ nb.ybase + r <= nb.len /\ nb.len <= nb.max /\ nb.max \in Nat
  BY DEF Sound, Buffers
<1>2. base \in Nat /\ base <= nb.ybase
  BY <1>1 DEF Greater
<1>3. y \in Int /\ (nb.y \in 0..(r - 1) => y \in 0..(r - 1))
  BY <1>1 DEF Greater
<1>4. ReflowedLarger(nb, n, r) = new
  BY DEF ReflowedLarger
<1> HIDE DEF base
<1>5. disp \in Nat /\ disp <= base
  BY <1>1, <1>2 DEF Lesser
<1>6. len \in Nat /\ base + r <= len /\ len <= nb.max
  BY <1>1, <1>2 DEF Greater
<1> HIDE DEF disp, y, len
<1>7. /\ new \in Buffers /\ new.ybase = base /\ new.ydisp = disp /\ new.y = y /\ new.len = len
      /\ new.savedY = nb.savedY /\ new.max = nb.max /\ new.bottom = nb.bottom
  BY <1>1, <1>2, <1>3, <1>5, <1>6 DEF Buffers
<1> HIDE DEF new
<1>8. new.len > 0
  BY <1>2, <1>6, <1>7
<1>9. Sound(new, "normal", r)
  BY <1>1, <1>5, <1>6, <1>7 DEF Sound
<1> QED
  BY <1>3, <1>4, <1>7, <1>8, <1>9

LEMMA SmallerSound ==
  ASSUME NEW nb, NEW r \in Nat, r > 0, Sound(nb, "normal", r), nb.len > 0, NEW n \in Nat,
         NEW new \in ReflowedSmaller(nb, n, r)
  PROVE  /\ Sound(new, "normal", r) /\ new.len > 0 /\ new.savedY = nb.savedY
         /\ nb.y \in 0..(r - 1) => new.y \in 0..(r - 1)
<1> DEFINE trimmed == IF nb.ybase = 0 /\ nb.y # nb.len - 1
                      THEN Greater(0, nb.y - nb.max + n) ELSE Greater(0, nb.len - nb.max + n)
           popped == IF nb.ybase = 0 THEN Lesser(n, Greater(r - 1 - nb.y, 0)) ELSE 0
           rest == n - trimmed - popped
           len == Lesser(nb.max, nb.len - popped + n)
           counted == IF nb.ybase = 0
                      THEN IF rest = 0 THEN 0 ELSE Greater(1, Lesser(rest, len - r))
                      ELSE Greater(nb.ybase, Lesser(nb.ybase + rest, len - r))
           ordinary == nb.len = nb.ybase + r /\ (nb.ybase > 0 \/ nb.y < r)
<1>1. /\ nb \in Buffers /\ nb.len \in Nat /\ nb.ybase \in Nat /\ nb.ydisp \in Nat /\ nb.y \in Int
      /\ nb.ybase + r <= nb.len /\ nb.len <= nb.max /\ nb.max \in Nat /\ nb.ydisp <= nb.ybase
      /\ nb.max >= r + 1
  BY ScreenAssumption DEF Sound, Buffers, MaxLength
<1>2. popped \in Nat /\ popped <= n /\ (nb.ybase > 0 => popped = 0)
      /\ (nb.y \in 0..(r - 1) => nb.y + popped \in 0..(r - 1))
  BY <1>1 DEF Greater, Lesser
<1>3. trimmed \in Nat
  BY <1>1 DEF Greater
<1>4. nb.ybase = 0 /\ nb.y < r /\ nb.len = r => n - trimmed - popped >= 0
  BY <1>1 DEF Greater, Lesser
<1>5. PICK base \in IF ordinary THEN {counted} ELSE nb.ybase..(len - r) :
        new = [nb EXCEPT !.ybase = base, !.ydisp = IF nb.ydisp = nb.ybase THEN base ELSE nb.ydisp,
                         !.y = nb.y + popped, !.len = len]
  BY DEF ReflowedSmaller
<1> HIDE DEF trimmed, popped
<1>6. len \in Nat /\ nb.len <= len /\ len <= nb.max
  BY <1>1, <1>2 DEF Lesser
<1>7. rest > 0 => nb.ybase > 0 \/ len >= r + 1
  BY <1>1, <1>2, <1>3 DEF Lesser
<1>8. base \in Nat /\ nb.ybase <= base /\ base + r <= len
  <2>1. CASE ~ordinary
    BY <1>1, <1>5, <1>6, <2>1
  <2>2. CASE ordinary /\ nb.ybase > 0
    <3> HIDE DEF len, rest
    <3>1. rest \in Int
      BY <1>2, <1>3 DEF rest
    <3>2. base = Greater(nb.ybase, Lesser(nb.ybase + rest, len - r))
      BY <1>1, <1>5, <2>2
    <3> QED
      BY <1>1, <1>6, <3>1, <3>2 DEF Greater, Lesser
  <2>3. CASE ordinary /\ nb.ybase = 0
    <3> HIDE DEF len
    <3>1. rest \in Int /\ rest >= 0
      BY <1>1, <1>2, <1>3, <1>4, <2>3
    <3> HIDE DEF rest
    <3>2. base = IF rest = 0 THEN 0 ELSE Greater(1, Lesser(rest, len - r))
      BY <1>5, <2>3
    <3> QED
      BY <1>1, <1>6, <1>7, <2>3, <3>1, <3>2 DEF Greater, Lesser
  <2> QED
    BY <1>1, <2>1, <2>2, <2>3
<1> DEFINE disp == IF nb.ydisp = nb.ybase THEN base ELSE nb.ydisp
<1>9. disp \in Nat /\ disp <= base /\ nb.y + popped \in Int
  BY <1>1, <1>2, <1>8
<1>10. new = [nb EXCEPT !.ybase = base, !.ydisp = disp, !.y = nb.y + popped, !.len = len]
  BY <1>5
<1> HIDE DEF disp, len
<1>11. /\ new \in Buffers /\ new.ybase = base /\ new.ydisp = disp /\ new.y = nb.y + popped /\ new.len = len
       /\ new.savedY = nb.savedY /\ new.max = nb.max /\ new.bottom = nb.bottom
  BY <1>1, <1>6, <1>8, <1>9, <1>10 DEF Buffers
<1>12. new.len > 0
  BY <1>8, <1>6, <1>11
<1>13. Sound(new, "normal", r)
  BY <1>1, <1>6, <1>8, <1>9, <1>11 DEF Sound
<1> QED
  BY <1>2, <1>11, <1>12, <1>13

LEMMA ResizeToGood ==
  ASSUME ScreenInv, NEW c \in Nat, c > 1, NEW r \in Nat, r > 0, ResizeTo(c, r)
  PROVE  Good
<1> DEFINE normal == ResizedRows(buf["normal"], "normal", c, r)
           alt == ResizedRows(buf["alt"], "alt", c, r)
<1>1. /\ cols' = c /\ rows' = r /\ followed' = {} /\ active' = active /\ failed' = failed
      /\ userScrolling' = userScrolling /\ changes' = changes + 1
  BY DEF ResizeTo, Change
<1>2. PICK n \in 0..(IF c > cols THEN normal.len - 1 ELSE normal.max) :
        \E reflowed \in Reflowed(normal, n, c, r) : buf' = [normal |-> reflowed, alt |-> alt]
  BY DEF ResizeTo
<1>3. PICK reflowed \in Reflowed(normal, n, c, r) : buf' = [normal |-> reflowed, alt |-> alt]
  BY <1>2
<1>4. buf["normal"].len > 0 /\ buf["normal"].len \in Nat /\ buf["alt"].len \in Nat
  BY BothBuffers DEF Sound, Buffers
<1>5. /\ Sound(normal, "normal", r) /\ normal.len > 0
      /\ buf["normal"].savedY \in 0..(rows - 1) => normal.savedY \in 0..(r - 1)
      /\ buf["normal"].y \in 0..(rows - 1) => normal.y \in 0..(r - 1)
  BY <1>4, BothBuffers, ResizedRowsSound DEF Which
<1>6. /\ Sound(alt, "alt", r)
      /\ buf["alt"].len = 0 => alt.len = 0 /\ alt.savedY = buf["alt"].savedY
      /\ buf["alt"].len > 0 => /\ alt.len > 0
                               /\ buf["alt"].savedY \in 0..(rows - 1) => alt.savedY \in 0..(r - 1)
                               /\ buf["alt"].y \in 0..(rows - 1) => alt.y \in 0..(r - 1)
  BY BothBuffers, ResizedRowsSound DEF Which
<1> HIDE DEF normal, alt
<1>7. n \in Nat
  BY <1>2
<1>8. /\ Sound(reflowed, "normal", r) /\ reflowed.len > 0 /\ reflowed.savedY = normal.savedY
      /\ normal.y \in 0..(r - 1) => reflowed.y \in 0..(r - 1)
  <2>1. CASE c > cols
    <3>1. reflowed = ReflowedLarger(normal, n, r)
      BY <1>3, <2>1 DEF Reflowed
    <3> QED
      BY <1>5, <1>7, <3>1, LargerSound
  <2>2. CASE c < cols
    <3>1. reflowed \in ReflowedSmaller(normal, n, r)
      BY <1>3, <2>2, BothBuffers DEF Reflowed
    <3> QED
      BY <1>5, <1>7, <3>1, SmallerSound
  <2>3. CASE ~(c > cols) /\ ~(c < cols)
    BY <1>3, <1>5, <2>3 DEF Reflowed
  <2> QED
    BY <2>1, <2>2, <2>3
<1>9. reflowed \in Buffers /\ alt \in Buffers
  BY <1>6, <1>8 DEF Sound
<1>10. buf' \in [Which -> Buffers] /\ buf'["normal"] = reflowed /\ buf'["alt"] = alt
       /\ b' = IF active = "normal" THEN reflowed ELSE alt
  BY <1>1, <1>3, <1>9, BothBuffers DEF Which, b
<1>11. active = "alt" => buf["alt"].len > 0
  BY BothBuffers DEF ScreenInv
<1>12. ScreenInv'
  <2>1. \A w \in Which : Sound(buf'[w], w, rows')
    BY <1>1, <1>6, <1>8, <1>10 DEF Which
  <2>2. b'.len > 0
    BY <1>4, <1>6, <1>8, <1>10, <1>11, BothBuffers
  <2> QED
    BY <1>1, <1>10, <2>1, <2>2 DEF ScreenInv, TypeOK
<1>13. CursorStep
  <2> SUFFICES ASSUME RowsInScreen, ~RowsInScreen'
               PROVE  active = "normal" /\ buf["alt"].savedY \in rows'..(rows - 1)
    BY DEF CursorStep
  <2>1. /\ b.y \in 0..(rows - 1) /\ buf["normal"].savedY \in 0..(rows - 1)
        /\ buf["alt"].savedY \in 0..(rows - 1)
    BY BothBuffers DEF OnScreen
  <2>2. OnScreen(reflowed.savedY)'
    BY <1>1, <1>5, <1>8, <2>1 DEF OnScreen
  <2>3. b'.y \in 0..(r - 1)
    BY <1>5, <1>6, <1>8, <1>10, <1>11, <2>1, BothBuffers
  <2>4. ~(alt.savedY \in 0..(r - 1))
    BY <1>1, <1>5, <1>8, <1>10, <2>1, <2>3 DEF RowsInScreen, OnScreen, Which
  <2>5. buf["alt"].len = 0 /\ alt.savedY = buf["alt"].savedY
    BY <1>4, <1>6, <2>1, <2>4
  <2> QED
    BY <1>1, <1>11, <2>1, <2>4, <2>5, BothBuffers
<1> QED
  BY <1>1, <1>12, <1>13 DEF Good, FreezeStep

LEMMA ResizeGood ==
  ASSUME ScreenInv, Resize \/ ColumnMode
  PROVE  Good
<1>1. \A s \in Sizes : s.cols \in Nat /\ s.rows \in Nat /\ s.cols > 1 /\ s.rows > 0
  BY ScreenAssumption
<1>2. rows \in Nat /\ rows > 0
  BY BothBuffers
<1> QED
  BY <1>1, <1>2, ResizeToGood DEF Resize, ColumnMode

-----------------------------------------------------------------------------
(* Every step keeps the invariant, and loses the cursor or the output only *)
(* in the ways that the properties name.                                   *)
LEMMA OutputGood ==
  ASSUME ScreenInv, Output
  PROVE  Good
<1>1. CASE \E w \in 0..2, wraparound \in BOOLEAN : PrintText(w, wraparound)
  BY <1>1, PrintTextGood
<1>2. CASE LineFeed \/ NextLine \/ Index
  BY <1>2, DownGood
<1>3. CASE CarriageReturn \/ Backspace \/ Tab \/ CursorForwardTab \/ CursorBackwardTab
  BY <1>3, ColumnMoveGood
<1>4. CASE InsertChars \/ DeleteChars \/ EraseChars \/ EraseInLine \/ RepeatPrecedingCharacter
  BY <1>4, BothBuffers, EditsGood
     DEF InsertChars, DeleteChars, EraseChars, EraseInLine, RepeatPrecedingCharacter
<1>5. CASE \E n \in Params : CursorMove(n)
  BY <1>5, CursorMoveGood
<1>6. CASE \E r, c \in Params : CursorPosition(r, c) \/ HVPosition(r, c)
  BY <1>6, CursorPositionGood
<1>7. CASE SaveCursor \/ RestoreCursor
  BY <1>7, SavedGood
<1>8. CASE SoftReset \/ \E t \in Margins : SetScrollRegion(t[1], t[2])
  BY <1>8, MarginsGood
<1>9. CASE InsertLines \/ DeleteLines \/ ScrollUp \/ ScrollDown
  BY <1>9, InsertLinesGood, SplicesGood
<1>10. CASE ReverseIndex
  BY <1>10, ReverseIndexGood
<1>11. CASE EraseBelow \/ EraseAbove \/ EraseHistory
  BY <1>11, EraseGood, EraseHistoryGood
<1>12. CASE \E saving \in BOOLEAN : ActivateAlt(saving)
  BY <1>12, ActivateAltGood
<1>13. CASE \E restoring \in BOOLEAN : ActivateNormal(restoring)
  BY <1>13, ActivateNormalGood
<1>14. CASE ColumnMode
  BY <1>14, ResizeGood
<1> QED
  BY <1>1, <1>2, <1>3, <1>4, <1>5, <1>6, <1>7, <1>8, <1>9, <1>10, <1>11, <1>12, <1>13, <1>14
     DEF Output, CursorMove

LEMMA NextScreen ==
  ASSUME ScreenInv, [Next]_vars
  PROVE  Good
<1>1. CASE User
  BY <1>1, ViewGood, ResizeGood DEF User
<1> QED
  BY <1>1, OutputGood, ResetGood, IdleGood DEF Next

(* Whatever arrives and however the window is resized, each buffer in use  *)
(* has the lines that the handlers reach for (Buffer, BufferSet).          *)
THEOREM ScreenInvariant == Spec => []ScreenInv
<1>1. ScreenInv /\ [Next]_vars => ScreenInv'
  BY NextScreen DEF Good
<1> QED
  BY <1>1, InitScreen, PTL DEF Spec

(* Every row of the screen has its line, the list is never over its        *)
(* capacity and the view starts at a line of it, for every size of the     *)
(* window and every length of the history.                                 *)
THEOREM RowsAlwaysPresent == Spec => []RowsPresent
<1>1. ScreenInv => RowsPresent
  BY BothBuffers DEF RowsPresent, HasRows, Sound, ScreenInv
<1> QED
  BY <1>1, ScreenInvariant, PTL

(* The cursor leaves the screen only by a reverse index above the top      *)
(* margin or with a row saved in the alternate buffer that a resize does   *)
(* not reach; the output stops for good only when a row is looked for off  *)
(* the screen, or by an erasure at the last cell without a history.        *)
THEOREM LostOnlyAsNamed == Spec => LostAsNamed
<1>1. ScreenInv /\ [Next]_vars => [CursorStep]_vars /\ [FreezeStep]_vars
  BY NextScreen DEF Good
<1>2. Spec => CursorLeaves
  BY <1>1, ScreenInvariant, PTL DEF Spec, CursorLeaves, CursorStep
<1>3. Spec => FreezeCause
  BY <1>1, ScreenInvariant, PTL DEF Spec, FreezeCause, FreezeStep
<1> QED
  BY <1>2, <1>3 DEF LostAsNamed

-----------------------------------------------------------------------------
(* What becomes of a line (HistoryStays, MarginsHold), as one step says it. *)
StaysStep ==
  \A i \in followed :
    (/\ userScrolling /\ SameLayout /\ active = "normal"
     /\ i < b.ybase /\ b.top < rows /\ OnScreen(b.y)
     /\ Output /\ b'.ydisp > 0 /\ i + b'.ydisp >= b.ydisp)
    => i - b.ydisp + b'.ydisp \in followed'
MarginStep ==
  \A i \in followed :
    (/\ active = "normal" /\ SameLayout /\ InRegion
     /\ followed = {i} /\ Output)
    => /\ i > regionBottom \/ (i >= b.ybase /\ i < regionTop)
          => i - b.ybase + b'.ybase \in followed'
       /\ i \in regionTop..regionBottom /\ b.top > 0
          => \A j \in followed' : j - b'.ybase \in b.top..b.bottom
       /\ Cardinality(followed') <= 1

(* A followed line in one place, after a line is put in or taken out.      *)
LEMMA OnePosition ==
  ASSUME NEW i \in Int, NEW at \in Int
  PROVE  /\ Without({i}, at) = IF i < at THEN {i} ELSE IF i > at THEN {i - 1} ELSE {}
         /\ Before({i}, at) = IF i < at THEN {i} ELSE {i + 1}
         /\ Trimmed({i}, at) = IF i >= at THEN {i - at} ELSE {}
<1>1. Without({i}, at) = IF i < at THEN {i} ELSE IF i > at THEN {i - 1} ELSE {}
  BY DEF Without
<1>2. Before({i}, at) = IF i < at THEN {i} ELSE {i + 1}
  BY DEF Before
<1>3. Trimmed({i}, at) = IF i >= at THEN {i - at} ELSE {}
  BY DEF Trimmed
<1> QED
  BY <1>1, <1>2, <1>3

LEMMA NoPosition ==
  ASSUME NEW at \in Int
  PROVE  Without({}, at) = {} /\ Before({}, at) = {} /\ Trimmed({}, at) = {}
BY DEF Without, Before, Trimmed

LEMMA AboveStays ==
  ASSUME NEW f \in SUBSET Int, NEW i \in f, NEW at \in Int
  PROVE  /\ i < at => i \in Without(f, at) /\ i \in Before(f, at)
         /\ i >= at => i - at \in Trimmed(f, at)
BY DEF Without, Before, Trimmed

LEMMA AtMostOne ==
  /\ Cardinality({}) <= 1
  /\ \A i : Cardinality({i}) <= 1
BY FS_EmptySet, FS_Singleton

LEMMA SteadyLines ==
  ASSUME ScreenInv, Steady
  PROVE  StaysStep /\ MarginStep
<1>1. /\ b.ybase \in Nat /\ b.ydisp \in Nat /\ b.top \in Nat /\ b.bottom \in Nat /\ followed \subseteq Int
  BY BothBuffers DEF Buffers, ScreenInv, TypeOK
<1>2. StaysStep
  BY <1>1 DEF StaysStep, Steady
<1>3. MarginStep
  <2> SUFFICES ASSUME NEW i \in followed, followed = {i}
               PROVE  /\ i - b.ybase + b'.ybase \in followed'
                      /\ i \in regionTop..regionBottom
                         => \A j \in followed' : j - b'.ybase \in b.top..b.bottom
                      /\ Cardinality(followed') <= 1
    BY DEF MarginStep
  <2>1. followed' = {i} /\ b'.ybase = b.ybase /\ i \in Int
    BY <1>1 DEF Steady
  <2>2. Cardinality(followed') <= 1
    BY <2>1, AtMostOne
  <2>3. i - b.ybase + b'.ybase = i
    BY <1>1, <2>1
  <2>4. i \in regionTop..regionBottom => i - b.ybase \in b.top..b.bottom
    BY <1>1, <2>1 DEF regionTop, regionBottom
  <2> QED
    BY <2>1, <2>2, <2>3, <2>4
<1> QED
  BY <1>2, <1>3

(* A row down: the line at the top goes to the history, or the region moves. *)
LEMMA DownLines ==
  ASSUME ScreenInv, NEW nb, SameLines(nb), nb.top = b.top, nb.bottom = b.bottom, nb.y = b.y,
         b'.ybase = Down(nb).ybase, b'.ydisp = Down(nb).ydisp,
         followed' = IF active = "normal" THEN DownFollowed(b) ELSE followed
  PROVE  StaysStep /\ MarginStep
<1>1. /\ b.ybase \in Nat /\ b.ydisp \in Nat /\ b.top \in Nat /\ b.bottom \in Nat /\ followed \subseteq Int
      /\ b.y \in Int /\ nb \in Buffers /\ b.len \in Nat /\ b.max \in Nat
      /\ nb.len = b.len /\ nb.max = b.max /\ nb.ybase = b.ybase /\ nb.ydisp = b.ydisp
  BY BothBuffers DEF Buffers, ScreenInv, TypeOK, SameLines
<1>2. CASE ~(b.y + 1 > b.bottom)
  <2>1. Down(nb).ybase = b.ybase /\ Down(nb).ydisp = b.ydisp
    BY <1>1, <1>2 DEF Down, Buffers
  <2>2. Steady
    BY <1>2, <2>1 DEF Steady, DownFollowed
  <2> QED
    BY <2>2, SteadyLines
<1>3. CASE b.y + 1 > b.bottom /\ active = "normal"
  <2> DEFINE full == b.len = b.max
             topRow == b.ybase + b.top
             bottomRow == b.ybase + b.bottom
  <2>1. /\ b'.ybase = IF b.top # 0 \/ full THEN b.ybase ELSE b.ybase + 1
        /\ userScrolling => b'.ydisp = IF b.top = 0 /\ full THEN Greater(b.ydisp - 1, 0) ELSE b.ydisp
    BY <1>1, <1>3, ScrolledSound DEF Down
  <2>2. followed' = ScrolledFollowed(b)
    BY <1>3 DEF DownFollowed
  <2>3. topRow \in Int /\ bottomRow \in Int /\ bottomRow + 1 \in Int
    BY <1>1
  <2>4. CASE b.top = 0
    <3>1. followed' = IF full THEN Trimmed(Before(followed, bottomRow + 1), 1)
                      ELSE Before(followed, bottomRow + 1)
      BY <2>2, <2>4 DEF ScrolledFollowed
    <3>2. Before(followed, bottomRow + 1) \in SUBSET Int
      BY <1>1, <2>3, Positions
    <3>3. StaysStep
      <4> SUFFICES ASSUME NEW i \in followed, userScrolling, i < b.ybase,
                          b'.ydisp > 0, i + b'.ydisp >= b.ydisp
                   PROVE  i - b.ydisp + b'.ydisp \in followed'
        BY DEF StaysStep
      <4>1. i \in Int /\ i < bottomRow + 1
        BY <1>1
      <4>2. i \in Before(followed, bottomRow + 1)
        BY <1>1, <2>3, <4>1, AboveStays
      <4>3. CASE full
        <5>1. b'.ydisp = b.ydisp - 1 /\ i >= 1
          BY <1>1, <2>1, <2>4, <4>1, <4>3 DEF Greater
        <5>2. i - 1 \in Trimmed(Before(followed, bottomRow + 1), 1)
          BY <3>2, <4>2, <5>1, AboveStays
        <5>3. i - b.ydisp + b'.ydisp = i - 1
          BY <1>1, <4>1, <5>1
        <5> QED
          BY <3>1, <4>3, <5>2, <5>3
      <4>4. CASE ~full
        <5>1. i - b.ydisp + b'.ydisp = i
          BY <1>1, <2>1, <2>4, <4>1, <4>4
        <5> QED
          BY <3>1, <4>2, <4>4, <5>1
      <4> QED
        BY <4>3, <4>4
    <3>4. MarginStep
      <4> SUFFICES ASSUME NEW i \in followed, followed = {i}
                   PROVE  /\ i > bottomRow => i - b.ybase + b'.ybase \in followed'
                          /\ Cardinality(followed') <= 1
        BY <1>1, <2>4 DEF MarginStep, regionTop, regionBottom
      <4>1. i \in Int /\ i + 1 \in Int
        BY <1>1
      <4>2. Before(followed, bottomRow + 1) = IF i < bottomRow + 1 THEN {i} ELSE {i + 1}
        BY <2>3, <4>1, OnePosition
      <4>3. CASE full
        <5>1. followed' = Trimmed(IF i < bottomRow + 1 THEN {i} ELSE {i + 1}, 1) /\ b'.ybase = b.ybase
          BY <2>1, <3>1, <4>2, <4>3
        <5>2. CASE i > bottomRow
          <6>1. followed' = {i}
            <7>1. ~(i < bottomRow + 1) /\ i + 1 >= 1 /\ (i + 1) - 1 = i
              BY <1>1, <4>1, <5>2
            <7>2. followed' = Trimmed({i + 1}, 1)
              BY <5>1, <7>1, Zenon
            <7>3. Trimmed({i + 1}, 1) = {i}
              BY <4>1, <7>1 DEF Trimmed
            <7> QED
              BY <7>2, <7>3
          <6>2. i - b.ybase + b'.ybase = i
            BY <1>1, <4>1, <5>1
          <6>3. Cardinality(followed') <= 1
            BY <6>1, AtMostOne
          <6> QED
            BY <6>1, <6>2, <6>3
        <5>3. CASE ~(i > bottomRow)
          <6>1. followed' = Trimmed({i}, 1)
            <7>1. i < bottomRow + 1
              BY <2>3, <4>1, <5>3
            <7> QED
              BY <5>1, <7>1, Zenon
          <6>3. Trimmed({i}, 1) = IF i >= 1 THEN {i - 1} ELSE {}
            BY <4>1 DEF Trimmed
          <6>2. followed' = {} \/ followed' = {i - 1}
            BY <6>1, <6>3
          <6> QED
            BY <5>3, <6>2, AtMostOne
        <5> QED
          BY <5>2, <5>3
      <4>4. CASE ~full
        <5>1. followed' = (IF i < bottomRow + 1 THEN {i} ELSE {i + 1}) /\ b'.ybase = b.ybase + 1
          BY <2>1, <2>4, <3>1, <4>2, <4>4
        <5>2. i > bottomRow => followed' = {i + 1} /\ i - b.ybase + b'.ybase = i + 1
          BY <1>1, <4>1, <5>1
        <5> QED
          BY <5>1, <5>2, AtMostOne
      <4> QED
        BY <4>3, <4>4
    <3> QED
      BY <3>3, <3>4
  <2>5. CASE b.top # 0
    <3> DEFINE gone == IF b.bottom > b.top THEN topRow ELSE bottomRow
    <3>1. followed' = {IF i > topRow /\ i <= bottomRow THEN i - 1 ELSE i : i \in followed \ {gone}}
      BY <2>2, <2>5 DEF ScrolledFollowed
    <3>2. b'.ybase = b.ybase /\ (userScrolling => b'.ydisp = b.ydisp)
      BY <2>1, <2>5
    <3>3. StaysStep
      <4> SUFFICES ASSUME NEW i \in followed, userScrolling, i < b.ybase
                   PROVE  i - b.ydisp + b'.ydisp \in followed'
        BY DEF StaysStep
      <4>1. i \in Int /\ i # gone /\ ~(i > topRow) /\ i - b.ydisp + b'.ydisp = i
        BY <1>1, <3>2
      <4> QED
        BY <3>1, <4>1
    <3>4. MarginStep
      <4> SUFFICES ASSUME NEW i \in followed, followed = {i}, b.top < b.bottom
                   PROVE  /\ i > bottomRow \/ i < topRow => i - b.ybase + b'.ybase \in followed'
                          /\ i \in topRow..bottomRow
                             => \A j \in followed' : j - b'.ybase \in b.top..b.bottom
                          /\ Cardinality(followed') <= 1
        BY DEF MarginStep, InRegion, regionTop, regionBottom
      <4>1. i \in Int /\ gone = topRow
        BY <1>1
      <4>2. followed' = IF i = topRow THEN {} ELSE IF i > topRow /\ i <= bottomRow THEN {i - 1} ELSE {i}
        <5> DEFINE place(j) == IF j > topRow /\ j <= bottomRow THEN j - 1 ELSE j
        <5>1. followed' = {place(j) : j \in followed \ {topRow}}
          BY <3>1, <4>1
        <5>2. CASE i = topRow
          <6>1. followed \ {topRow} = {}
            BY <5>2
          <6> QED
            BY <5>1, <5>2, <6>1
        <5>3. CASE i # topRow
          <6>1. followed \ {topRow} = {i}
            BY <5>3
          <6>2. followed' = {place(i)}
            BY <5>1, <6>1
          <6> QED
            BY <5>3, <6>2
        <5> QED
          BY <5>2, <5>3
      <4>3. i > bottomRow \/ i < topRow => followed' = {i} /\ i - b.ybase + b'.ybase = i
        BY <1>1, <3>2, <4>1, <4>2
      <4>4. i \in topRow..bottomRow => \A j \in followed' : j - b'.ybase \in b.top..b.bottom
        BY <1>1, <3>2, <4>1, <4>2
      <4>5. Cardinality(followed') <= 1
        BY <4>2, AtMostOne
      <4> QED
        BY <4>3, <4>4, <4>5
    <3> QED
      BY <3>3, <3>4
  <2> QED
    BY <2>4, <2>5
<1>4. CASE active # "normal"
  BY <1>4 DEF StaysStep, MarginStep
<1> QED
  BY <1>2, <1>3, <1>4

(* A line taken out and one put in, inside of the region.                  *)
LEMMA SplicedOne ==
  ASSUME NEW i \in Int, NEW at \in Int, NEW to \in Int
  PROVE  /\ i = at => Before(Without({i}, at), to) = {}
         /\ i < at => Before(Without({i}, at), to) = IF i < to THEN {i} ELSE {i + 1}
         /\ i > at => Before(Without({i}, at), to) = IF i - 1 < to THEN {i - 1} ELSE {i}
<1>1. ASSUME i = at
      PROVE  Before(Without({i}, at), to) = {}
  <2>1. Without({i}, at) = {}
    BY <1>1 DEF Without
  <2> QED
    BY <2>1, NoPosition
<1>2. ASSUME i < at
      PROVE  Before(Without({i}, at), to) = IF i < to THEN {i} ELSE {i + 1}
  <2>1. Without({i}, at) = {i}
    BY <1>2 DEF Without
  <2>2. Before({i}, to) = IF i < to THEN {i} ELSE {i + 1}
    BY DEF Before
  <2> QED
    BY <2>1, <2>2
<1>3. ASSUME i > at
      PROVE  Before(Without({i}, at), to) = IF i - 1 < to THEN {i - 1} ELSE {i}
  <2>1. Without({i}, at) = {i - 1}
    BY <1>3 DEF Without
  <2>2. Before({i - 1}, to) = IF i - 1 < to THEN {i - 1} ELSE {i}
    BY DEF Before
  <2> QED
    BY <2>1, <2>2
<1> QED
  BY <1>1, <1>2, <1>3

LEMMA SpliceLines ==
  ASSUME ScreenInv, NEW at \in Int, NEW to \in Int,
         OnScreen(b.y) /\ b.top < rows => /\ at \in b.ybase..(b.ybase + rows - 1)
                                          /\ to \in b.ybase..(b.ybase + rows - 1),
         InRegion => at \in regionTop..regionBottom /\ to \in regionTop..regionBottom,
         b'.ybase = b.ybase, b'.ydisp = b.ydisp,
         active = "normal" => followed' = PutIn(TakenOut(at), to)
  PROVE  StaysStep /\ MarginStep
<1>1. /\ b.ybase \in Nat /\ b.ydisp \in Nat /\ b.top \in Nat /\ b.bottom \in Nat /\ followed \subseteq Int
      /\ b.len \in Nat /\ rows \in Nat /\ b.ybase + rows <= b.len /\ b.bottom < rows /\ b.y \in Int
  BY BothBuffers DEF Buffers, ScreenInv, TypeOK, Sound
<1>2. ASSUME OnScreen(b.y), b.top < rows, active = "normal"
      PROVE  followed' = Before(Without(followed, at), to)
  <2>1. at >= 0 /\ at < b.len /\ to >= 0 /\ to < b.len
    BY <1>1, <1>2
  <2>2. Greater(0, Lesser(at, b.len - 1)) = at /\ Greater(to, 0) = to
    BY <1>1, <2>1 DEF Greater, Lesser
  <2> QED
    BY <1>2, <2>1, <2>2 DEF PutIn, TakenOut
<1>3. StaysStep
  <2> SUFFICES ASSUME NEW i \in followed, i < b.ybase, OnScreen(b.y), b.top < rows, active = "normal"
               PROVE  i - b.ydisp + b'.ydisp \in followed'
    BY DEF StaysStep
  <2>1. i \in Int /\ i < at /\ i < to /\ i - b.ydisp + b'.ydisp = i
    BY <1>1
  <2>2. i \in Without(followed, at) /\ Without(followed, at) \in SUBSET Int
    BY <1>1, <2>1, AboveStays, Positions
  <2>3. i \in Before(Without(followed, at), to)
    BY <2>1, <2>2, AboveStays
  <2> QED
    BY <1>2, <2>1, <2>3
<1>4. MarginStep
  <2> SUFFICES ASSUME NEW i \in followed, followed = {i}, InRegion, active = "normal"
               PROVE  /\ i > regionBottom \/ i < regionTop => i - b.ybase + b'.ybase \in followed'
                      /\ i \in regionTop..regionBottom
                         => \A j \in followed' : j - b'.ybase \in b.top..b.bottom
                      /\ Cardinality(followed') <= 1
    BY DEF MarginStep
  <2>1. /\ at \in regionTop..regionBottom /\ to \in regionTop..regionBottom
        /\ regionTop = b.ybase + b.top /\ regionBottom = b.ybase + b.bottom
        /\ i \in Int /\ i - b.ybase + b'.ybase = i
    BY <1>1 DEF regionTop, regionBottom
  <2>2. OnScreen(b.y) /\ b.top < rows
    BY <1>1 DEF InRegion, OnScreen
  <2>3. followed' = Before(Without({i}, at), to)
    BY <1>2, <2>2
  <2>4. CASE i = at
    <3>1. followed' = {} /\ i \in regionTop..regionBottom
      BY <2>1, <2>3, <2>4, SplicedOne
    <3>2. ~(i > regionBottom \/ i < regionTop)
      BY <1>1, <2>1, <2>4
    <3> QED
      BY <3>1, <3>2, AtMostOne
  <2>5. CASE i < at
    <3>1. followed' = IF i < to THEN {i} ELSE {i + 1}
      BY <2>1, <2>3, <2>5, SplicedOne
    <3>2. i > regionBottom \/ i < regionTop => followed' = {i}
      BY <1>1, <2>1, <2>5, <3>1
    <3>3. i \in regionTop..regionBottom => \A j \in followed' : j - b.ybase \in b.top..b.bottom
      BY <1>1, <2>1, <2>5, <3>1
    <3>4. Cardinality(followed') <= 1
      BY <3>1, AtMostOne
    <3> QED
      BY <2>1, <3>2, <3>3, <3>4
  <2>6. CASE i > at
    <3>1. followed' = IF i - 1 < to THEN {i - 1} ELSE {i}
      BY <2>1, <2>3, <2>6, SplicedOne
    <3>2. i > regionBottom \/ i < regionTop => followed' = {i}
      BY <1>1, <2>1, <2>6, <3>1
    <3>3. i \in regionTop..regionBottom => \A j \in followed' : j - b.ybase \in b.top..b.bottom
      BY <1>1, <2>1, <2>6, <3>1
    <3>4. Cardinality(followed') <= 1
      BY <3>1, AtMostOne
    <3> QED
      BY <2>1, <3>2, <3>3, <3>4
  <2> QED
    BY <2>1, <2>4, <2>5, <2>6
<1> QED
  BY <1>3, <1>4

LEMMA RegionLines ==
  ASSUME ScreenInv, InsertLines \/ DeleteLines \/ ScrollUp \/ ScrollDown
  PROVE  StaysStep /\ MarginStep
<1>1. /\ b.ybase \in Nat /\ b.top \in Nat /\ b.bottom \in Nat /\ b.y \in Int
      /\ rows \in Nat /\ b.bottom < rows
      /\ row = b.ybase + b.y /\ regionTop = b.ybase + b.top /\ regionBottom = b.ybase + b.bottom
  BY BothBuffers DEF Buffers, Sound, row, regionTop, regionBottom
<1>2. row \in Int /\ regionTop \in Int /\ regionBottom \in Int
  BY <1>1
<1>3. OnScreen(b.y) /\ b.top < rows => /\ row \in b.ybase..(b.ybase + rows - 1)
                                       /\ regionTop \in b.ybase..(b.ybase + rows - 1)
                                       /\ regionBottom \in b.ybase..(b.ybase + rows - 1)
  BY <1>1 DEF OnScreen
<1>4. InRegion => /\ row \in regionTop..regionBottom /\ regionTop \in regionTop..regionBottom
                  /\ regionBottom \in regionTop..regionBottom
  BY <1>1 DEF InRegion
<1>5. b' = b
  <2>1. Stay /\ (buf' = buf \/ Becomes(b))
    BY DEF InsertLines, DeleteLines, ScrollUp, ScrollDown, Shifts, Keep
  <2>2. Becomes(b) /\ Sound(b, active, rows) /\ b.len > 0
    BY <2>1, Unchanged DEF ScreenInv, TypeOK, b
  <2> QED
    BY <2>1, <2>2, BecomesSound
<1>6. CASE InsertLines
  BY <1>2, <1>3, <1>4, <1>5, <1>6, SpliceLines DEF InsertLines
<1>7. CASE DeleteLines
  BY <1>2, <1>3, <1>4, <1>5, <1>7, SpliceLines DEF DeleteLines, Shifts
<1>8. CASE ScrollUp
  BY <1>2, <1>3, <1>4, <1>5, <1>8, SpliceLines DEF ScrollUp, Shifts
<1>9. CASE ScrollDown
  BY <1>2, <1>3, <1>4, <1>5, <1>9, SpliceLines DEF ScrollDown, Shifts
<1> QED
  BY <1>6, <1>7, <1>8, <1>9

LEMMA ReverseIndexLines ==
  ASSUME ScreenInv, ReverseIndex
  PROVE  StaysStep /\ MarginStep
<1>1. /\ b.ybase \in Nat /\ b.ydisp \in Nat /\ b.top \in Nat /\ b.bottom \in Nat /\ b.y \in Int
      /\ followed \subseteq Int /\ b.x \in Int
      /\ row = b.ybase + b.y /\ regionTop = b.ybase + b.top /\ regionBottom = b.ybase + b.bottom
  BY BothBuffers DEF Buffers, ScreenInv, TypeOK, row, regionTop, regionBottom
<1>2. CASE b.y # b.top
  <2>1. Steady
    <3>1. Moves([b EXCEPT !.y = b.y - 1]) /\ b.y - 1 \in Int
      BY <1>1, <1>2 DEF ReverseIndex
    <3>2. SameLines([b EXCEPT !.y = b.y - 1])
      BY <1>1, <3>1, MoveKinds
    <3> QED
      BY <3>1, <3>2, SteadyKept DEF Moves, Keep
  <2> QED
    BY <2>1, SteadyLines
<1>3. CASE b.y = b.top
  <2> DEFINE gone == IF b.bottom > b.top THEN regionBottom ELSE row
  <2>1. b' = b
    BY <1>3, Unchanged, BecomesSound DEF ReverseIndex, Shifts, Keep, ScreenInv, TypeOK, b
  <2>2. active = "normal" =>
          followed' = {IF i >= row /\ i < regionBottom THEN i + 1 ELSE i : i \in followed \ {gone}}
    BY <1>3 DEF ReverseIndex, Shifts
  <2>3. StaysStep
    <3> SUFFICES ASSUME NEW i \in followed, i < b.ybase, active = "normal"
                 PROVE  i - b.ydisp + b'.ydisp \in followed'
      BY DEF StaysStep
    <3>1. i \in Int /\ i # gone /\ ~(i >= row) /\ i - b.ydisp + b'.ydisp = i
      BY <1>1, <1>3, <2>1
    <3> QED
      BY <2>2, <3>1
  <2>4. MarginStep
    <3> SUFFICES ASSUME NEW i \in followed, followed = {i}, b.top < b.bottom, active = "normal"
                 PROVE  /\ i > regionBottom \/ i < regionTop => i - b.ybase + b'.ybase \in followed'
                        /\ i \in regionTop..regionBottom
                           => \A j \in followed' : j - b'.ybase \in b.top..b.bottom
                        /\ Cardinality(followed') <= 1
      BY DEF MarginStep, InRegion
    <3>1. i \in Int /\ gone = regionBottom /\ row = regionTop
      BY <1>1, <1>3
    <3>2. followed' = IF i = regionBottom THEN {}
                      ELSE IF i >= regionTop /\ i < regionBottom THEN {i + 1} ELSE {i}
      BY <2>2, <3>1
    <3>3. i > regionBottom \/ i < regionTop => followed' = {i} /\ i - b.ybase + b'.ybase = i
      BY <1>1, <2>1, <3>1, <3>2
    <3>4. i \in regionTop..regionBottom => \A j \in followed' : j - b'.ybase \in b.top..b.bottom
      BY <1>1, <2>1, <3>1, <3>2
    <3>5. Cardinality(followed') <= 1
      BY <3>2, AtMostOne
    <3> QED
      BY <3>3, <3>4, <3>5
  <2> QED
    BY <2>3, <2>4
<1> QED
  BY <1>2, <1>3

LEMMA EraseHistoryLines ==
  ASSUME ScreenInv, EraseHistory
  PROVE  StaysStep /\ MarginStep
<1> DEFINE n == b.len - rows
           nb == [b EXCEPT !.len = b.len - n, !.ybase = Greater(b.ybase - n, 0),
                           !.ydisp = Greater(b.ydisp - n, 0)]
<1>1. /\ b \in Buffers /\ rows \in Nat /\ rows > 0 /\ Sound(b, active, rows)
      /\ b.ybase + rows <= b.len /\ b.ydisp <= b.ybase /\ b.max \in Nat
      /\ b.len \in Nat /\ b.ybase \in Nat /\ b.ydisp \in Nat /\ b.top \in Nat /\ b.bottom \in Nat
      /\ followed \subseteq Int
  BY DEF ScreenInv, TypeOK, b, Buffers, Sound
<1>2. n > 0 /\ Shifts(nb, Trimmed(followed, n))
  BY DEF EraseHistory
<1>3. b.len - n = rows /\ Greater(b.ybase - n, 0) = 0 /\ Greater(b.ydisp - n, 0) = 0 /\ n \in Int
  BY <1>1 DEF Greater
<1>4. nb = [b EXCEPT !.len = rows, !.ybase = 0, !.ydisp = 0]
  BY <1>3
<1> HIDE DEF nb
<1>5. nb \in Buffers /\ nb.len = rows /\ nb.ybase = 0 /\ nb.ydisp = 0 /\ nb.max = b.max /\ nb.bottom = b.bottom
  BY <1>1, <1>4 DEF Buffers
<1>6. Sound(nb, active, rows) /\ nb.len > 0
  BY <1>1, <1>3, <1>5 DEF Sound, Buffers
<1>7. b' = nb
  BY <1>2, <1>6, BecomesSound DEF Shifts, Keep
<1>8. StaysStep
  BY <1>5, <1>7 DEF StaysStep
<1>9. MarginStep
  <2> SUFFICES ASSUME NEW i \in followed, followed = {i}, b.len = b.ybase + rows, active = "normal"
               PROVE  /\ i > regionBottom \/ i >= b.ybase => i - b.ybase + b'.ybase \in followed'
                      /\ i \in regionTop..regionBottom
                         => \A j \in followed' : j - b'.ybase \in b.top..b.bottom
                      /\ Cardinality(followed') <= 1
    BY DEF MarginStep, InRegion
  <2>1. i \in Int /\ n = b.ybase /\ b'.ybase = 0 /\ regionTop = b.ybase + b.top
        /\ regionBottom = b.ybase + b.bottom
    BY <1>1, <1>5, <1>7 DEF regionTop, regionBottom
  <2>2. followed' = Trimmed({i}, n)
    BY <1>2 DEF Shifts
  <2>3. Trimmed({i}, n) = IF i >= n THEN {i - n} ELSE {}
    BY <1>3, <2>1, OnePosition
  <2> HIDE DEF n
  <2>4. CASE i >= b.ybase
    <3>1. followed' = {i - b.ybase} /\ i - b.ybase + b'.ybase = i - b.ybase
          /\ (i - b.ybase) - b'.ybase = i - b.ybase
      BY <1>1, <2>1, <2>2, <2>3, <2>4
    <3>2. i \in regionTop..regionBottom => i - b.ybase \in b.top..b.bottom
      BY <1>1, <2>1
    <3>3. Cardinality(followed') <= 1
      BY <3>1, AtMostOne
    <3> QED
      BY <3>1, <3>2, <3>3
  <2>5. CASE ~(i >= b.ybase)
    <3>1. followed' = {} /\ ~(i > regionBottom)
      BY <1>1, <2>1, <2>2, <2>3, <2>5
    <3> QED
      BY <2>5, <3>1, AtMostOne
  <2> QED
    BY <2>4, <2>5
<1> QED
  BY <1>8, <1>9

LEMMA RowDownLines ==
  ASSUME ScreenInv, LineFeed \/ NextLine \/ Index
  PROVE  StaysStep /\ MarginStep
<1>1. PICK nx \in Int : Shifts([Down(b) EXCEPT !.x = nx], DownFollowed(b))
  BY RowDown, CoordinateTypes DEF LineFeed, NextLine, Index
<1> DEFINE nb == [Down(b) EXCEPT !.x = nx]
<1>2. /\ Sound(nb, active, rows) /\ nb.len > 0 /\ nb.y = Down(b).y /\ nb.savedY = Down(b).savedY
      /\ nb.ybase = Down(b).ybase /\ nb.ydisp = Down(b).ydisp
  BY RowDown, OtherColumn DEF Buffers
<1>3. Shifts(nb, DownFollowed(b))
  BY <1>1
<1> HIDE DEF nb
<1>4. b' = nb /\ followed' = IF active = "normal" THEN DownFollowed(b) ELSE followed
  BY <1>2, <1>3, BecomesSound DEF Shifts, Keep
<1>5. SameLines(b)
  BY BothBuffers, MoveKinds
<1> QED
  BY <1>2, <1>4, <1>5, DownLines

LEMMA PrintTextLines ==
  ASSUME ScreenInv, NEW w \in 0..2, NEW wraparound \in BOOLEAN, PrintText(w, wraparound)
  PROVE  StaysStep /\ MarginStep
<1>1. b.x \in Int /\ b.x + 1 \in Int /\ b.x + Greater(w, 1) \in Int /\ b \in Buffers /\ w \in Int
  BY BothBuffers DEF Greater
<1>2. CASE Edits(b.x) \/ Edits(b.x + Greater(w, 1)) \/ Edits(b.x + 1)
  BY <1>1, <1>2, EditsGood, SteadyLines
<1>3. CASE Moves(b)
  <2>1. SameLines(b)
    BY <1>1, MoveKinds
  <2> QED
    BY <1>3, <2>1, SteadyKept, SteadyLines DEF Moves, Keep
<1> DEFINE start == [b EXCEPT !.x = 0]
           nb == Down(start)
           shown == [nb EXCEPT !.x = IF failed' THEN 0 ELSE w]
<1>4. CASE /\ Reaches(nb, nb.ybase + nb.y) /\ Becomes(shown) /\ Keep
           /\ followed' = IF active = "normal" THEN DownFollowed(b) ELSE followed
  <2>1. nb \in Buffers /\ Sound(nb, active, rows) /\ nb.len > 0
    BY WrapSound
  <2>2. SameLines(start) /\ start.y = b.y /\ start.top = b.top /\ start.bottom = b.bottom
    <3>1. \E z \in Int : z = 0
      OBVIOUS
    <3>2. SameLines(start)
      BY <3>1, MoveKinds
    <3> QED
      BY <1>1, <3>2 DEF Buffers
  <2> HIDE DEF start
  <2>3. b' = shown
    <3> DEFINE x == IF failed' THEN 0 ELSE w
    <3>1. x \in Int
      BY <1>1
    <3> HIDE DEF nb, x
    <3>2. Sound([nb EXCEPT !.x = x], active, rows) /\ [nb EXCEPT !.x = x].len > 0
      BY <2>1, <3>1, OtherColumn
    <3>3. shown = [nb EXCEPT !.x = x]
      BY DEF x
    <3> HIDE DEF shown
    <3> QED
      BY <1>4, <3>2, <3>3, BecomesSound DEF Keep
  <2>4. shown.ybase = nb.ybase /\ shown.ydisp = nb.ydisp
    BY <2>1 DEF Buffers
  <2> QED
    BY <1>4, <2>2, <2>3, <2>4, DownLines
<1> QED
  BY <1>2, <1>3, <1>4 DEF PrintText

LEMMA SwitchLines ==
  ASSUME ScreenInv,
         \/ \E saving \in BOOLEAN : ActivateAlt(saving)
         \/ \E restoring \in BOOLEAN : ActivateNormal(restoring)
         \/ ColumnMode
  PROVE  StaysStep /\ MarginStep
<1>1. CASE active # "normal"
  BY <1>1 DEF StaysStep, MarginStep
<1>2. CASE \E saving \in BOOLEAN : ActivateAlt(saving)
  BY <1>1, <1>2 DEF ActivateAlt, StaysStep, MarginStep, SameLayout
<1>3. CASE active = "normal" /\ \E restoring \in BOOLEAN : ActivateNormal(restoring)
  <2>1. PICK restoring \in BOOLEAN : ActivateNormal(restoring)
    BY <1>3
  <2>2. PICK x \in IF restoring THEN 0..cols ELSE {0} :
          buf' = [normal |-> IF restoring THEN [b EXCEPT !.x = x, !.y = b.savedY] ELSE b,
                  alt |-> buf["alt"]]
    BY <1>3, <2>1 DEF ActivateNormal
  <2>3. b' = IF restoring THEN [b EXCEPT !.x = x, !.y = b.savedY] ELSE b
    BY <1>3, <2>1, <2>2 DEF ActivateNormal, b
  <2>4. b'.ybase = b.ybase /\ b'.ydisp = b.ydisp
    BY <2>3, BothBuffers DEF Buffers
  <2> QED
    BY <2>1, <2>4, SteadyLines DEF ActivateNormal, Steady
<1>4. CASE ColumnMode
  BY <1>4 DEF ColumnMode, ResizeTo, StaysStep, MarginStep, SameLayout
<1> QED
  BY <1>1, <1>2, <1>3, <1>4

LEMMA OutputLines ==
  ASSUME ScreenInv, Output
  PROVE  StaysStep /\ MarginStep
<1>1. CASE \E w \in 0..2, wraparound \in BOOLEAN : PrintText(w, wraparound)
  BY <1>1, PrintTextLines
<1>2. CASE LineFeed \/ NextLine \/ Index
  BY <1>2, RowDownLines
<1>3. CASE CarriageReturn \/ Backspace \/ Tab \/ CursorForwardTab \/ CursorBackwardTab
  BY <1>3, ColumnMoveGood, SteadyLines
<1>4. CASE InsertChars \/ DeleteChars \/ EraseChars \/ EraseInLine \/ RepeatPrecedingCharacter
  BY <1>4, BothBuffers, EditsGood, SteadyLines
     DEF InsertChars, DeleteChars, EraseChars, EraseInLine, RepeatPrecedingCharacter
<1>5. CASE \E n \in Params : CursorMove(n)
  BY <1>5, CursorMoveGood, SteadyLines
<1>6. CASE \E r, c \in Params : CursorPosition(r, c) \/ HVPosition(r, c)
  BY <1>6, CursorPositionGood, SteadyLines
<1>7. CASE SaveCursor \/ RestoreCursor
  BY <1>7, SavedGood, SteadyLines
<1>8. CASE SoftReset \/ \E t \in Margins : SetScrollRegion(t[1], t[2])
  BY <1>8, MarginsGood, SteadyLines
<1>9. CASE InsertLines \/ DeleteLines \/ ScrollUp \/ ScrollDown
  BY <1>9, RegionLines
<1>10. CASE ReverseIndex
  BY <1>10, ReverseIndexLines
<1>11. CASE EraseBelow \/ EraseAbove \/ EraseHistory
  BY <1>11, EraseGood, EraseHistoryLines, SteadyLines
<1>12. CASE \/ \E saving \in BOOLEAN : ActivateAlt(saving)
            \/ \E restoring \in BOOLEAN : ActivateNormal(restoring)
            \/ ColumnMode
  BY <1>12, SwitchLines
<1> QED
  BY <1>1, <1>2, <1>3, <1>4, <1>5, <1>6, <1>7, <1>8, <1>9, <1>10, <1>11, <1>12
     DEF Output, CursorMove

(* A line of the history keeps its place under the eyes of a user who has  *)
(* scrolled up, and a line outside the margins keeps its row, whatever     *)
(* sequence arrives, for every window, history and pair of margins.        *)
THEOREM LinesAlwaysStay == Spec => LinesStay
<1>1. ScreenInv /\ [Next]_vars => [StaysStep]_vars /\ [MarginStep]_vars
  BY OutputLines DEF StaysStep, MarginStep
<1>2. Spec => HistoryStays
  BY <1>1, ScreenInvariant, PTL DEF Spec, HistoryStays, StaysStep
<1>3. Spec => MarginsHold
  BY <1>1, ScreenInvariant, PTL DEF Spec, MarginsHold, MarginStep
<1> QED
  BY <1>2, <1>3 DEF LinesStay
=============================================================================
