------------------------------- MODULE Reflow -------------------------------
(***************************************************************************)
(* What is written in the rows of the normal buffer of xterm.js, and what  *)
(* becomes of it when the window changes its size: the cells of a line     *)
(* (BufferLine), the characters that arrive (InputHandler.print), and the  *)
(* reflow of wrapped lines (Buffer.resize, BufferReflow), with the in-place*)
(* copies the code makes.                                                  *)
(*                                                                         *)
(* A character is a number: its place in the text received.  A character   *)
(* that has been given an accent (a combining one) is kept outside of the  *)
(* cells, in a table of its line (_combined); the cell has a flag.         *)
(*                                                                         *)
(* The margins are the whole screen and the user has not scrolled: module  *)
(* Screen has both, and this one implements it.                            *)
(***************************************************************************)
EXTENDS Integers, Sequences, FiniteSetsExt

Seqs == INSTANCE SequencesExt

CONSTANTS
  Sizes,       \* the sizes [cols, rows] the window takes
  Scrollback,  \* options.scrollback
  First,       \* the size it is created with
  Words,       \* runs of characters received together: sequences of widths
  MaxWrites,   \* bound: runs and line feeds received
  MaxEdits,    \* bound: edits of the cursor's line, and moves of the cursor
  MaxResizes   \* bound: changes of the size

ASSUME ReflowAssumption ==
  /\ Sizes \subseteq [cols : Nat \ {0, 1}, rows : Nat \ {0}]
  /\ First \in Sizes
  /\ Scrollback \in Nat \ {0}
  /\ Words \subseteq Seq({0, 1, 2})
  /\ MaxWrites \in Nat /\ MaxEdits \in Nat /\ MaxResizes \in Nat

VARIABLES
  cols, rows,  \* Terminal.cols, Terminal.rows
  bf,          \* the buffer: lines, start (of the circular list), ybase, x, y
  count,       \* characters received
  thrown,      \* a resize has ended with an exception: not followed further
  writes, edits, resizes

vars == <<cols, rows, bf, count, thrown, writes, edits, resizes>>

MaxLength(r) == r + Scrollback
At(nb, i) == nb.lines[i + 1]
row == bf.ybase + bf.y

-----------------------------------------------------------------------------
(***************************************************************************)
(* BufferLine.                                                             *)
(***************************************************************************)
Null == [c |-> 0, w |-> 1, m |-> FALSE]
Char(k, w) == [c |-> k, w |-> w, m |-> FALSE]
Accented(w) == [c |-> 0, w |-> w, m |-> TRUE]
HasContent(cell) == cell.c # 0 \/ cell.m

Blank(n, wrapped) ==
  [cells |-> [i \in 0..(n - 1) |-> Null], comb |-> <<>>, wrapped |-> wrapped]

\* Past the end of a line's array a cell reads as zeros.
CellAt(l, i) == IF i \in DOMAIN l.cells THEN l.cells[i] ELSE Char(0, 0)

\* What a cell shows: nothing is 0.
Shown(l, i) == IF l.cells[i].m THEN l.comb[i] ELSE l.cells[i].c

TrimmedLength(l) ==
  LET full == {i \in DOMAIN l.cells : HasContent(l.cells[i])}
  IN  IF full = {} THEN 0 ELSE Max(full) + l.cells[Max(full)].w

Put(f, k, v) == [i \in DOMAIN f \cup {k} |-> IF i = k THEN v ELSE f[i]]

\* setCell: the entry of a combined character that was there is left behind.
SetCell(l, i, cell, text) ==
  IF i \notin DOMAIN l.cells THEN l
  ELSE [l EXCEPT !.cells[i] = cell,
                 !.comb = IF cell.m THEN Put(l.comb, i, text) ELSE l.comb]

AddCodepoint(l, i, k) ==
  IF i \notin DOMAIN l.cells \/ l.cells[i].m THEN l
  ELSE IF l.cells[i].c # 0
       THEN SetCell(l, i, Accented(l.cells[i].w), l.cells[i].c)
       ELSE SetCell(l, i, Char(k, 1), k)

\* insertCells and deleteCells move cells with the texts they carry.
Shift(l, from(_), filled) ==
  LET moved == DOMAIN l.cells \ filled
  IN  [l EXCEPT
         !.cells = [i \in DOMAIN l.cells |-> IF i \in filled THEN Null
                                             ELSE l.cells[from(i)]],
         !.comb = [i \in DOMAIN l.comb \cup {j \in moved : l.cells[from(j)].m} |->
                     IF i \in moved /\ l.cells[from(i)].m THEN l.comb[from(i)]
                     ELSE l.comb[i]]]
InsertCells(l, p, n) ==
  LET pos == p % cols
  IN  Shift(l, LAMBDA i : IF i < pos THEN i ELSE i - n,
            pos..Min({pos + n, cols} ) - 1)
DeleteCells(l, p, n) ==
  LET pos == p % cols
  IN  Shift(l, LAMBDA i : IF i < pos THEN i ELSE i + n,
            Max({pos, cols - n})..(cols - 1))
ReplaceCells(l, from, to) ==
  [l EXCEPT !.cells = [i \in DOMAIN l.cells |->
                         IF i >= from /\ i < to THEN Null ELSE l.cells[i]]]

\* Mutant: the texts of the last column kept go too.
ResizeLineOneTooMany(l, c) ==
  LET old == Cardinality(DOMAIN l.cells)
  IN  [l EXCEPT !.cells = [i \in 0..(c - 1) |-> IF i < old THEN l.cells[i] ELSE Null],
                !.comb = IF c < old THEN [i \in {j \in DOMAIN l.comb : j < c - 1} |-> l.comb[i]]
                         ELSE l.comb]
ResizeLine(l, c) ==
  LET old == Cardinality(DOMAIN l.cells)
  IN  [l EXCEPT !.cells = [i \in 0..(c - 1) |-> IF i < old THEN l.cells[i] ELSE Null],
                !.comb = IF c < old THEN [i \in {j \in DOMAIN l.comb : j < c} |-> l.comb[i]]
                         ELSE l.comb]

(***************************************************************************)
(* copyCellsFrom: n cells, and every text of the source from srcCol on,    *)
(* those past the n cells too.  The texts are taken one after the other:   *)
(* within one line and to the right, a text moved onto the key of another  *)
(* is taken for it when that one's turn comes.                             *)
(***************************************************************************)
CopyCells(dst, src, srcCol, dstCol, n, same) ==
  LET by     == dstCol - srcCol
      keys   == {k \in DOMAIN src.comb : k >= srcCol}
      first(k) == IF same /\ by > 0
                  THEN Min({j \in keys : /\ j <= k /\ (k - j) % by = 0
                                         /\ \A i \in j..k :
                                              (k - i) % by = 0 => i \in keys})
                  ELSE k
  IN  [dst EXCEPT
         !.cells = [i \in DOMAIN dst.cells |->
                      IF i \in dstCol..(dstCol + n - 1)
                      THEN CellAt(src, i - by) ELSE dst.cells[i]],
         !.comb = [i \in DOMAIN dst.comb \cup {k + by : k \in keys} |->
                     IF i - by \in keys THEN src.comb[first(i - by)]
                     ELSE dst.comb[i]]]

-----------------------------------------------------------------------------
(***************************************************************************)
(* Terminal.scroll and InputHandler.print.  A row that is wrapped into is  *)
(* marked without counting the rows of the history (print), except when    *)
(* the screen scrolls.                                                     *)
(***************************************************************************)
Scrolled(nb, wrapped) ==
  IF Len(nb.lines) = MaxLength(rows)
  THEN [nb EXCEPT !.lines = Append(Tail(nb.lines), Blank(cols, wrapped)),
                  !.start = (nb.start + 1) % MaxLength(rows)]
  ELSE [nb EXCEPT !.lines = Append(nb.lines, Blank(cols, wrapped)),
                  !.ybase = nb.ybase + 1]

WrappedTo(nb) ==
  LET at0 == [nb EXCEPT !.x = 0]
  IN  IF nb.y + 1 > rows - 1 THEN Scrolled(at0, TRUE)
      ELSE [at0 EXCEPT !.y = nb.y + 1, !.lines[nb.y + 2].wrapped = TRUE]

Combined(nb, k) ==
  LET r  == nb.ybase + nb.y + 1
      at == IF nb.lines[r].cells[nb.x - 1].w = 0 THEN nb.x - 2 ELSE nb.x - 1
  IN  [nb EXCEPT !.lines[r] = AddCodepoint(nb.lines[r], at, k)]

\* Insert mode: a wide character pushed onto the last column is removed.
Inserted(l, x, w) ==
  LET i == InsertCells(l, x, w)
  IN  IF i.cells[cols - 1].w = 2 THEN SetCell(i, cols - 1, Null, 0) ELSE i

Placed(nb, k, w, insert) ==
  LET r == nb.ybase + nb.y + 1
      l == IF insert THEN Inserted(nb.lines[r], nb.x, w) ELSE nb.lines[r]
      c == SetCell(l, nb.x, Char(k, w), 0)
  IN  [nb EXCEPT !.lines[r] = IF w = 2 THEN SetCell(c, nb.x + 1, Char(0, 0), 0) ELSE c,
                 !.x = nb.x + Max({w, 1})]

Printed(nb, k, w, insert) ==
  IF w = 0 /\ nb.x > 0 THEN Combined(nb, k)
  ELSE IF nb.x + w - 1 >= cols THEN Placed(WrappedTo(nb), k, w, insert)
       ELSE Placed(nb, k, w, insert)

PrintedFrom(nb, k, word, insert) ==
  LET after[i \in 0..Len(word)] ==
        IF i = 0 THEN nb ELSE Printed(after[i - 1], k + i - 1, word[i], insert)
  IN  after[Len(word)]

Write == ~thrown /\ writes < MaxWrites /\ writes' = writes + 1
Edit == ~thrown /\ edits < MaxEdits /\ edits' = edits + 1

PrintText(word) ==
  /\ Write
  /\ bf' = PrintedFrom(bf, count + 1, word, FALSE)
  /\ count' = count + Len(word)
  /\ UNCHANGED <<cols, rows, thrown, edits, resizes>>
PrintInserting(word) ==
  /\ Edit
  /\ bf' = PrintedFrom(bf, count + 1, word, TRUE)
  /\ count' = count + Len(word)
  /\ UNCHANGED <<cols, rows, thrown, writes, resizes>>

LineFeed ==
  /\ Write
  /\ LET at == [bf EXCEPT !.x = IF bf.x >= cols THEN bf.x - 1 ELSE bf.x]
     IN  bf' = IF bf.y + 1 > rows - 1 THEN Scrolled(at, FALSE)
               ELSE [at EXCEPT !.y = bf.y + 1]
  /\ UNCHANGED <<cols, rows, count, thrown, edits, resizes>>

CarriageReturn ==
  /\ ~thrown /\ bf.x # 0
  /\ bf' = [bf EXCEPT !.x = 0]
  /\ UNCHANGED <<cols, rows, count, thrown, writes, edits, resizes>>

EditsLine(l) ==
  /\ Edit
  /\ bf' = [bf EXCEPT !.lines[row + 1] = l]
  /\ UNCHANGED <<cols, rows, count, thrown, writes, resizes>>

InsertChars(n) == EditsLine(InsertCells(At(bf, row), bf.x, n))
DeleteChars(n) == EditsLine(DeleteCells(At(bf, row), bf.x, n))
EraseChars(n) == EditsLine(ReplaceCells(At(bf, row), bf.x, bf.x + n))
EraseInLine(k) ==
  EditsLine(ReplaceCells(At(bf, row), IF k = 0 THEN bf.x ELSE 0,
                         IF k = 1 THEN bf.x + 1 ELSE cols))
\* With nothing before the cursor a null cell is repeated.
RepeatPrecedingCharacter ==
  LET l == At(bf, row)
  IN  EditsLine(IF bf.x = 0 THEN SetCell(l, 0, Null, 0)
                ELSE SetCell(l, bf.x, l.cells[bf.x - 1],
                             IF l.cells[bf.x - 1].m THEN l.comb[bf.x - 1] ELSE 0))

CursorPosition(r, c) ==
  /\ Edit
  /\ bf' = [bf EXCEPT !.y = Min({r, rows}) - 1, !.x = Min({c, cols}) - 1]
  /\ UNCHANGED <<cols, rows, count, thrown, writes, resizes>>

-----------------------------------------------------------------------------
(***************************************************************************)
(* The rows of a resize (Buffer.resize): as in module Screen, here with    *)
(* what becomes of the lines.  The lines all have the columns c.           *)
(***************************************************************************)
Blanks(n, c) == [i \in 1..n |-> Blank(c, FALSE)]
AllOf(ls, c) == [i \in DOMAIN ls |-> ResizeLine(ls[i], c)]

Grown(nb, c, r) ==
  LET pulled == IF nb.y + 1 >= rows THEN Min({nb.ybase, r - rows}) ELSE 0
  IN  [nb EXCEPT !.lines = nb.lines \o Blanks(r - rows - pulled, c),
                 !.ybase = nb.ybase - pulled,
                 !.y = nb.y + pulled]

\* Mutant: lines are dropped from the end wherever the cursor is.
ShrunkFromTheEnd(nb, r) ==
  LET popped == rows - r
      trim   == Max({Len(nb.lines) - popped - MaxLength(r), 0})
  IN  [nb EXCEPT !.lines = SubSeq(nb.lines, trim + 1, Len(nb.lines) - popped),
                 !.ybase = Max({nb.ybase - trim, 0}),
                 !.y = Min({nb.y, r - 1})]

Shrunk(nb, r) ==
  LET popped == Min({rows - r, rows - 1 - nb.y})
      pushed == rows - r - popped
      trim   == Max({Len(nb.lines) - popped - MaxLength(r), 0})
  IN  [nb EXCEPT !.lines = SubSeq(nb.lines, trim + 1, Len(nb.lines) - popped),
                 !.ybase = Max({nb.ybase + pushed - trim, 0}),
                 !.y = Min({nb.y, r - 1})]

\* A list that gets another capacity is copied to the start of a new array.
ResizedRows(nb, c, r) ==
  LET wide == [nb EXCEPT !.lines = IF c > cols THEN AllOf(nb.lines, c) ELSE nb.lines,
                         !.start = IF r = rows THEN nb.start ELSE 0,
                         !.x = Min({nb.x, c - 1})]
  IN  IF r > rows THEN Grown(wide, Max({c, cols}), r) ELSE Shrunk(wide, r)

-----------------------------------------------------------------------------
(***************************************************************************)
(* BufferReflow.  A group is a line with the wrapped ones after it.        *)
(***************************************************************************)
\* getWrappedLineTrimmedLength
RowLength(g, i, c) ==
  IF i = Len(g) THEN TrimmedLength(g[i])
  ELSE IF /\ ~HasContent(g[i].cells[c - 1]) /\ g[i].cells[c - 1].w = 1
          /\ g[i + 1].cells[0].w = 2
       THEN c - 1 ELSE c

\* The first row of the group that row i (from 0) is in, and the last one.
FirstRow(ls, i) == Max({j \in 0..i : j = 0 \/ ~ls[j + 1].wrapped})
LastRow(ls, i) == Min({j \in i..(Len(ls) - 1) : j = Len(ls) - 1 \/ ~ls[j + 2].wrapped})

Copied(g, d, dstCol, s, srcCol, n) ==
  [g EXCEPT ![d] = CopyCells(g[d], g[s], srcCol, dstCol, n, d = s)]

(***************************************************************************)
(* More columns: the cells move up, a wide character never into the last   *)
(* column alone.  d and s are the rows copied to and from.                 *)
(***************************************************************************)
Bumped(g, d, dstCol, c) ==
  IF dstCol = 0 /\ d > 1 /\ g[d - 1].cells[c - 1].w = 2
  THEN [g    |-> [Copied(g, d, 0, d - 1, c - 1, 1)
                    EXCEPT ![d - 1] = SetCell(@, c - 1, Null, 0)],
        col  |-> 1]
  ELSE [g |-> g, col |-> dstCol]

\* A round of the loop, which ends when all rows have been copied from.
Unwrap(l, c) ==
  LET len  == RowLength(l.g, l.s, cols)
      n    == Min({len - l.srcCol, c - l.dstCol})
      full == l.dstCol + n = c
      done == l.srcCol + n = len
      d    == IF full THEN l.d + 1 ELSE l.d
      b    == Bumped(Copied(l.g, l.d, l.dstCol, l.s, l.srcCol, n),
                     d, IF full THEN 0 ELSE l.dstCol + n, c)
  IN  IF l.s > Len(l.g) THEN l
      ELSE [g |-> b.g, d |-> d, dstCol |-> b.col,
            s |-> IF done THEN l.s + 1 ELSE l.s,
            srcCol |-> IF done THEN 0 ELSE l.srcCol + n]

\* Each round fills a row or has copied one.
Unwrapped(g, c) ==
  LET start == [g |-> g, d |-> 1, dstCol |-> RowLength(g, 1, cols), s |-> 2, srcCol |-> 0]
      after[k \in 0..(2 * Len(g))] == IF k = 0 THEN start ELSE Unwrap(after[k - 1], c)
      ended(l) == [g |-> [l.g EXCEPT ![l.d] = ReplaceCells(@, l.dstCol, c)], d |-> l.d]
  IN  ended(after[2 * Len(g)])

\* Mutant: the last row written to is removed too.
LargerGroupOneTooMany(g, c) ==
  LET u    == Unwrapped(g, c)
      used == {i \in 1..Len(g) : i = 1 \/ (i < u.d /\ TrimmedLength(u.g[i]) # 0)}
  IN  SubSeq(u.g, 1, Max(used))

\* reflowLargerGetLinesToRemove, for one group.
LargerGroup(g, c) ==
  LET used(u) == {i \in 1..Len(g) : i = 1 \/ (i <= u.d /\ TrimmedLength(u.g[i]) # 0)}
      kept(u) == SubSeq(u.g, 1, Max(used(u)))
  IN  kept(Unwrapped(g, c))

\* The group that begins with row i; the cursor's is left as it is.
LargerAt(ls, i, cursor, c) ==
  LET last == LastRow(ls, i)
      g    == SubSeq(ls, i + 1, last + 1)
  IN  IF last = i \/ cursor \in i..last THEN g ELSE LargerGroup(g, c)

LargerLines(ls, cursor, c) ==
  Seqs!FlattenSeq([i \in DOMAIN ls |-> IF i > 1 /\ ls[i].wrapped THEN <<>>
                                       ELSE LargerAt(ls, i - 1, cursor, c)])

(***************************************************************************)
(* _reflowLarger and _reflowLargerAdjustViewport: each line taken away     *)
(* takes a row of the history, or else moves the cursor up.                *)
(***************************************************************************)
ReflowedLarger(nb, c, r) ==
  LET kept    == LargerLines(nb.lines, nb.ybase + nb.y, c)
      removed == Len(nb.lines) - Len(kept)
      over    == Max({0, removed - nb.ybase})
  IN  [nb EXCEPT !.lines = kept \o Blanks(Min({over, Max({0, r - Len(kept)})}), c),
                 !.ybase = Max({0, nb.ybase - removed}),
                 !.y = Max({0, nb.y - over})]

(***************************************************************************)
(* Fewer columns: the lengths of the new rows (reflowSmallerGetNewLine-    *)
(* Lengths), then the copies from the last cell to the first.              *)
(***************************************************************************)
Needed(g) ==
  LET upTo[i \in 0..Len(g)] == IF i = 0 THEN 0 ELSE upTo[i - 1] + RowLength(g, i, cols)
  IN  upTo[Len(g)]

\* One more row, when left cells are not in a row yet.
NextLength(l, g, c) ==
  LET len  == RowLength(g, l.line, cols)
      over == l.col + c > len
      line == IF over THEN l.line + 1 ELSE l.line
      col  == IF over THEN l.col + c - len ELSE l.col + c
      wide == CellAt(g[line], col - 1).w = 2
      n    == IF wide THEN c - 1 ELSE c
  IN  IF l.left = 0 THEN l
      ELSE IF l.left < c THEN [l EXCEPT !.lens = Append(l.lens, l.left), !.left = 0]
      ELSE [lens |-> Append(l.lens, n), left |-> l.left - n,
            line |-> line, col |-> IF wide THEN col - 1 ELSE col]

NewLengths(g, c) ==
  LET start == [lens |-> <<>>, left |-> Needed(g), line |-> 1, col |-> 0]
      after[k \in 0..Needed(g)] == IF k = 0 THEN start ELSE NextLength(after[k - 1], g, c)
  IN  after[Needed(g)].lens

\* A round of the loop, which ends when all rows have been copied from.
Wrap(l, lens) ==
  LET n == Min({l.srcCol, l.dstCol})
      g == Copied(l.g, l.d, l.dstCol - n, l.s, l.srcCol - n, n)
  IN  IF l.s = 0 THEN l
      ELSE [g |-> g,
            d |-> IF l.dstCol = n THEN l.d - 1 ELSE l.d,
            dstCol |-> IF l.dstCol # n THEN l.dstCol - n
                       ELSE IF l.d > 1 THEN lens[l.d - 1] ELSE 0,
            s |-> IF l.srcCol = n THEN l.s - 1 ELSE l.s,
            srcCol |-> IF l.srcCol # n THEN l.srcCol - n
                       ELSE RowLength(g, Max({l.s - 1, 1}), cols)]

\* g has the new rows already; the last of those it had is row s.
Wrapped(g, s, lens) ==
  LET start == [g |-> g, d |-> Len(lens), dstCol |-> lens[Len(lens)],
                s |-> s, srcCol |-> TrimmedLength(g[s])]
      after[k \in 0..(Len(g) + Len(lens))] ==
        IF k = 0 THEN start ELSE Wrap(after[k - 1], lens)
  IN  after[Len(g) + Len(lens)].g

SmallerGroup(g, lens, c) ==
  LET rowsOf == g \o [i \in 1..(Len(lens) - Len(g)) |-> Blank(cols, TRUE)]
      ended(copied) == [i \in DOMAIN copied |->
                         IF lens[i] < c THEN SetCell(copied[i], lens[i], Null, 0) ELSE copied[i]]
  IN  ended(Wrapped(rowsOf, Len(g), lens))

(***************************************************************************)
(* The view after n rows of a group are to be put in: with no history the  *)
(* last rows go while the cursor can move down, the rest goes to the       *)
(* history as far as there is room.  pending counts the rows to be put in. *)
(***************************************************************************)
\* Mutant: rows go to the history whatever the room in it.
AdjustedWithoutRoom(nb, n, pending, r) ==
  [nb EXCEPT !.ybase = nb.ybase + n]

Adjusted(nb, n, pending, r) ==
  LET len     == Len(nb.lines)
      trimmed == IF nb.ybase = 0 /\ nb.y # len - 1
                 THEN Max({0, nb.y - MaxLength(r) + n})
                 ELSE Max({0, len - MaxLength(r) + n})
      todo    == Max({0, n - trimmed})
      popped  == IF nb.ybase = 0 THEN Min({todo, Max({0, r - 1 - nb.y})}) ELSE 0
      room    == Min({MaxLength(r), len - popped + pending}) - r
      rest    == todo - popped
  IN  [nb EXCEPT !.lines = SubSeq(nb.lines, 1, len - popped),
                 !.y = nb.y + popped,
                 !.ybase = IF nb.ybase = 0
                           THEN IF rest = 0 THEN 0 ELSE Max({1, Min({rest, room})})
                           ELSE Max({nb.ybase, Min({nb.ybase + rest, room})})]

(***************************************************************************)
(* _reflowSmaller: the groups from the last to the first, but for the one  *)
(* the cursor is in by then.  ins are the rows to be put in, with the      *)
(* position they go to.                                                    *)
(***************************************************************************)
Smaller(l, c, r) ==
  LET nb     == l.bf
      first  == FirstRow(nb.lines, l.last)
      g      == SubSeq(nb.lines, first + 1, l.last + 1)
      lens   == NewLengths(g, c)
      n      == Len(lens) - Len(g)
      new    == SmallerGroup(g, lens, c)
      moved  == [nb EXCEPT !.lines = SubSeq(nb.lines, 1, first) \o SubSeq(new, 1, Len(g))
                                     \o SubSeq(nb.lines, l.last + 2, Len(nb.lines))]
      added  == <<[at |-> l.last + 1, new |-> SubSeq(new, Len(g) + 1, Len(new))]>>
      after  == Adjusted(moved, n, l.pending + n, r)
  IN  IF l.last < 0 \/ l.thrown THEN l
      ELSE IF \/ ~At(nb, l.last).wrapped /\ TrimmedLength(At(nb, l.last)) <= c
              \/ nb.ybase + nb.y \in first..l.last
           THEN [l EXCEPT !.last = first - 1]
      ELSE IF lens = <<>> THEN [l EXCEPT !.thrown = TRUE]
      ELSE [bf |-> after, last |-> Min({first, Len(after.lines)}) - 1,
            ins |-> IF n = 0 THEN l.ins ELSE added \o l.ins,
            pending |-> l.pending + n, thrown |-> FALSE]

SmallerLines(nb, c, r) ==
  LET start == [bf |-> nb, last |-> Len(nb.lines) - 1, ins |-> <<>>,
                pending |-> 0, thrown |-> FALSE]
      after[k \in 0..Len(nb.lines)] == IF k = 0 THEN start ELSE Smaller(after[k - 1], c, r)
  IN  after[Len(nb.lines)]

(***************************************************************************)
(* The rows are put in from the last to the first until the list is full.  *)
(* The rows of a group that do not all fit are written on below index 0:   *)
(* in a list that does not start at its array's first slot, that is where  *)
(* the last rows are.                                                      *)
(***************************************************************************)
AllInserted(ls, ins) ==
  LET tagged(e) == [i \in DOMAIN e.new |-> [line |-> e.new[i], of |-> e.at + 1]]
      own(j)    == IF j < Len(ls) THEN <<[line |-> ls[j + 1], of |-> 0]>> ELSE <<>>
      put(j)    == Seqs!FlattenSeq([i \in DOMAIN ins |->
                     IF Min({ins[i].at, Len(ls)}) = j THEN tagged(ins[i]) ELSE <<>>])
  IN  Seqs!FlattenSeq([j \in 1..(Len(ls) + 1) |-> put(j - 1) \o own(j - 1)])

Relaid(nb, ins, r) ==
  LET all  == AllInserted(nb.lines, ins)
      cut  == Max({0, Len(all) - MaxLength(r)})
      kept == SubSeq(all, cut + 1, Len(all))
      over == {k \in 1..cut : /\ nb.start - k >= 0
                              /\ \A j \in (cut + 1 - k)..(cut + 1) :
                                   all[j].of # 0 /\ all[j].of = all[cut + 1].of}
  IN  [nb EXCEPT !.lines =
         [i \in DOMAIN kept |-> IF Len(kept) + 1 - i \in over
                                THEN all[cut + 1 - (Len(kept) + 1 - i)].line
                                ELSE kept[i].line]]

ReflowedSmaller(nb, c, r) ==
  LET laid(l) == [Relaid(l.bf, l.ins, r) EXCEPT !.lines = AllOf(@, c)]
      of(l)   == [bf |-> laid(l), thrown |-> l.thrown]
  IN  of(SmallerLines(nb, c, r))

-----------------------------------------------------------------------------
(***************************************************************************)
(* Terminal.resize.  A reflow that throws leaves the sizes as they were    *)
(* and the rows half changed.                                              *)
(***************************************************************************)
Resize(c, r) ==
  /\ ~thrown /\ resizes < MaxResizes
  /\ <<c, r>> # <<cols, rows>>
  /\ LET sized == ResizedRows(bf, c, r)
         less  == ReflowedSmaller(sized, c, r)
     IN  IF c < cols /\ less.thrown
         THEN /\ thrown' = TRUE
              /\ UNCHANGED <<cols, rows, bf>>
         ELSE /\ bf' = IF c > cols THEN ReflowedLarger(sized, c, r)
                       ELSE IF c < cols THEN less.bf ELSE sized
              /\ cols' = c /\ rows' = r
              /\ UNCHANGED thrown
  /\ resizes' = resizes + 1
  /\ UNCHANGED <<count, writes, edits>>

Init ==
  /\ cols = First.cols /\ rows = First.rows
  /\ bf = [lines |-> Blanks(rows, cols), start |-> 0, ybase |-> 0, x |-> 0, y |-> 0]
  /\ count = 0 /\ thrown = FALSE
  /\ writes = 0 /\ edits = 0 /\ resizes = 0

Next ==
  \/ \E word \in Words : PrintText(word) \/ PrintInserting(word)
  \/ LineFeed \/ CarriageReturn
  \/ \E n \in 1..2 : InsertChars(n) \/ DeleteChars(n) \/ EraseChars(n)
  \/ \E k \in 0..2 : EraseInLine(k)
  \/ RepeatPrecedingCharacter
  \/ \E c \in 1..cols, r \in 1..rows : CursorPosition(r, c)
  \/ \E s \in Sizes : Resize(s.cols, s.rows)

Spec == Init /\ [][Next]_vars

-----------------------------------------------------------------------------
(***************************************************************************)
(* Every line has the columns of the window, and the rows of the screen    *)
(* are the last ones of the list, within its capacity.                     *)
(***************************************************************************)
TypeOK ==
  /\ \A i \in DOMAIN bf.lines : DOMAIN bf.lines[i].cells = 0..(cols - 1)
  /\ Len(bf.lines) = bf.ybase + rows /\ bf.ybase \in 0..Scrollback
  /\ bf.x \in 0..cols /\ bf.y \in 0..(rows - 1)
  /\ bf.start \in 0..(MaxLength(rows) - 1)

(***************************************************************************)
(* A cell that says that its character has an accent finds its text: what  *)
(* asks for the character of any cell (rendering, selecting, searching)    *)
(* fails otherwise.                                                        *)
(***************************************************************************)
AccentsHaveText ==
  \A i \in DOMAIN bf.lines : \A j \in DOMAIN bf.lines[i].cells :
    bf.lines[i].cells[j].m => j \in DOMAIN bf.lines[i].comb

(***************************************************************************)
(* With nothing below the cursor, the text above its line goes through a   *)
(* change of size unchanged: no character is lost, doubled or put          *)
(* elsewhere, no line is broken or joined, but for what no longer fits in  *)
(* the history.  Two exceptions are the code's own: of letters with        *)
(* accents that follow each other one may be taken for the other when the  *)
(* lines get shorter, and a full list that has turned, and gets more rows  *)
(* than fit, has some of them written over its last rows.  A change fails  *)
(* altogether only when the first row kept is the emptied rest of a        *)
(* wrapped line.                                                           *)
(***************************************************************************)
LineStart == [t |-> 0, m |-> FALSE]
RowText(l) ==
  (IF l.wrapped THEN <<>> ELSE <<LineStart>>)
    \o SelectSeq([j \in 1..Cardinality(DOMAIN l.cells) |->
                    [t |-> Shown(l, j - 1), m |-> l.cells[j - 1].m]],
                 LAMBDA e : e.t # 0)
TextOf(ls) == Seqs!FlattenSeq([i \in DOMAIN ls |-> RowText(ls[i])])

SameText(s, t) ==
  /\ Len(s) = Len(t)
  /\ \A i \in DOMAIN s : s[i] = t[i] \/ (s[i].m /\ t[i].m /\ cols' < cols)
Full == Len(bf'.lines) = MaxLength(rows') \/ Len(bf.lines) > MaxLength(rows')
Resized == resizes' # resizes /\ ~thrown'

NothingBelow ==
  \A i \in (row + 1)..(Len(bf.lines) - 1) :
    TrimmedLength(At(bf, i)) = 0 /\ ~At(bf, i).wrapped
Turned == bf.start > 0 /\ cols' < cols /\ rows' = rows /\ Full

Above(nb, r) == TextOf(SubSeq(nb.lines, 1, FirstRow(nb.lines, r)))

\* A row without text, the rest of a wrapped line, that can be the first kept.
FirstIsEmptied ==
  \E i \in DOMAIN bf.lines :
    /\ RowText(bf.lines[i]) = <<>>
    /\ (i = 1 \/ Len(bf.lines) - i < MaxLength(rows))

TextAboveKept ==
  [][/\ ~thrown /\ thrown' => FirstIsEmptied
     /\ (Resized /\ NothingBelow /\ ~Turned) =>
       \E k \in 0..Len(Above(bf, row)) :
         /\ k > 0 => Full
         /\ SameText(SubSeq(Above(bf, row), k + 1, Len(Above(bf, row))),
                     Above(bf', row'))]_vars

(***************************************************************************)
(* In the same cases, the row of the cursor stays the row of the cursor    *)
(* and shows the same in the columns that are left.                        *)
(***************************************************************************)
CursorRowKept ==
  [][(Resized /\ NothingBelow /\ ~Turned) =>
       \A j \in 0..(Min({cols, cols'}) - 1) :
         Shown(At(bf, row), j) = Shown(At(bf', row'), j)]_vars

(***************************************************************************)
(* A change of size is one of module Screen, which has for the rows that a *)
(* reflow takes away or adds any number.                                   *)
(***************************************************************************)
View(which) ==
  [len |-> IF which = "normal" THEN Len(bf.lines) ELSE 0,
   max |-> IF which = "normal" THEN MaxLength(rows) ELSE rows,
   ybase |-> IF which = "normal" THEN bf.ybase ELSE 0,
   ydisp |-> IF which = "normal" THEN bf.ybase ELSE 0,
   x |-> IF which = "normal" THEN bf.x ELSE 0,
   y |-> IF which = "normal" THEN bf.y ELSE 0,
   top |-> 0, bottom |-> rows - 1, savedY |-> 0]

Rows == INSTANCE Screen
  WITH active <- "normal", buf <- [w \in {"normal", "alt"} |-> View(w)],
       userScrolling <- FALSE, failed <- FALSE, followed <- {}, changes <- resizes,
       Params <- {1}, Margins <- {}, MaxX <- 0, MaxAbove <- 0,
       MaxChanges <- MaxResizes

ResizesAsScreen == [][Resized => Rows!Resize]_vars
=============================================================================
