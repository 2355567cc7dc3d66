----------------------------- MODULE ReflowProofs -----------------------------
(***************************************************************************)
(* That no operation on the rows of the normal buffer (module Reflow)      *)
(* takes a cell along without the text of its accent, that the rows of the *)
(* screen are always the last lines of the list, and that a resize is one  *)
(* of module Screen: for every window, history, text, edit and sequence of *)
(* resizes.                                                                *)
(*                                                                         *)
(* Lines(n) are the lines of n cells in which every accent has its text.   *)
(* Each operation of BufferLine goes from such lines to such lines, and so *)
(* does, round by round, each loop that makes rows of rows: printing, the  *)
(* copies of both reflows, the rows put in.  A loop is a function of its   *)
(* rounds, and a set that the first value is in and no round leaves        *)
(* (RoundsExist, RoundsStay) contains them all.                            *)
(*                                                                         *)
(* Three bounds are needed on the way.  The cursor is above the end of the *)
(* window, or Shrunk would drop fewer than no lines.  The rows that are    *)
(* measured for a group of fewer columns end in one of the group's         *)
(* (Measuring): their cells are counted from its sums.  The last row still *)
(* to be wrapped is in the list after rows have been dropped (Shrinking).  *)
(*                                                                         *)
(* For the other two theorems the lines are counted too: a list holds the  *)
(* screen (Whole) when its length, first row and cursor fit together.  A   *)
(* reflow to fewer columns counts the rows it puts in group by group, with *)
(* what it has counted before in its view; after p rows the view is what p *)
(* rows at once would make it (Gone, FirstThen, CountsAdd), which is how   *)
(* module Screen counts them, and the list gets just those rows            *)
(* (AllInsertedLength).  That no group loses rows is because the cells of  *)
(* a row before the last are at most one less than its columns             *)
(* (RowLengthFull, LengthsMany).                                           *)
(***************************************************************************)
EXTENDS MCReflow, SequenceTheorems, FiniteSetTheorems, TLAPS

-----------------------------------------------------------------------------
(* Least and greatest numbers, and loops.                                  *)
LEMMA SmallestIn == ASSUME NEW T \in SUBSET Nat, T # {} PROVE \E x \in T : \A y \in T : x <= y
<1> DEFINE R == OpToRel(<, Nat)
<1>1. IsWellFoundedOn(R, Nat)
  BY NatLessThanWellFounded
<1>2. PICK x \in T : \A y \in T : <<y, x>> \notin R
  <2> HIDE DEF R
  <2> QED
    BY <1>1, WFMin
<1>3. \A y \in T : ~(y < x)
  BY <1>2 DEF OpToRel
<1> QED
  BY <1>3

(* The least of two numbers is one of them.                                *)
LEMMA MinOfTwo == ASSUME NEW a \in Int, NEW b \in Int PROVE Min({a, b}) = IF a <= b THEN a ELSE b
<1>1. PICK m : m = CHOOSE x \in {a, b} : \A y \in {a, b} : x <= y
  OBVIOUS
<1>2. m \in {a, b} /\ \A y \in {a, b} : m <= y
  BY <1>1
<1> QED
  BY <1>1, <1>2 DEF Min

LEMMA MaxOfTwo == ASSUME NEW a \in Int, NEW b \in Int PROVE Max({a, b}) = IF a <= b THEN b ELSE a
<1>1. PICK m : m = CHOOSE x \in {a, b} : \A y \in {a, b} : x >= y
  OBVIOUS
<1>2. m \in {a, b} /\ \A y \in {a, b} : m >= y
  BY <1>1
<1> QED
  BY <1>1, <1>2 DEF Max

(* Of a set of whole numbers between two bounds.                           *)
LEMMA MinIn ==
  ASSUME NEW lo \in Int, NEW hi \in Int, NEW S \in SUBSET (lo..hi), S # {}
  PROVE  Min(S) \in S /\ \A y \in S : Min(S) <= y
<1> DEFINE T == {x - lo : x \in S}
<1>1. \A x \in S : x \in Int /\ x - lo \in Nat
  OBVIOUS
<1>2. T \in SUBSET Nat /\ T # {}
  BY <1>1
<1>3. PICK t \in T : \A u \in T : t <= u
  <2> HIDE DEF T
  <2> QED
    BY <1>2, SmallestIn
<1>4. PICK x \in S : \A y \in S : x - lo <= y - lo
  BY <1>3
<1>5. \A y \in S : x <= y
  BY <1>1, <1>4
<1> HIDE DEF T
<1>6. PICK m : m = CHOOSE z \in S : \A y \in S : z <= y
  OBVIOUS
<1>7. m \in S /\ \A y \in S : m <= y
  BY <1>5, <1>6
<1> QED
  BY <1>6, <1>7 DEF Min

LEMMA MaxIn ==
  ASSUME NEW lo \in Int, NEW hi \in Int, NEW S \in SUBSET (lo..hi), S # {}
  PROVE  Max(S) \in S /\ \A y \in S : Max(S) >= y
<1> DEFINE T == {hi - x : x \in S}
<1>1. \A x \in S : x \in Int /\ hi - x \in Nat
  OBVIOUS
<1>2. T \in SUBSET Nat /\ T # {}
  BY <1>1
<1>3. PICK t \in T : \A u \in T : t <= u
  <2> HIDE DEF T
  <2> QED
    BY <1>2, SmallestIn
<1>4. PICK x \in S : \A y \in S : hi - x <= hi - y
  BY <1>3
<1>5. \A y \in S : x >= y
  BY <1>1, <1>4
<1> HIDE DEF T
<1>6. PICK m : m = CHOOSE z \in S : \A y \in S : z >= y
  OBVIOUS
<1>7. m \in S /\ \A y \in S : m >= y
  BY <1>5, <1>6
<1> QED
  BY <1>6, <1>7 DEF Max

(* A loop of n rounds that starts in S, of which each round stays in S.    *)
Rounds(f, a, step, n) == f = [k \in 0..n |-> IF k = 0 THEN a ELSE step[k][f[k - 1]]]
(* A loop that starts in S stays in S when each round does.                *)
LEMMA RoundsStay ==
  ASSUME NEW n \in Nat, NEW S, NEW f, f[0] \in S, \A k \in 1..n : f[k - 1] \in S => f[k] \in S
  PROVE  \A k \in 0..n : f[k] \in S
<1> DEFINE B == {k \in 0..n : f[k] \notin S}
<1>1. SUFFICES ASSUME B # {} PROVE FALSE
  OBVIOUS
<1>2. PICK m \in B : \A y \in B : m <= y
  <2>1. B \in SUBSET Nat
    OBVIOUS
  <2> HIDE DEF B
  <2> QED
    BY <1>1, <2>1, SmallestIn
<1>3. m \in 0..n /\ f[m] \notin S
  OBVIOUS
<1>4. m # 0
  BY <1>3
<1>5. m \in 1..n /\ m - 1 \in 0..n /\ m - 1 < m
  BY <1>3, <1>4
<1>6. f[m - 1] \in S
  BY <1>2, <1>5
<1> QED
  BY <1>3, <1>5, <1>6

(* There is a function of the rounds of a loop over S.                     *)
LEMMA RoundsExist ==
  ASSUME NEW n \in Nat, NEW S, NEW a \in S, NEW step \in [1..n -> [S -> S]]
  PROVE  \E f : Rounds(f, a, step, n) /\ \A k \in 0..n : f[k] \in S
<1> DEFINE B == {m \in 0..n : ~(\E f : Rounds(f, a, step, m) /\ \A k \in 0..m : f[k] \in S)}
<1>1. SUFFICES ASSUME B # {} PROVE FALSE
  <2>1. n \in 0..n
    OBVIOUS
  <2>2. B = {}
    <3> HIDE DEF B
    <3> QED
      BY <1>1
  <2> QED
    BY <2>1, <2>2
<1>2. PICK m \in B : \A y \in B : m <= y
  <2>1. B \in SUBSET Nat
    OBVIOUS
  <2> HIDE DEF B
  <2> QED
    BY <1>1, <2>1, SmallestIn
<1>3. m \in 0..n /\ ~(\E f : Rounds(f, a, step, m) /\ \A k \in 0..m : f[k] \in S)
  OBVIOUS
<1>4. m # 0
  <2> SUFFICES ASSUME m = 0 PROVE FALSE
    OBVIOUS
  <2> DEFINE f == [k \in 0..0 |-> a]
  <2>1. \A k \in 0..0 : k = 0
    OBVIOUS
  <2>2. \A k \in 0..0 : a = IF k = 0 THEN a ELSE step[k][f[k - 1]]
    BY <2>1
  <2>3. f = [k \in 0..0 |-> IF k = 0 THEN a ELSE step[k][f[k - 1]]] /\ \A k \in 0..0 : f[k] \in S
    BY <2>2
  <2> HIDE DEF f
  <2>4. Rounds(f, a, step, 0)
    BY <2>3 DEF Rounds
  <2> QED
    BY <1>3, <2>3, <2>4
<1>5. m - 1 \in 0..n /\ m - 1 < m /\ m \in 1..n
  BY <1>3, <1>4
<1>6. PICK x : x = m - 1
  OBVIOUS
<1>7. x \in Nat /\ x \notin B /\ x \in 0..n
  BY <1>2, <1>5, <1>6
<1>8. PICK f : Rounds(f, a, step, x) /\ \A k \in 0..x : f[k] \in S
  BY <1>7
<1>9. f = [k \in 0..x |-> IF k = 0 THEN a ELSE step[k][f[k - 1]]]
  BY <1>8 DEF Rounds
<1>10. \A k \in 0..x : f[k] = IF k = 0 THEN a ELSE step[k][f[k - 1]]
  BY <1>9
<1> HIDE DEF B
<1> DEFINE h == [k \in 0..m |-> IF k = m THEN step[m][f[x]] ELSE f[k]]
<1>11. step[m][f[x]] \in S
  BY <1>5, <1>7, <1>8
<1>12. \A k \in 0..m : h[k] \in S
  BY <1>3, <1>6, <1>8, <1>11
<1>13. ASSUME NEW k \in 0..m PROVE h[k] = IF k = 0 THEN a ELSE step[k][h[k - 1]]
  <2>1. CASE k = 0
    BY <1>3, <1>4, <1>7, <1>10, <2>1
  <2>2. CASE k # 0
    <3>1. k - 1 \in 0..m /\ k - 1 # m
      BY <1>3, <2>2
    <3>2. h[k - 1] = f[k - 1]
      BY <3>1
    <3>3. CASE k = m
      BY <1>6, <2>2, <3>2, <3>3
    <3>4. CASE k # m
      <4>1. k \in 0..x
        BY <1>3, <1>6, <2>2, <3>4
      <4> QED
        BY <1>10, <2>2, <3>2, <3>4, <4>1
    <3> QED
      BY <3>3, <3>4
  <2> QED
    BY <2>1, <2>2
<1>14. h = [k \in 0..m |-> h[k]]
  OBVIOUS
<1> HIDE DEF h
<1>15. h = [k \in 0..m |-> IF k = 0 THEN a ELSE step[k][h[k - 1]]]
  BY <1>13, <1>14
<1>16. Rounds(h, a, step, m)
  BY <1>15 DEF Rounds
<1> QED
  BY <1>3, <1>12, <1>16

-----------------------------------------------------------------------------
(* Lines of n cells in which every accent has its text.                    *)
Cells == {x \in [c : Nat, w : {0, 1, 2}, m : BOOLEAN] : x.w = 2 => HasContent(x)}
Texts == UNION {[D -> Nat] : D \in SUBSET Int}
Lines(n) ==
  {l \in [cells : [0..(n - 1) -> Cells], comb : Texts, wrapped : BOOLEAN] :
     \A j \in 0..(n - 1) : l.cells[j].m => j \in DOMAIN l.comb}

(* A table of texts is a function on columns.                              *)
LEMMA TextsParts ==
  ASSUME NEW f \in Texts
  PROVE  f = [i \in DOMAIN f |-> f[i]] /\ DOMAIN f \in SUBSET Int /\ \A i \in DOMAIN f : f[i] \in Nat
<1>1. PICK D \in SUBSET Int : f \in [D -> Nat]
  BY DEF Texts
<1> QED
  BY <1>1

LEMMA TextsOf == ASSUME NEW D \in SUBSET Int, NEW f \in [D -> Nat] PROVE f \in Texts
  BY DEF Texts

LEMMA LineOf ==
  ASSUME NEW n \in Nat, NEW cells \in [0..(n - 1) -> Cells], NEW comb \in Texts, NEW wrapped \in BOOLEAN,
         \A j \in 0..(n - 1) : cells[j].m => j \in DOMAIN comb
  PROVE  [cells |-> cells, comb |-> comb, wrapped |-> wrapped] \in Lines(n)
  BY DEF Lines

(* What is known of a line.                                                *)
LEMMA LineParts ==
  ASSUME NEW n \in Nat, NEW l \in Lines(n)
  PROVE  /\ l = [cells |-> l.cells, comb |-> l.comb, wrapped |-> l.wrapped]
         /\ l.cells \in [0..(n - 1) -> Cells] /\ DOMAIN l.cells = 0..(n - 1)
         /\ \A j \in 0..(n - 1) : /\ l.cells[j] \in Cells
                                  /\ l.cells[j].m => j \in DOMAIN l.comb
         /\ l.comb \in Texts /\ l.wrapped \in BOOLEAN
  BY DEF Lines

LEMMA CellParts ==
  /\ Null \in Cells /\ Null.m = FALSE
  /\ \A k \in Nat, w \in {0, 1, 2} : Char(k, w).m = FALSE /\ (k # 0 \/ w # 2 => Char(k, w) \in Cells)
  /\ \A w \in {0, 1, 2} : Accented(w) \in Cells
  /\ \A x \in Cells : x.c \in Nat /\ x.w \in {0, 1, 2} /\ x.m \in BOOLEAN
  /\ \A x \in Cells : x.w = 2 => HasContent(x)
  BY DEF Cells, Null, Char, Accented, HasContent

LEMMA BlankLine == ASSUME NEW n \in Nat, NEW w \in BOOLEAN PROVE Blank(n, w) \in Lines(n)
<1>1. <<>> \in Texts
  <2>1. <<>> \in [{} -> Nat] /\ {} \in SUBSET Int
    OBVIOUS
  <2> QED
    BY <2>1, TextsOf
<1>2. [i \in 0..(n - 1) |-> Null] \in [0..(n - 1) -> Cells]
  BY CellParts
<1>3. \A j \in 0..(n - 1) : [i \in 0..(n - 1) |-> Null][j].m = FALSE
  BY CellParts
<1> QED
  BY <1>1, <1>2, <1>3, LineOf DEF Blank

LEMMA CellAtIs ==
  ASSUME NEW n \in Nat, NEW l \in Lines(n), NEW i \in Int
  PROVE  /\ CellAt(l, i) \in Cells
         /\ CellAt(l, i).m => i \in DOMAIN l.comb
<1>1. CASE i \in 0..(n - 1)
  BY <1>1, LineParts DEF CellAt
<1>2. CASE i \notin 0..(n - 1)
  BY <1>2, LineParts, CellParts DEF CellAt
<1> QED
  BY <1>1, <1>2

LEMMA TrimmedIs ==
  ASSUME NEW n \in Nat, NEW l \in Lines(n)
  PROVE  TrimmedLength(l) \in Nat
<1> DEFINE F == {i \in DOMAIN l.cells : HasContent(l.cells[i])}
<1>1. DOMAIN l.cells = 0..(n - 1) /\ F \in SUBSET (0..(n - 1)) /\ n - 1 \in Int /\ 0 \in Int
  BY LineParts
<1>2. CASE F = {}
  BY <1>2 DEF TrimmedLength
<1>3. CASE F # {}
  <2>1. Max(F) \in 0..(n - 1)
    <3> HIDE DEF F
    <3> QED
      BY <1>1, <1>3, MaxIn
  <2>2. l.cells[Max(F)].w \in Nat
    <3>1. PICK k : k = Max(F)
      OBVIOUS
    <3>2. l.cells[k] \in Cells
      BY <2>1, <3>1, LineParts
    <3>3. l.cells[k].w \in {0, 1, 2}
      BY <3>2, CellParts
    <3> QED
      BY <3>1, <3>3
  <2>3. TrimmedLength(l) = Max(F) + l.cells[Max(F)].w
    BY <1>3 DEF TrimmedLength
  <2> HIDE DEF F
  <2> QED
    BY <2>1, <2>2, <2>3
<1> QED
  BY <1>2, <1>3

(* setCell and what is made of it keep the texts: a combined cell brings   *)
(* its own.                                                                *)
LEMMA SetCellLine ==
  ASSUME NEW n \in Nat, NEW l \in Lines(n), NEW i, NEW cell \in Cells, NEW text, cell.m => text \in Nat
  PROVE  SetCell(l, i, cell, text) \in Lines(n)
<1>1. CASE i \notin DOMAIN l.cells
  BY <1>1 DEF SetCell
<1>2. CASE i \in DOMAIN l.cells
  <2>1. i \in 0..(n - 1) /\ DOMAIN l.cells = 0..(n - 1)
    BY <1>2, LineParts
  <2> DEFINE new == [l.cells EXCEPT ![i] = cell]
             comb == IF cell.m THEN Put(l.comb, i, text) ELSE l.comb
  <2>2. new \in [0..(n - 1) -> Cells]
    BY LineParts
  <2>3. \A j \in 0..(n - 1) : new[j] = IF j = i THEN cell ELSE l.cells[j]
    BY LineParts
  <2>4. comb \in Texts /\ DOMAIN l.comb \subseteq DOMAIN comb /\ (cell.m => i \in DOMAIN comb)
    <3>1. CASE cell.m
      <4>1. Put(l.comb, i, text) \in [DOMAIN l.comb \cup {i} -> Nat]
        BY <3>1, LineParts, TextsParts DEF Put
      <4>2. DOMAIN l.comb \cup {i} \in SUBSET Int
        BY <2>1, LineParts, TextsParts
      <4> QED
        BY <3>1, <4>1, <4>2, TextsOf
    <3>2. CASE ~cell.m
      BY <3>2, LineParts
    <3> QED
      BY <3>1, <3>2
  <2>5. PICK x : x = [l EXCEPT !.cells[i] = cell, !.comb = comb]
    OBVIOUS
  <2>a. l \in [cells : [0..(n - 1) -> Cells], comb : Texts, wrapped : BOOLEAN]
    BY DEF Lines
  <2>b. x \in [cells : [0..(n - 1) -> Cells], comb : Texts, wrapped : BOOLEAN] /\ x.cells = new /\ x.comb = comb
    <3> HIDE DEF comb
    <3> QED
      BY <2>2, <2>4, <2>5, <2>a
  <2>c. SetCell(l, i, cell, text) = x
    BY <1>2, <2>5 DEF SetCell
  <2>6. \A j \in 0..(n - 1) : new[j].m => j \in DOMAIN comb
    BY <2>3, <2>4, LineParts
  <2> HIDE DEF new, comb
  <2> QED
    BY <2>6, <2>b, <2>c DEF Lines
<1> QED
  BY <1>1, <1>2

(* A line with other cells, each accent of which has a text in the new     *)
(* table.                                                                  *)
LEMMA LineMade ==
  ASSUME NEW n \in Nat, NEW l \in Lines(n), NEW k \in Nat, NEW cells \in [0..(k - 1) -> Cells], NEW comb \in Texts,
         \A j \in 0..(k - 1) : cells[j].m => j \in DOMAIN comb,
         NEW x, x = [l EXCEPT !.cells = cells, !.comb = comb]
  PROVE  x \in Lines(k)
<1>1. l \in [cells : [0..(n - 1) -> Cells], comb : Texts, wrapped : BOOLEAN]
  BY DEF Lines
<1>2. x \in [cells : [0..(k - 1) -> Cells], comb : Texts, wrapped : BOOLEAN] /\ x.cells = cells /\ x.comb = comb
  BY <1>1
<1> QED
  BY <1>2 DEF Lines

LEMMA LineFilled ==
  ASSUME NEW n \in Nat, NEW l \in Lines(n), NEW cells \in [0..(n - 1) -> Cells],
         \A j \in 0..(n - 1) : cells[j].m => j \in DOMAIN l.comb
  PROVE  [l EXCEPT !.cells = cells] \in Lines(n)
<1>1. l \in [cells : [0..(n - 1) -> Cells], comb : Texts, wrapped : BOOLEAN] /\ l.comb \in Texts
  BY DEF Lines
<1>2. PICK x : x = [l EXCEPT !.cells = cells]
  OBVIOUS
<1>3. x \in [cells : [0..(n - 1) -> Cells], comb : Texts, wrapped : BOOLEAN] /\ x.cells = cells /\ x.comb = l.comb
  BY <1>1, <1>2
<1> QED
  BY <1>2, <1>3 DEF Lines

LEMMA AddCodepointLine ==
  ASSUME NEW n \in Nat, NEW l \in Lines(n), NEW i, NEW k \in Nat
  PROVE  AddCodepoint(l, i, k) \in Lines(n)
<1>1. CASE i \notin DOMAIN l.cells \/ l.cells[i].m
  BY <1>1 DEF AddCodepoint
<1>2. CASE i \in DOMAIN l.cells /\ ~l.cells[i].m
  <2>1. i \in 0..(n - 1) /\ l.cells[i] \in Cells
    BY <1>2, LineParts
  <2>2. Accented(l.cells[i].w) \in Cells /\ l.cells[i].c \in Nat /\ Char(k, 1) \in Cells /\ Char(k, 1).m = FALSE
    BY <2>1, CellParts
  <2>3. SetCell(l, i, Accented(l.cells[i].w), l.cells[i].c) \in Lines(n)
    BY <2>2, SetCellLine
  <2>4. SetCell(l, i, Char(k, 1), k) \in Lines(n)
    BY <2>2, SetCellLine
  <2> QED
    BY <1>2, <2>3, <2>4 DEF AddCodepoint
<1> QED
  BY <1>1, <1>2

LEMMA ReplaceCellsLine ==
  ASSUME NEW n \in Nat, NEW l \in Lines(n), NEW from, NEW to
  PROVE  ReplaceCells(l, from, to) \in Lines(n)
<1> DEFINE cells == [i \in DOMAIN l.cells |-> IF i >= from /\ i < to THEN Null ELSE l.cells[i]]
<1>1. DOMAIN l.cells = 0..(n - 1) /\ \A i \in 0..(n - 1) : l.cells[i] \in Cells /\ (l.cells[i].m => i \in DOMAIN l.comb)
  BY LineParts
<1>2. cells \in [0..(n - 1) -> Cells]
  BY <1>1, CellParts
<1>3. \A j \in 0..(n - 1) : cells[j].m => j \in DOMAIN l.comb
  BY <1>1, CellParts
<1>4. ReplaceCells(l, from, to) = [l EXCEPT !.cells = cells]
  BY DEF ReplaceCells
<1> HIDE DEF cells
<1> QED
  BY <1>2, <1>3, <1>4, LineFilled

LEMMA ResizeLineLine ==
  ASSUME NEW n \in Nat, NEW l \in Lines(n), NEW c \in Nat
  PROVE  ResizeLine(l, c) \in Lines(c)
<1> DEFINE cells == [i \in 0..(c - 1) |-> IF i < n THEN l.cells[i] ELSE Null]
           comb == IF c < n THEN [i \in {j \in DOMAIN l.comb : j < c} |-> l.comb[i]] ELSE l.comb
<1>1. DOMAIN l.cells = 0..(n - 1) /\ \A i \in 0..(n - 1) : l.cells[i] \in Cells /\ (l.cells[i].m => i \in DOMAIN l.comb)
  BY LineParts
<1>2. Cardinality(DOMAIN l.cells) = n
  BY <1>1, FS_Interval
<1>3. cells \in [0..(c - 1) -> Cells]
  BY <1>1, CellParts
<1>4. comb \in Texts /\ \A j \in 0..(c - 1) : j \in DOMAIN l.comb => j \in DOMAIN comb
  <2>1. CASE c < n
    <3>1. {j \in DOMAIN l.comb : j < c} \in SUBSET Int /\ comb \in [{j \in DOMAIN l.comb : j < c} -> Nat]
      BY <2>1, LineParts, TextsParts
    <3>2. comb \in Texts
      BY <3>1, TextsOf
    <3> QED
      BY <2>1, <3>2
  <2>2. CASE ~(c < n)
    BY <2>2, LineParts
  <2> QED
    BY <2>1, <2>2
<1>5. \A j \in 0..(c - 1) : cells[j].m => j \in DOMAIN comb
  <2>1. \A j \in 0..(c - 1) : cells[j].m => j \in DOMAIN l.comb
    BY <1>1, CellParts
  <2> QED
    BY <1>4, <2>1
<1>6. ResizeLine(l, c) = [l EXCEPT !.cells = cells, !.comb = comb]
  BY <1>2 DEF ResizeLine
<1> HIDE DEF cells, comb
<1> QED
  BY <1>3, <1>4, <1>5, <1>6, LineMade

MovedCells(l, n, filled, at) == [i \in 0..(n - 1) |-> IF i \in filled THEN Null ELSE l.cells[at[i]]]
MovedTexts(l, n, filled, at) ==
  [i \in DOMAIN l.comb \cup {j \in (0..(n - 1)) \ filled : l.cells[at[j]].m} |->
     IF i \in (0..(n - 1)) \ filled /\ l.cells[at[i]].m THEN l.comb[at[i]] ELSE l.comb[i]]
(* insertCells and deleteCells: texts move with their cells.               *)
LEMMA ShiftedLine ==
  ASSUME NEW n \in Nat, NEW l \in Lines(n), NEW filled, NEW at \in [(0..(n - 1)) \ filled -> 0..(n - 1)],
         NEW x, x = [l EXCEPT !.cells = MovedCells(l, n, filled, at), !.comb = MovedTexts(l, n, filled, at)]
  PROVE  x \in Lines(n)
<1> DEFINE moved == (0..(n - 1)) \ filled
           carried == {j \in moved : l.cells[at[j]].m}
           D == DOMAIN l.comb \cup carried
           cells == MovedCells(l, n, filled, at)
           comb == MovedTexts(l, n, filled, at)
<1>1. \A i \in 0..(n - 1) : l.cells[i] \in Cells /\ (l.cells[i].m => i \in DOMAIN l.comb)
  BY LineParts
<1>2. \A i \in moved : at[i] \in 0..(n - 1) /\ l.cells[at[i]] \in Cells
  BY <1>1
<1>3. cells \in [0..(n - 1) -> Cells]
  BY <1>2, CellParts DEF MovedCells
<1>4. \A i \in moved : l.cells[at[i]].m => at[i] \in DOMAIN l.comb
  BY <1>1, <1>2
<1>5. D \in SUBSET Int
  BY LineParts, TextsParts
<1>6. comb \in [D -> Nat]
  <2>1. \A i \in DOMAIN l.comb : l.comb[i] \in Nat
    BY LineParts, TextsParts
  <2>2. ASSUME NEW i \in D
        PROVE  (IF i \in moved /\ l.cells[at[i]].m THEN l.comb[at[i]] ELSE l.comb[i]) \in Nat
    <3>1. CASE i \in moved /\ l.cells[at[i]].m
      BY <1>4, <2>1, <3>1
    <3>2. CASE ~(i \in moved /\ l.cells[at[i]].m)
      BY <2>1, <3>2
    <3> QED
      BY <3>1, <3>2
  <2>3. comb = [i \in D |-> IF i \in moved /\ l.cells[at[i]].m THEN l.comb[at[i]] ELSE l.comb[i]]
    BY DEF MovedTexts
  <2> HIDE DEF D, moved
  <2> QED
    BY <2>2, <2>3
<1>7. comb \in Texts
  <2> HIDE DEF D
  <2> QED
    BY <1>5, <1>6, TextsOf
<1>8. \A j \in 0..(n - 1) : cells[j].m => j \in DOMAIN comb
  <2>1. ASSUME NEW j \in 0..(n - 1), cells[j].m PROVE j \in carried
    <3>1. j \notin filled
      BY <2>1, CellParts DEF MovedCells
    <3>2. cells[j] = l.cells[at[j]]
      BY <3>1 DEF MovedCells
    <3> QED
      BY <2>1, <3>1, <3>2
  <2>2. DOMAIN comb = D
    BY <1>6
  <2> QED
    BY <2>1, <2>2
<1> HIDE DEF cells, comb
<1>9. x = [l EXCEPT !.cells = cells, !.comb = comb]
  BY DEF cells, comb
<1> QED
  BY <1>3, <1>7, <1>8, <1>9, LineMade

LEMMA InsertCellsLine ==
  ASSUME cols \in Nat \ {0}, NEW l \in Lines(cols), NEW p \in Nat, NEW n \in Nat
  PROVE  InsertCells(l, p, n) \in Lines(cols)
<1> DEFINE pos == p % cols
           filled == pos..(Min({pos + n, cols}) - 1)
           at == [i \in (0..(cols - 1)) \ filled |-> IF i < pos THEN i ELSE i - n]
           cells == MovedCells(l, cols, filled, at)
           comb == MovedTexts(l, cols, filled, at)
<1>1. pos \in 0..(cols - 1)
  OBVIOUS
<1>2. PICK m : m = Min({pos + n, cols})
  OBVIOUS
<1>3. m \in Int /\ m <= pos + n /\ m <= cols /\ (m = pos + n \/ m = cols)
  <2> HIDE DEF pos
  <2> QED
    BY <1>1, <1>2, MinOfTwo
<1>4. at \in [(0..(cols - 1)) \ filled -> 0..(cols - 1)]
  <2>1. ASSUME NEW i \in (0..(cols - 1)) \ filled
        PROVE  (IF i < pos THEN i ELSE i - n) \in 0..(cols - 1)
    <3> HIDE DEF pos
    <3> QED
      BY <1>1, <1>2, <1>3
  <2> HIDE DEF filled, pos
  <2> QED
    BY <2>1
<1>5. DOMAIN l.cells = 0..(cols - 1)
  BY LineParts
<1>6. cells = [i \in DOMAIN l.cells |-> IF i \in filled THEN Null ELSE l.cells[IF i < pos THEN i ELSE i - n]]
  <2> HIDE DEF filled, pos
  <2> QED
    BY <1>5 DEF MovedCells
<1>7. comb = [i \in DOMAIN l.comb \cup {j \in DOMAIN l.cells \ filled : l.cells[IF j < pos THEN j ELSE j - n].m} |->
                IF i \in DOMAIN l.cells \ filled /\ l.cells[IF i < pos THEN i ELSE i - n].m
                THEN l.comb[IF i < pos THEN i ELSE i - n] ELSE l.comb[i]]
  <2>1. {j \in (0..(cols - 1)) \ filled : l.cells[at[j]].m}
           = {j \in DOMAIN l.cells \ filled : l.cells[IF j < pos THEN j ELSE j - n].m}
    <3> HIDE DEF filled, pos
    <3> QED
      BY <1>5
  <2> HIDE DEF filled, pos
  <2> QED
    BY <1>5, <2>1 DEF MovedTexts
<1>8. InsertCells(l, p, n) = [l EXCEPT !.cells = cells, !.comb = comb]
  <2>1. InsertCells(l, p, n) =
          [l EXCEPT !.cells = [i \in DOMAIN l.cells |-> IF i \in filled THEN Null ELSE l.cells[IF i < pos THEN i ELSE i - n]],
                    !.comb = [i \in DOMAIN l.comb \cup {j \in DOMAIN l.cells \ filled : l.cells[IF j < pos THEN j ELSE j - n].m} |->
                                IF i \in DOMAIN l.cells \ filled /\ l.cells[IF i < pos THEN i ELSE i - n].m
                                THEN l.comb[IF i < pos THEN i ELSE i - n] ELSE l.comb[i]]]
    BY DEF InsertCells, Shift
  <2> HIDE DEF cells, comb, filled, pos
  <2> QED
    BY <1>6, <1>7, <2>1
<1> HIDE DEF filled, pos, at
<1>9. PICK x : x = [l EXCEPT !.cells = cells, !.comb = comb]
  OBVIOUS
<1>10. x \in Lines(cols)
  BY <1>4, <1>9, ShiftedLine
<1> QED
  BY <1>8, <1>9, <1>10

LEMMA DeleteCellsLine ==
  ASSUME cols \in Nat \ {0}, NEW l \in Lines(cols), NEW p \in Nat, NEW n \in Nat
  PROVE  DeleteCells(l, p, n) \in Lines(cols)
<1> DEFINE pos == p % cols
           filled == Max({pos, cols - n})..(cols - 1)
           at == [i \in (0..(cols - 1)) \ filled |-> IF i < pos THEN i ELSE i + n]
           cells == MovedCells(l, cols, filled, at)
           comb == MovedTexts(l, cols, filled, at)
<1>1. pos \in 0..(cols - 1)
  OBVIOUS
<1>2. PICK m : m = Max({pos, cols - n})
  OBVIOUS
<1>3. m \in Int /\ m >= pos /\ m >= cols - n /\ (m = pos \/ m = cols - n)
  <2> HIDE DEF pos
  <2> QED
    BY <1>1, <1>2, MaxOfTwo
<1>4. at \in [(0..(cols - 1)) \ filled -> 0..(cols - 1)]
  <2>1. ASSUME NEW i \in (0..(cols - 1)) \ filled
        PROVE  (IF i < pos THEN i ELSE i + n) \in 0..(cols - 1)
    <3> HIDE DEF pos
    <3> QED
      BY <1>1, <1>2, <1>3
  <2> HIDE DEF filled, pos
  <2> QED
    BY <2>1
<1>5. DOMAIN l.cells = 0..(cols - 1)
  BY LineParts
<1>6. cells = [i \in DOMAIN l.cells |-> IF i \in filled THEN Null ELSE l.cells[IF i < pos THEN i ELSE i + n]]
  <2> HIDE DEF filled, pos
  <2> QED
    BY <1>5 DEF MovedCells
<1>7. comb = [i \in DOMAIN l.comb \cup {j \in DOMAIN l.cells \ filled : l.cells[IF j < pos THEN j ELSE j + n].m} |->
                IF i \in DOMAIN l.cells \ filled /\ l.cells[IF i < pos THEN i ELSE i + n].m
                THEN l.comb[IF i < pos THEN i ELSE i + n] ELSE l.comb[i]]
  <2>1. {j \in (0..(cols - 1)) \ filled : l.cells[at[j]].m}
           = {j \in DOMAIN l.cells \ filled : l.cells[IF j < pos THEN j ELSE j + n].m}
    <3> HIDE DEF filled, pos
    <3> QED
      BY <1>5
  <2> HIDE DEF filled, pos
  <2> QED
    BY <1>5, <2>1 DEF MovedTexts
<1>8. DeleteCells(l, p, n) = [l EXCEPT !.cells = cells, !.comb = comb]
  <2>1. DeleteCells(l, p, n) =
          [l EXCEPT !.cells = [i \in DOMAIN l.cells |-> IF i \in filled THEN Null ELSE l.cells[IF i < pos THEN i ELSE i + n]],
                    !.comb = [i \in DOMAIN l.comb \cup {j \in DOMAIN l.cells \ filled : l.cells[IF j < pos THEN j ELSE j + n].m} |->
                                IF i \in DOMAIN l.cells \ filled /\ l.cells[IF i < pos THEN i ELSE i + n].m
                                THEN l.comb[IF i < pos THEN i ELSE i + n] ELSE l.comb[i]]]
    BY DEF DeleteCells, Shift
  <2> HIDE DEF cells, comb, filled, pos
  <2> QED
    BY <1>6, <1>7, <2>1
<1> HIDE DEF filled, pos, at
<1>9. PICK x : x = [l EXCEPT !.cells = cells, !.comb = comb]
  OBVIOUS
<1>10. x \in Lines(cols)
  BY <1>4, <1>9, ShiftedLine
<1> QED
  BY <1>8, <1>9, <1>10

(* copyCellsFrom: the texts of the cells copied are copied under their new *)
(* columns, and those of the cells kept are kept.                          *)
LEMMA CopyCellsLine ==
  ASSUME NEW n \in Nat, NEW dst \in Lines(n), NEW src \in Lines(n), NEW srcCol \in Int, NEW dstCol \in Int,
         NEW k \in Int, NEW same \in BOOLEAN
  PROVE  CopyCells(dst, src, srcCol, dstCol, k, same) \in Lines(n)
<1> DEFINE by == dstCol - srcCol
           keys == {j \in DOMAIN src.comb : j >= srcCol}
           first(i) == IF same /\ by > 0
                       THEN Min({j \in keys : /\ j <= i /\ (i - j) % by = 0
                                              /\ \A h \in j..i : (i - h) % by = 0 => h \in keys})
                       ELSE i
           cells == [i \in DOMAIN dst.cells |-> IF i \in dstCol..(dstCol + k - 1)
                                                THEN CellAt(src, i - by) ELSE dst.cells[i]]
           D == DOMAIN dst.comb \cup {j + by : j \in keys}
           comb == [i \in D |-> IF i - by \in keys THEN src.comb[first(i - by)] ELSE dst.comb[i]]
<1>1. /\ DOMAIN dst.cells = 0..(n - 1)
      /\ \A i \in 0..(n - 1) : dst.cells[i] \in Cells /\ (dst.cells[i].m => i \in DOMAIN dst.comb)
  BY LineParts
<1>2. \A i \in 0..(n - 1) : CellAt(src, i - by) \in Cells /\ (CellAt(src, i - by).m => i - by \in DOMAIN src.comb)
  <2>1. \A i \in 0..(n - 1) : i - by \in Int
    OBVIOUS
  <2> HIDE DEF by
  <2> QED
    BY <2>1, CellAtIs
<1>3. cells \in [0..(n - 1) -> Cells]
  BY <1>1, <1>2
<1>4. /\ keys \in SUBSET Int /\ D \in SUBSET Int
      /\ \A j \in keys : src.comb[j] \in Nat
      /\ \A i \in DOMAIN dst.comb : dst.comb[i] \in Nat
  BY LineParts, TextsParts
<1>5. ASSUME NEW i \in keys PROVE first(i) \in keys
  <2>1. CASE same /\ by > 0
    <3> DEFINE T == {j \in keys : /\ j <= i /\ (i - j) % by = 0
                                  /\ \A h \in j..i : (i - h) % by = 0 => h \in keys}
    <3>1. i \in T
      <4>1. i \in Int /\ by \in Int /\ (i - i) % by = 0
        BY <1>4, <2>1
      <4>2. \A h \in i..i : h = i
        BY <4>1
      <4> QED
        BY <4>1, <4>2
    <3>2. T \in SUBSET (srcCol..i)
      BY <1>4
    <3>3. Min(T) \in T
      <4> HIDE DEF T
      <4> QED
        BY <1>4, <3>1, <3>2, MinIn
    <3>4. first(i) = Min(T)
      BY <2>1
    <3> HIDE DEF first
    <3> QED
      BY <3>3, <3>4
  <2>2. CASE ~(same /\ by > 0)
    BY <2>2
  <2> QED
    BY <2>1, <2>2
<1> HIDE DEF first
<1>6. comb \in [D -> Nat]
  <2>1. ASSUME NEW i \in D PROVE (IF i - by \in keys THEN src.comb[first(i - by)] ELSE dst.comb[i]) \in Nat
    <3>1. CASE i - by \in keys
      BY <1>4, <1>5, <3>1
    <3>2. CASE i - by \notin keys
      <4>1. i \in DOMAIN dst.comb
        <5>1. \A j \in keys : (j + by) - by = j
          BY <1>4
        <5> QED
          BY <3>2, <5>1
      <4> QED
        BY <1>4, <3>2, <4>1
    <3> QED
      BY <3>1, <3>2
  <2> HIDE DEF D, keys, by
  <2> QED
    BY <2>1
<1>7. comb \in Texts
  <2> HIDE DEF comb, D
  <2> QED
    BY <1>4, <1>6, TextsOf
<1>8. \A i \in 0..(n - 1) : cells[i].m => i \in D
  <2> SUFFICES ASSUME NEW i \in 0..(n - 1), cells[i].m PROVE i \in D
    OBVIOUS
  <2>1. CASE i \in dstCol..(dstCol + k - 1)
    <3>1. cells[i] = CellAt(src, i - by)
      BY <1>1, <2>1
    <3>2. i - by \in DOMAIN src.comb /\ i - by >= srcCol
      BY <1>2, <2>1, <3>1
    <3>3. i - by \in keys /\ (i - by) + by = i
      BY <3>2
    <3> HIDE DEF keys, cells, by
    <3> QED
      BY <3>3
  <2>2. CASE i \notin dstCol..(dstCol + k - 1)
    BY <1>1, <2>2
  <2> QED
    BY <2>1, <2>2
<1>9. DOMAIN comb = D
  OBVIOUS
<1>10. CopyCells(dst, src, srcCol, dstCol, k, same) = [dst EXCEPT !.cells = cells, !.comb = comb]
  BY DEF CopyCells, first
<1> HIDE DEF cells, comb, D
<1>11. PICK x : x = [dst EXCEPT !.cells = cells, !.comb = comb]
  OBVIOUS
<1>12. x \in Lines(n)
  BY <1>3, <1>7, <1>8, <1>9, <1>11, LineMade
<1> QED
  BY <1>10, <1>11, <1>12

-----------------------------------------------------------------------------
(* Buffers, and what is printed into them.                                 *)
Buffers(w, h) == [lines : Seq(Lines(w)), start : Int, ybase : Int, x : 0..w, y : {i \in Int : i < h}]
Sized == cols \in Nat \ {0, 1} /\ rows \in Nat \ {0}

(* An index outside of a list is left alone.                               *)
LEMMA PutInSeq ==
  ASSUME NEW S, NEW s \in Seq(S), NEW i, NEW e, i \in DOMAIN s => e \in S
  PROVE  [s EXCEPT ![i] = e] \in Seq(S)
<1>1. PICK n \in Nat : s \in [1..n -> S]
  BY SeqDef
<1>2. [s EXCEPT ![i] = e] \in [1..n -> S]
  BY <1>1
<1> QED
  BY <1>2, SeqDef

LEMMA MaxLengthIs == ASSUME NEW r \in Nat \ {0} PROVE MaxLength(r) \in Nat \ {0}
  BY ReflowAssumption DEF MaxLength

LEMMA BufferParts ==
  ASSUME NEW w \in Nat, NEW h, NEW nb \in Buffers(w, h)
  PROVE  /\ nb.lines \in Seq(Lines(w)) /\ nb.start \in Int /\ nb.ybase \in Int /\ nb.x \in 0..w /\ nb.y \in Int /\ nb.y < h
         /\ Len(nb.lines) \in Nat /\ DOMAIN nb.lines = 1..Len(nb.lines)
         /\ \A i \in DOMAIN nb.lines : nb.lines[i] \in Lines(w)
  BY DEF Buffers

LEMMA LinesPut ==
  ASSUME NEW w \in Nat, NEW h, NEW nb \in Buffers(w, h), NEW i, NEW l, i \in DOMAIN nb.lines => l \in Lines(w)
  PROVE  [nb EXCEPT !.lines[i] = l] \in Buffers(w, h)
<1>1. PICK s : s = [nb.lines EXCEPT ![i] = l]
  OBVIOUS
<1>2. s \in Seq(Lines(w))
  BY <1>1, BufferParts, PutInSeq
<1>3. [nb EXCEPT !.lines[i] = l] = [nb EXCEPT !.lines = s]
  BY <1>1
<1>4. [nb EXCEPT !.lines = s] \in Buffers(w, h)
  BY <1>2 DEF Buffers
<1> QED
  BY <1>3, <1>4

(* A new row at the bottom.                                                *)
LEMMA ScrolledIs ==
  ASSUME Sized, NEW nb \in Buffers(cols, rows), NEW wrapped \in BOOLEAN
  PROVE  Scrolled(nb, wrapped) \in Buffers(cols, rows) /\ Scrolled(nb, wrapped).x = nb.x
<1> USE DEF Sized
<1>1. Blank(cols, wrapped) \in Lines(cols)
  BY BlankLine
<1>2. MaxLength(rows) \in Nat \ {0}
  BY MaxLengthIs
<1>3. CASE Len(nb.lines) = MaxLength(rows)
  <2>1. nb.lines # <<>> /\ Tail(nb.lines) \in Seq(Lines(cols))
    BY <1>2, <1>3, BufferParts
  <2>2. PICK s : s = Append(Tail(nb.lines), Blank(cols, wrapped))
    OBVIOUS
  <2>3. s \in Seq(Lines(cols))
    BY <1>1, <2>1, <2>2
  <2>4. (nb.start + 1) % MaxLength(rows) \in Int
    BY <1>2, BufferParts
  <2>5. Scrolled(nb, wrapped) = [nb EXCEPT !.lines = s, !.start = (nb.start + 1) % MaxLength(rows)]
    BY <1>3, <2>2 DEF Scrolled
  <2> QED
    BY <2>3, <2>4, <2>5 DEF Buffers
<1>4. CASE Len(nb.lines) # MaxLength(rows)
  <2>1. PICK s : s = Append(nb.lines, Blank(cols, wrapped))
    OBVIOUS
  <2>2. s \in Seq(Lines(cols))
    BY <1>1, <2>1, BufferParts
  <2>3. PICK y : y = nb.ybase + 1
    OBVIOUS
  <2>4. y \in Int
    BY <2>3, BufferParts
  <2>5. Scrolled(nb, wrapped) = [nb EXCEPT !.lines = s, !.ybase = y]
    BY <1>4, <2>1, <2>3 DEF Scrolled
  <2> QED
    BY <2>2, <2>4, <2>5 DEF Buffers
<1> QED
  BY <1>3, <1>4

LEMMA WrappedLine == ASSUME NEW n \in Nat, NEW l \in Lines(n) PROVE [l EXCEPT !.wrapped = TRUE] \in Lines(n)
<1>1. l \in [cells : [0..(n - 1) -> Cells], comb : Texts, wrapped : BOOLEAN]
  BY DEF Lines
<1>2. PICK x : x = [l EXCEPT !.wrapped = TRUE]
  OBVIOUS
<1>3. x \in [cells : [0..(n - 1) -> Cells], comb : Texts, wrapped : BOOLEAN] /\ x.cells = l.cells /\ x.comb = l.comb
  BY <1>1, <1>2
<1> QED
  BY <1>2, <1>3 DEF Lines

LEMMA WrappedToIs ==
  ASSUME Sized, NEW nb \in Buffers(cols, rows)
  PROVE  WrappedTo(nb) \in Buffers(cols, rows) /\ WrappedTo(nb).x = 0
<1> USE DEF Sized
<1>1. PICK at : at = [nb EXCEPT !.x = 0]
  OBVIOUS
<1>2. at \in Buffers(cols, rows) /\ at.x = 0 /\ at.lines = nb.lines
  BY <1>1 DEF Buffers
<1>3. CASE nb.y + 1 > rows - 1
  BY <1>1, <1>2, <1>3, ScrolledIs DEF WrappedTo
<1>4. CASE ~(nb.y + 1 > rows - 1)
  <2>1. PICK i : i = nb.y + 2
    OBVIOUS
  <2>2. PICK l : l = [at.lines[i] EXCEPT !.wrapped = TRUE]
    OBVIOUS
  <2>3. i \in DOMAIN at.lines => l \in Lines(cols)
    BY <1>2, <2>2, BufferParts, WrappedLine
  <2>4. PICK b : b = [at EXCEPT !.y = nb.y + 1]
    OBVIOUS
  <2>5. b \in Buffers(cols, rows) /\ b.x = 0 /\ b.lines = at.lines
    <3>1. PICK y : y = nb.y + 1
      OBVIOUS
    <3>2. y \in {v \in Int : v < rows}
      BY <1>4, <3>1, BufferParts
    <3>3. b = [at EXCEPT !.y = y]
      BY <2>4, <3>1
    <3> QED
      BY <1>2, <3>2, <3>3 DEF Buffers
  <2>6. WrappedTo(nb) = [at EXCEPT !.y = nb.y + 1, !.lines[i].wrapped = TRUE]
    BY <1>1, <1>4, <2>1 DEF WrappedTo
  <2>7. [at EXCEPT !.y = nb.y + 1, !.lines[i].wrapped = TRUE] = [[at EXCEPT !.y = nb.y + 1] EXCEPT !.lines[i].wrapped = TRUE]
    OBVIOUS
  <2>8. [b EXCEPT !.lines[i].wrapped = TRUE] = [b EXCEPT !.lines[i] = l]
    BY <2>2, <2>5
  <2>9. [b EXCEPT !.lines[i] = l] \in Buffers(cols, rows)
    BY <2>3, <2>5, LinesPut
  <2>10. [b EXCEPT !.lines[i] = l].x = b.x
    BY <2>5 DEF Buffers
  <2> QED
    BY <2>4, <2>5, <2>6, <2>7, <2>8, <2>9, <2>10
<1> QED
  BY <1>3, <1>4

(* A combining character goes to the cell before the cursor.               *)
LEMMA CombinedIs ==
  ASSUME Sized, NEW nb \in Buffers(cols, rows), NEW k \in Nat
  PROVE  Combined(nb, k) \in Buffers(cols, rows)
<1> USE DEF Sized
<1> DEFINE r == nb.ybase + nb.y + 1
           at == IF nb.lines[r].cells[nb.x - 1].w = 0 THEN nb.x - 2 ELSE nb.x - 1
<1>1. PICK l : l = AddCodepoint(nb.lines[r], at, k)
  OBVIOUS
<1>2. r \in DOMAIN nb.lines => l \in Lines(cols)
  <2> HIDE DEF r, at
  <2> QED
    BY <1>1, BufferParts, AddCodepointLine
<1>3. Combined(nb, k) = [nb EXCEPT !.lines[r] = l]
  BY <1>1 DEF Combined
<1> HIDE DEF r, at
<1>4. PICK b : b = [nb EXCEPT !.lines[r] = l]
  OBVIOUS
<1>5. b \in Buffers(cols, rows)
  BY <1>2, <1>4, LinesPut
<1> QED
  BY <1>3, <1>4, <1>5

LEMMA InsertedLine ==
  ASSUME Sized, NEW l \in Lines(cols), NEW x \in Nat, NEW w \in Nat
  PROVE  Inserted(l, x, w) \in Lines(cols)
<1>1. cols \in Nat \ {0} /\ cols \in Nat
  BY DEF Sized
<1>2. PICK i : i = InsertCells(l, x, w)
  OBVIOUS
<1>3. i \in Lines(cols)
  BY <1>1, <1>2, InsertCellsLine
<1>4. SetCell(i, cols - 1, Null, 0) \in Lines(cols)
  BY <1>1, <1>3, SetCellLine, CellParts
<1> QED
  BY <1>2, <1>3, <1>4 DEF Inserted

(* A character that fits goes to the cursor.                               *)
LEMMA PlacedIs ==
  ASSUME Sized, NEW nb \in Buffers(cols, rows), NEW k \in Nat \ {0}, NEW w \in {0, 1, 2}, NEW insert \in BOOLEAN,
         nb.x + w - 1 < cols, w = 0 => nb.x = 0
  PROVE  Placed(nb, k, w, insert) \in Buffers(cols, rows)
<1> USE DEF Sized
<1> DEFINE r == nb.ybase + nb.y + 1
           l == IF insert THEN Inserted(nb.lines[r], nb.x, w) ELSE nb.lines[r]
           c == SetCell(l, nb.x, Char(k, w), 0)
           e == IF w = 2 THEN SetCell(c, nb.x + 1, Char(0, 0), 0) ELSE c
<1>1. r \in DOMAIN nb.lines => l \in Lines(cols)
  <2> HIDE DEF r
  <2>1. nb.x \in Nat /\ w \in Nat
    BY BufferParts
  <2> QED
    BY <2>1, BufferParts, InsertedLine
<1>2. /\ Char(k, w) \in Cells /\ Char(k, w).m = FALSE
      /\ Char(0, 0) \in Cells /\ Char(0, 0).m = FALSE
  BY CellParts
<1>3. r \in DOMAIN nb.lines => c \in Lines(cols)
  <2> HIDE DEF r, l
  <2> QED
    BY <1>1, <1>2, SetCellLine
<1>4. r \in DOMAIN nb.lines => e \in Lines(cols)
  <2> HIDE DEF r, l, c
  <2> QED
    BY <1>2, <1>3, SetCellLine
<1>5. PICK m : m = Max({w, 1})
  OBVIOUS
<1>6. m = IF w <= 1 THEN 1 ELSE w
  BY <1>5, MaxOfTwo
<1>7. PICK x : x = nb.x + m
  OBVIOUS
<1>8. x \in 0..cols
  BY <1>6, <1>7, BufferParts
<1>9. Placed(nb, k, w, insert) = [nb EXCEPT !.lines[r] = e, !.x = x]
  BY <1>5, <1>7 DEF Placed
<1> HIDE DEF e, r
<1>10. PICK b : b = [nb EXCEPT !.lines[r] = e]
  OBVIOUS
<1>11. b \in Buffers(cols, rows)
  BY <1>4, <1>10, LinesPut
<1>12. [nb EXCEPT !.lines[r] = e, !.x = x] = [[nb EXCEPT !.lines[r] = e] EXCEPT !.x = x]
  OBVIOUS
<1>13. [b EXCEPT !.x = x] \in Buffers(cols, rows)
  BY <1>8, <1>11 DEF Buffers
<1> QED
  BY <1>9, <1>10, <1>12, <1>13

LEMMA PrintedIs ==
  ASSUME Sized, NEW nb \in Buffers(cols, rows), NEW k \in Nat \ {0}, NEW w \in {0, 1, 2}, NEW insert \in BOOLEAN
  PROVE  Printed(nb, k, w, insert) \in Buffers(cols, rows)
<1>1. CASE w = 0 /\ nb.x > 0
  BY <1>1, CombinedIs DEF Printed
<1>2. CASE ~(w = 0 /\ nb.x > 0) /\ nb.x + w - 1 >= cols
  <2>1. PICK b : b = WrappedTo(nb)
    OBVIOUS
  <2>2. b \in Buffers(cols, rows) /\ b.x = 0 /\ cols \in Nat \ {0, 1}
    BY <2>1, WrappedToIs DEF Sized
  <2>3. b.x + w - 1 < cols
    BY <2>2
  <2>4. Placed(b, k, w, insert) \in Buffers(cols, rows)
    BY <2>2, <2>3, PlacedIs
  <2> QED
    BY <1>2, <2>1, <2>4 DEF Printed
<1>3. CASE ~(w = 0 /\ nb.x > 0) /\ ~(nb.x + w - 1 >= cols)
  <2>1. nb.x + w - 1 < cols /\ (w = 0 => nb.x = 0)
    BY <1>3, BufferParts DEF Sized
  <2> QED
    BY <1>3, <2>1, PlacedIs DEF Printed
<1> QED
  BY <1>1, <1>2, <1>3

(* The characters of a word, one after the other.                          *)
LEMMA PrintedFromIn ==
  ASSUME NEW S, NEW nb \in S, NEW k \in Nat \ {0}, NEW word \in Seq({0, 1, 2}), NEW insert \in BOOLEAN,
         \A b \in S, h \in Nat \ {0}, w \in {0, 1, 2} : Printed(b, h, w, insert) \in S
  PROVE  PrintedFrom(nb, k, word, insert) \in S
<1> DEFINE n == Len(word)
           step == [i \in 1..n |-> [b \in S |-> Printed(b, k + i - 1, word[i], insert)]]
<1>1. n \in Nat
  OBVIOUS
<1>2. \A i \in 1..n, b \in S : Printed(b, k + i - 1, word[i], insert) \in S
  <2> SUFFICES ASSUME NEW i \in 1..n, NEW b \in S
               PROVE  Printed(b, k + i - 1, word[i], insert) \in S
    OBVIOUS
  <2>1. k + i - 1 \in Nat \ {0} /\ word[i] \in {0, 1, 2}
    OBVIOUS
  <2> QED
    BY <2>1
<1>3. step \in [1..n -> [S -> S]]
  BY <1>2
<1>4. \A i \in 1..n, b \in S : step[i][b] = Printed(b, k + i - 1, word[i], insert)
  OBVIOUS
<1> HIDE DEF step, n
<1>5. PICK f : Rounds(f, nb, step, n) /\ \A i \in 0..n : f[i] \in S
  BY <1>1, <1>3, RoundsExist
<1>6. f = [i \in 0..n |-> IF i = 0 THEN nb ELSE step[i][f[i - 1]]]
  BY <1>5 DEF Rounds
<1>7. \A i \in 0..n : i # 0 => i \in 1..n /\ i - 1 \in 0..n
  BY <1>1
<1>8. \A i \in 0..n : i # 0 => step[i][f[i - 1]] = Printed(f[i - 1], k + i - 1, word[i], insert)
  BY <1>4, <1>5, <1>7
<1>9. f = [i \in 0..n |-> IF i = 0 THEN nb ELSE Printed(f[i - 1], k + i - 1, word[i], insert)]
  BY <1>6, <1>8
<1>10. PICK g : g = CHOOSE h : h = [i \in 0..n |-> IF i = 0 THEN nb ELSE Printed(h[i - 1], k + i - 1, word[i], insert)]
  OBVIOUS
<1>11. g = [i \in 0..n |-> IF i = 0 THEN nb ELSE Printed(g[i - 1], k + i - 1, word[i], insert)]
  BY <1>9, <1>10
<1>12. g[0] = nb /\ \A i \in 1..n : g[i] = Printed(g[i - 1], k + i - 1, word[i], insert)
  <2>1. \A i \in 0..n : g[i] = IF i = 0 THEN nb ELSE Printed(g[i - 1], k + i - 1, word[i], insert)
    BY <1>11
  <2>2. 0 \in 0..n /\ \A i \in 1..n : i \in 0..n /\ i # 0
    BY <1>1
  <2> QED
    BY <2>1, <2>2
<1>13. \A i \in 0..n : g[i] \in S
  <2>1. g[0] \in S /\ \A i \in 1..n : g[i - 1] \in S => g[i] \in S
    BY <1>2, <1>12
  <2> QED
    BY <1>1, <2>1, RoundsStay
<1>14. PrintedFrom(nb, k, word, insert) = g[n]
  BY <1>10 DEF PrintedFrom, n
<1> QED
  BY <1>1, <1>13, <1>14

LEMMA PrintedFromIs ==
  ASSUME Sized, NEW nb \in Buffers(cols, rows), NEW k \in Nat \ {0}, NEW word \in Seq({0, 1, 2}), NEW insert \in BOOLEAN
  PROVE  PrintedFrom(nb, k, word, insert) \in Buffers(cols, rows)
<1>1. \A b \in Buffers(cols, rows), h \in Nat \ {0}, w \in {0, 1, 2} : Printed(b, h, w, insert) \in Buffers(cols, rows)
  BY PrintedIs
<1> QED
  BY <1>1, PrintedFromIn

-----------------------------------------------------------------------------
(* Groups of rows.                                                         *)
Groups(w, n) == [1..n -> Lines(w)]

LEMMA GroupIs ==
  ASSUME NEW w \in Nat, NEW n \in Nat, NEW g \in Groups(w, n)
  PROVE  Len(g) = n /\ DOMAIN g = 1..n /\ g \in Seq(Lines(w)) /\ \A i \in 1..n : g[i] \in Lines(w)
<1>1. g \in Seq(Lines(w)) /\ DOMAIN g = 1..n
  BY SeqDef DEF Groups
<1>2. Len(g) = n
  <2>1. DOMAIN g = 1..Len(g) /\ Len(g) \in Nat
    BY <1>1, LenProperties
  <2> QED
    BY <1>1, <2>1
<1> QED
  BY <1>1, <1>2 DEF Groups

LEMMA GroupOf ==
  ASSUME NEW w \in Nat, NEW g \in Seq(Lines(w))
  PROVE  Len(g) \in Nat /\ g \in Groups(w, Len(g))
<1>1. g \in [1..Len(g) -> Lines(w)] /\ Len(g) \in Nat
  BY LenProperties
<1> QED
  BY <1>1 DEF Groups

LEMMA GroupPut ==
  ASSUME NEW w \in Nat, NEW n \in Nat, NEW g \in Groups(w, n), NEW i, NEW l, i \in 1..n => l \in Lines(w)
  PROVE  [g EXCEPT ![i] = l] \in Groups(w, n)
  BY DEF Groups

(* The rows of lists of rows.                                              *)
Joining(h, S, ss) ==
  /\ h \in [0..Len(ss) -> Seq(S)] /\ h[0] = <<>>
  /\ \A i \in 1..Len(ss) : h[i] = h[i - 1] \o ss[i]
  /\ Seqs!FlattenSeq(ss) = h[Len(ss)]
LEMMA FlattenFrom ==
  ASSUME NEW S, NEW ss \in Seq(Seq(S))
  PROVE  \E h : Joining(h, S, ss)
<1> DEFINE n == Len(ss)
<1>1. n \in Nat /\ DOMAIN ss = 1..n /\ \A i \in 1..n : ss[i] \in Seq(S)
  OBVIOUS
<1>2. CASE n = 0
  <2>1. ss = <<>>
    BY <1>2, EmptySeq
  <2>2. Seqs!FlattenSeq(ss) = <<>>
    BY <2>1 DEF Seqs!FlattenSeq
  <2> DEFINE h == [i \in 0..n |-> <<>>]
  <2>3. h \in [0..n -> Seq(S)] /\ h[0] = <<>> /\ h[n] = <<>>
    BY <1>2
  <2>4. 1..n = {}
    BY <1>2
  <2> HIDE DEF h
  <2> QED
    BY <2>2, <2>3, <2>4 DEF Joining
<1>3. CASE n # 0
  <2> DEFINE step == [i \in 1..(n - 1) |-> [s \in Seq(S) |-> s \o ss[i + 1]]]
  <2>1. n - 1 \in Nat /\ ss[1] \in Seq(S)
    BY <1>1, <1>3
  <2>2. \A i \in 1..(n - 1), s \in Seq(S) : s \o ss[i + 1] \in Seq(S)
    <3> SUFFICES ASSUME NEW i \in 1..(n - 1), NEW s \in Seq(S) PROVE s \o ss[i + 1] \in Seq(S)
      OBVIOUS
    <3>1. i + 1 \in 1..n
      BY <1>1
    <3>2. ss[i + 1] \in Seq(S)
      BY <1>1, <3>1
    <3> QED
      BY <3>2
  <2>3. step \in [1..(n - 1) -> [Seq(S) -> Seq(S)]]
    BY <2>2
  <2>4. \A i \in 1..(n - 1), s \in Seq(S) : step[i][s] = s \o ss[i + 1]
    OBVIOUS
  <2> HIDE DEF step, n
  <2>5. PICK f : Rounds(f, ss[1], step, n - 1) /\ \A i \in 0..(n - 1) : f[i] \in Seq(S)
    BY <2>1, <2>3, RoundsExist
  <2>6. \A i \in 0..(n - 1) : f[i] = IF i = 0 THEN ss[1] ELSE step[i][f[i - 1]]
    <3>1. f = [i \in 0..(n - 1) |-> IF i = 0 THEN ss[1] ELSE step[i][f[i - 1]]]
      BY <2>5 DEF Rounds
    <3> QED
      BY <3>1
  <2> DEFINE h == [i \in 1..n |-> f[i - 1]]
  <2>7. \A i \in 1..n : h[i] = IF i = 1 THEN ss[i] ELSE h[i - 1] \o ss[i]
    <3> SUFFICES ASSUME NEW i \in 1..n PROVE h[i] = IF i = 1 THEN ss[i] ELSE h[i - 1] \o ss[i]
      OBVIOUS
    <3>1. i - 1 \in 0..(n - 1)
      BY <1>1
    <3>2. CASE i = 1
      BY <2>6, <3>1, <3>2
    <3>3. CASE i # 1
      <4>1. i - 1 \in 1..(n - 1) /\ i - 1 # 0 /\ (i - 1) + 1 = i /\ (i - 1) - 1 \in 0..(n - 1) /\ i - 1 \in 1..n
        BY <1>1, <3>3
      <4>2. f[i - 1] = step[i - 1][f[(i - 1) - 1]]
        BY <2>6, <3>1, <4>1
      <4>3. step[i - 1][f[(i - 1) - 1]] = f[(i - 1) - 1] \o ss[i]
        BY <2>4, <2>5, <4>1
      <4>4. h[i] = f[i - 1] /\ h[i - 1] = f[(i - 1) - 1]
        BY <4>1
      <4> QED
        BY <3>3, <4>2, <4>3, <4>4
    <3> QED
      BY <3>2, <3>3
  <2>8. h = [i \in 1..n |-> h[i]]
    OBVIOUS
  <2> HIDE DEF h
  <2>9. h = [i \in 1..n |-> IF i = 1 THEN ss[i] ELSE h[i - 1] \o ss[i]]
    BY <2>7, <2>8
  <2>10. PICK e : e = CHOOSE z : z = [i \in 1..n |-> IF i = 1 THEN ss[i] ELSE z[i - 1] \o ss[i]]
    OBVIOUS
  <2>11. e = [i \in 1..n |-> IF i = 1 THEN ss[i] ELSE e[i - 1] \o ss[i]]
    BY <2>9, <2>10
  <2>12. \A i \in 1..n : e[i] = IF i = 1 THEN ss[i] ELSE e[i - 1] \o ss[i]
    BY <2>11
  <2> DEFINE y == [i \in 0..(n - 1) |-> e[i + 1]]
  <2>13. y[0] \in Seq(S) /\ \A i \in 1..(n - 1) : y[i - 1] \in Seq(S) => y[i] \in Seq(S)
    <3>1. 1 \in 1..n /\ 0 \in 0..(n - 1)
      BY <1>1, <1>3
    <3>2. y[0] = ss[1]
      BY <2>12, <3>1
    <3>3. ASSUME NEW i \in 1..(n - 1), y[i - 1] \in Seq(S) PROVE y[i] \in Seq(S)
      <4>1. i + 1 \in 1..n /\ i + 1 # 1 /\ (i + 1) - 1 = i /\ i - 1 \in 0..(n - 1) /\ i \in 0..(n - 1) /\ (i - 1) + 1 = i
        BY <1>1
      <4>2. y[i] = e[i + 1] /\ y[i - 1] = e[i]
        BY <4>1
      <4>3. e[i + 1] = e[i] \o ss[i + 1]
        BY <2>12, <4>1
      <4>4. ss[i + 1] \in Seq(S) /\ e[i] \in Seq(S)
        BY <1>1, <3>3, <4>1, <4>2
      <4>5. e[i] \o ss[i + 1] \in Seq(S)
        BY <4>4
      <4> QED
        BY <4>2, <4>3, <4>5
    <3> QED
      BY <2>1, <3>2, <3>3
  <2> HIDE DEF y
  <2>14. \A i \in 0..(n - 1) : y[i] \in Seq(S)
    BY <2>1, <2>13, RoundsStay
  <2>15. y[n - 1] = e[n]
    <3>1. n - 1 \in 0..(n - 1) /\ (n - 1) + 1 = n
      BY <1>1, <1>3
    <3> QED
      BY <3>1 DEF y
  <2>16. Seqs!FlattenSeq(ss) = e[n]
    BY <1>3, <2>10 DEF Seqs!FlattenSeq, n
  <2>17. \A i \in 1..n : e[i] \in Seq(S)
    <3> SUFFICES ASSUME NEW i \in 1..n PROVE e[i] \in Seq(S)
      OBVIOUS
    <3>1. i - 1 \in 0..(n - 1) /\ (i - 1) + 1 = i
      BY <1>1
    <3>2. y[i - 1] = e[i]
      BY <3>1 DEF y
    <3> QED
      BY <2>14, <3>1, <3>2
  <2> DEFINE j == [i \in 0..n |-> IF i = 0 THEN <<>> ELSE e[i]]
  <2>18. \A i \in 0..n : i # 0 => i \in 1..n
    BY <1>1
  <2>19. j \in [0..n -> Seq(S)]
    BY <2>17, <2>18
  <2>20. 0 \in 0..n /\ n \in 0..n /\ j[0] = <<>> /\ j[n] = e[n]
    BY <1>1, <1>3
  <2>21. \A i \in 1..n : j[i] = j[i - 1] \o ss[i]
    <3> SUFFICES ASSUME NEW i \in 1..n PROVE j[i] = j[i - 1] \o ss[i]
      OBVIOUS
    <3>1. i \in 0..n /\ i - 1 \in 0..n /\ i # 0 /\ (i - 1 = 0 <=> i = 1)
      BY <1>1
    <3>2. j[i] = e[i] /\ j[i - 1] = IF i = 1 THEN <<>> ELSE e[i - 1]
      BY <3>1
    <3>3. CASE i = 1
      <4>1. e[i] = ss[i] /\ ss[i] \in Seq(S)
        BY <1>1, <2>12, <3>3
      <4>2. <<>> \o ss[i] = ss[i]
        BY <4>1
      <4> QED
        BY <3>2, <3>3, <4>1, <4>2
    <3>4. CASE i # 1
      BY <2>12, <3>2, <3>4
    <3> QED
      BY <3>3, <3>4
  <2> HIDE DEF j
  <2> QED
    BY <2>16, <2>19, <2>20, <2>21 DEF Joining, n
<1> QED
  BY <1>2, <1>3

LEMMA FlattenIs ==
  ASSUME NEW S, NEW ss \in Seq(Seq(S))
  PROVE  Seqs!FlattenSeq(ss) \in Seq(S)
<1>1. PICK h : Joining(h, S, ss)
  BY FlattenFrom
<1>2. Len(ss) \in Nat
  OBVIOUS
<1>3. Len(ss) \in 0..Len(ss)
  BY <1>2
<1> QED
  BY <1>1, <1>3 DEF Joining

LEMMA RowLengthIs ==
  ASSUME NEW w \in Nat, NEW n \in Nat, NEW g \in Groups(w, n), NEW i \in 1..n, NEW c \in Int
  PROVE  RowLength(g, i, c) \in Int
<1>1. Len(g) = n /\ g[i] \in Lines(w)
  BY GroupIs
<1>2. TrimmedLength(g[i]) \in Nat
  BY <1>1, TrimmedIs
<1> QED
  BY <1>2 DEF RowLength

(* A copy from row s to row d of a group.                                  *)
LEMMA CopiedIs ==
  ASSUME NEW w \in Nat, NEW n \in Nat, NEW g \in Groups(w, n), NEW d, NEW dstCol \in Int, NEW s \in 1..n,
         NEW srcCol \in Int, NEW k \in Int
  PROVE  Copied(g, d, dstCol, s, srcCol, k) \in Groups(w, n)
<1>1. PICK l : l = CopyCells(g[d], g[s], srcCol, dstCol, k, d = s)
  OBVIOUS
<1>2. d \in 1..n => l \in Lines(w)
  <2> SUFFICES ASSUME d \in 1..n PROVE l \in Lines(w)
    OBVIOUS
  <2>1. g[d] \in Lines(w) /\ g[s] \in Lines(w)
    BY GroupIs
  <2>2. PICK same \in BOOLEAN : same = (d = s)
    OBVIOUS
  <2>3. CopyCells(g[d], g[s], srcCol, dstCol, k, same) \in Lines(w)
    BY <2>1, CopyCellsLine
  <2> QED
    BY <1>1, <2>2, <2>3
<1>3. Copied(g, d, dstCol, s, srcCol, k) = [g EXCEPT ![d] = l]
  BY <1>1 DEF Copied
<1>4. PICK h : h = [g EXCEPT ![d] = l]
  OBVIOUS
<1>5. h \in Groups(w, n)
  BY <1>2, <1>4, GroupPut
<1> QED
  BY <1>3, <1>4, <1>5

(* More columns.                                                           *)
LEMMA BumpedIs ==
  ASSUME NEW w \in Nat, NEW n \in Nat, NEW g \in Groups(w, n), NEW d \in Nat \ {0}, NEW dstCol \in Int, NEW c \in Int
  PROVE  Bumped(g, d, dstCol, c).g \in Groups(w, n) /\ Bumped(g, d, dstCol, c).col \in Int
<1> DEFINE cond == dstCol = 0 /\ d > 1 /\ g[d - 1].cells[c - 1].w = 2
<1>1. CASE ~cond
  BY <1>1 DEF Bumped
<1>2. CASE cond
  <2>1. PICK h : h = Copied(g, d, 0, d - 1, c - 1, 1)
    OBVIOUS
  <2>2. h \in Groups(w, n)
    <3>1. CASE d \in 1..n
      <4>1. d - 1 \in 1..n /\ c - 1 \in Int
        BY <1>2, <3>1
      <4> QED
        BY <2>1, <4>1, CopiedIs
    <3>2. CASE d \notin 1..n
      <4>1. h = [g EXCEPT ![d] = CopyCells(g[d], g[d - 1], c - 1, 0, 1, d = d - 1)]
        BY <2>1 DEF Copied
      <4>2. PICK l : l = CopyCells(g[d], g[d - 1], c - 1, 0, 1, d = d - 1)
        OBVIOUS
      <4>3. [g EXCEPT ![d] = l] \in Groups(w, n)
        BY <3>2, GroupPut
      <4> QED
        BY <4>1, <4>2, <4>3
    <3> QED
      BY <3>1, <3>2
  <2>3. PICK l : l = SetCell(h[d - 1], c - 1, Null, 0)
    OBVIOUS
  <2>4. d - 1 \in 1..n => l \in Lines(w)
    BY <2>2, <2>3, GroupIs, SetCellLine, CellParts
  <2>5. PICK j : j = [h EXCEPT ![d - 1] = l]
    OBVIOUS
  <2>6. j \in Groups(w, n)
    BY <2>2, <2>4, <2>5, GroupPut
  <2>7. j = [h EXCEPT ![d - 1] = SetCell(@, c - 1, Null, 0)]
    BY <2>3, <2>5
  <2>8. Bumped(g, d, dstCol, c) = [g |-> j, col |-> 1]
    BY <1>2, <2>1, <2>7 DEF Bumped
  <2> QED
    BY <2>6, <2>8
<1> QED
  BY <1>1, <1>2

Unwrapping(w, n) == [g : Groups(w, n), d : Nat \ {0}, dstCol : Int, s : Nat \ {0}, srcCol : Int]

(* A round of the copies upwards, and all of them.                         *)
LEMMA UnwrapIs ==
  ASSUME cols \in Int, NEW w \in Nat, NEW n \in Nat, NEW l \in Unwrapping(w, n), NEW c \in Int
  PROVE  Unwrap(l, c) \in Unwrapping(w, n)
<1>1. /\ l.g \in Groups(w, n) /\ l.d \in Nat \ {0} /\ l.dstCol \in Int
      /\ l.s \in Nat \ {0} /\ l.srcCol \in Int
  BY DEF Unwrapping
<1>2. Len(l.g) = n
  BY <1>1, GroupIs
<1>3. CASE l.s > n
  BY <1>2, <1>3 DEF Unwrap
<1>4. CASE ~(l.s > n)
  <2> DEFINE len == RowLength(l.g, l.s, cols)
             k == Min({len - l.srcCol, c - l.dstCol})
             full == l.dstCol + k = c
             done == l.srcCol + k = len
             d == IF full THEN l.d + 1 ELSE l.d
             h == Copied(l.g, l.d, l.dstCol, l.s, l.srcCol, k)
             col == IF full THEN 0 ELSE l.dstCol + k
             b == Bumped(h, d, col, c)
  <2>1. l.s \in 1..n
    BY <1>1, <1>4
  <2>2. len \in Int
    BY <1>1, <2>1, RowLengthIs
  <2>3. k \in Int
    <3> HIDE DEF len
    <3>1. len - l.srcCol \in Int /\ c - l.dstCol \in Int
      BY <1>1, <2>2
    <3> QED
      BY <3>1, MinOfTwo
  <2> HIDE DEF k, len
  <2>4. h \in Groups(w, n)
    BY <1>1, <2>1, <2>3, CopiedIs
  <2>5. d \in Nat \ {0} /\ col \in Int
    BY <1>1, <2>3
  <2> HIDE DEF h, d, col
  <2>6. b.g \in Groups(w, n) /\ b.col \in Int
    BY <2>4, <2>5, BumpedIs
  <2> DEFINE s == IF done THEN l.s + 1 ELSE l.s
             srcCol == IF done THEN 0 ELSE l.srcCol + k
  <2>7. s \in Nat \ {0} /\ srcCol \in Int
    BY <1>1, <2>3
  <2> HIDE DEF b, s, srcCol
  <2>8. Unwrap(l, c) = [g |-> b.g, d |-> d, dstCol |-> b.col, s |-> s, srcCol |-> srcCol]
    BY <1>2, <1>4 DEF Unwrap, b, s, srcCol, d, h, k, len, col
  <2> QED
    BY <2>5, <2>6, <2>7, <2>8 DEF Unwrapping
<1> QED
  BY <1>3, <1>4

LEMMA UnwrappedIs ==
  ASSUME cols \in Int, NEW w \in Nat, NEW n \in Nat \ {0}, NEW g \in Groups(w, n), NEW c \in Int
  PROVE  Unwrapped(g, c).g \in Groups(w, n) /\ Unwrapped(g, c).d \in Nat
<1> DEFINE start == [g |-> g, d |-> 1, dstCol |-> RowLength(g, 1, cols), s |-> 2, srcCol |-> 0]
           U == Unwrapping(w, n)
           m == 2 * n
           step == [k \in 1..m |-> [l \in U |-> Unwrap(l, c)]]
<1>1. m \in Nat /\ Len(g) = n
  BY GroupIs
<1>2. start \in U
  <2>1. RowLength(g, 1, cols) \in Int
    BY RowLengthIs
  <2> QED
    BY <2>1 DEF Unwrapping
<1>3. \A l \in U : Unwrap(l, c) \in U
  BY UnwrapIs
<1>4. step \in [1..m -> [U -> U]] /\ \A k \in 1..m, l \in U : step[k][l] = Unwrap(l, c)
  BY <1>3
<1> HIDE DEF step, m, U, start
<1>5. PICK f : Rounds(f, start, step, m) /\ \A i \in 0..m : f[i] \in U
  BY <1>1, <1>2, <1>4, RoundsExist
<1>6. f = [k \in 0..m |-> IF k = 0 THEN start ELSE step[k][f[k - 1]]]
  BY <1>5 DEF Rounds
<1>7. \A k \in 0..m : k # 0 => k \in 1..m /\ k - 1 \in 0..m
  BY <1>1
<1>8. \A k \in 0..m : k # 0 => step[k][f[k - 1]] = Unwrap(f[k - 1], c)
  BY <1>4, <1>5, <1>7
<1>9. f = [k \in 0..m |-> IF k = 0 THEN start ELSE Unwrap(f[k - 1], c)]
  BY <1>6, <1>8
<1>10. PICK e : e = CHOOSE h : h = [k \in 0..m |-> IF k = 0 THEN start ELSE Unwrap(h[k - 1], c)]
  OBVIOUS
<1>11. e = [k \in 0..m |-> IF k = 0 THEN start ELSE Unwrap(e[k - 1], c)]
  BY <1>9, <1>10
<1>12. e[0] = start /\ \A k \in 1..m : e[k] = Unwrap(e[k - 1], c)
  <2>1. \A k \in 0..m : e[k] = IF k = 0 THEN start ELSE Unwrap(e[k - 1], c)
    BY <1>11
  <2>2. 0 \in 0..m /\ \A k \in 1..m : k \in 0..m /\ k # 0
    BY <1>1
  <2> QED
    BY <2>1, <2>2
<1>13. e[m] \in U
  <2>1. e[0] \in U /\ \A k \in 1..m : e[k - 1] \in U => e[k] \in U
    BY <1>2, <1>3, <1>12
  <2>2. m \in 0..m
    BY <1>1
  <2> QED
    BY <1>1, <2>1, <2>2, RoundsStay
<1>14. PICK last : last = e[m]
  OBVIOUS
<1>15. last.g \in Groups(w, n) /\ last.d \in Nat
  BY <1>13, <1>14 DEF U, Unwrapping
<1>16. PICK h : h = [last.g EXCEPT ![last.d] = ReplaceCells(@, last.dstCol, c)]
  OBVIOUS
<1>17. h \in Groups(w, n)
  <2>1. PICK l : l = ReplaceCells(last.g[last.d], last.dstCol, c)
    OBVIOUS
  <2>2. last.d \in 1..n => l \in Lines(w)
    BY <1>15, <2>1, GroupIs, ReplaceCellsLine
  <2>3. h = [last.g EXCEPT ![last.d] = l]
    BY <1>16, <2>1
  <2> QED
    BY <1>15, <2>2, <2>3, GroupPut
<1>18. Unwrapped(g, c) = [g |-> h, d |-> last.d]
  BY <1>1, <1>10, <1>14, <1>16 DEF Unwrapped, m, start
<1> QED
  BY <1>15, <1>17, <1>18

(* The rows of a group are rows of the list.                               *)
LEMMA RowsAre ==
  ASSUME NEW ls, Len(ls) \in Nat, NEW i \in 0..(Len(ls) - 1)
  PROVE  FirstRow(ls, i) \in 0..i /\ LastRow(ls, i) \in i..(Len(ls) - 1)
<1> DEFINE F == {j \in 0..i : j = 0 \/ ~ls[j + 1].wrapped}
           L == {j \in i..(Len(ls) - 1) : j = Len(ls) - 1 \/ ~ls[j + 2].wrapped}
<1>1. F \in SUBSET (0..i) /\ 0 \in F
  OBVIOUS
<1>2. L \in SUBSET (i..(Len(ls) - 1)) /\ Len(ls) - 1 \in L
  OBVIOUS
<1>3. Max(F) \in F
  <2> HIDE DEF F
  <2>1. 0 \in Int /\ i \in Int
    OBVIOUS
  <2> QED
    BY <1>1, <2>1, MaxIn
<1>4. Min(L) \in L
  <2> HIDE DEF L
  <2>1. i \in Int /\ Len(ls) - 1 \in Int
    OBVIOUS
  <2> QED
    BY <1>2, <2>1, MinIn
<1>5. FirstRow(ls, i) = Max(F) /\ LastRow(ls, i) = Min(L)
  BY DEF FirstRow, LastRow
<1> HIDE DEF F, L
<1> QED
  BY <1>1, <1>2, <1>3, <1>4, <1>5

LEMMA GroupFrom ==
  ASSUME NEW w \in Nat, NEW ls \in Seq(Lines(w)), NEW i \in 1..Len(ls), NEW j \in i..Len(ls)
  PROVE  SubSeq(ls, i, j) \in Groups(w, j - i + 1)
<1>1. SubSeq(ls, i, j) \in Seq(Lines(w)) /\ Len(SubSeq(ls, i, j)) = j - i + 1
  BY SubSeqProperties
<1> QED
  BY <1>1, GroupOf

(* Of a group, of all groups.                                              *)
LEMMA LargerGroupIs ==
  ASSUME cols \in Int, NEW w \in Nat, NEW n \in Nat \ {0}, NEW g \in Groups(w, n), NEW c \in Int
  PROVE  LargerGroup(g, c) \in Seq(Lines(w)) /\ Len(LargerGroup(g, c)) \in 1..n
<1> DEFINE u == Unwrapped(g, c)
           used == {i \in 1..Len(g) : i = 1 \/ (i <= u.d /\ TrimmedLength(u.g[i]) # 0)}
<1>1. Len(g) = n
  BY GroupIs
<1>2. u.g \in Groups(w, n) /\ n \in Nat
  BY UnwrappedIs
<1> HIDE DEF u
<1>3. u.g \in Seq(Lines(w)) /\ Len(u.g) = n
  BY <1>2, GroupIs
<1>4. used \in SUBSET (1..n) /\ 1 \in used
  BY <1>1
<1>5. Max(used) \in 1..n
  <2> HIDE DEF used
  <2>1. 1 \in Int /\ n \in Int
    OBVIOUS
  <2>2. Max(used) \in used
    BY <1>4, <2>1, MaxIn
  <2> QED
    BY <1>4, <2>2
<1>6. LargerGroup(g, c) = SubSeq(u.g, 1, Max(used))
  BY DEF LargerGroup, u
<1> HIDE DEF used
<1>7. PICK m : m = Max(used)
  OBVIOUS
<1>8. SubSeq(u.g, 1, m) \in Seq(Lines(w)) /\ Len(SubSeq(u.g, 1, m)) = m
  <2>1. m \in Nat /\ m <= Len(u.g) /\ 1 \in 1..(Len(u.g) + 1) /\ m \in 1..(Len(u.g) + 1)
    BY <1>3, <1>5, <1>7
  <2> QED
    BY <1>3, <2>1, SubSeqProperties
<1> QED
  BY <1>5, <1>6, <1>7, <1>8

LEMMA LargerAtIs ==
  ASSUME cols \in Int, NEW w \in Nat, NEW ls \in Seq(Lines(w)), NEW i \in 0..(Len(ls) - 1), NEW cursor, NEW c \in Int
  PROVE  /\ LargerAt(ls, i, cursor, c) \in Seq(Lines(w))
         /\ Len(LargerAt(ls, i, cursor, c)) \in 1..(LastRow(ls, i) - i + 1)
<1>1. PICK last : last = LastRow(ls, i)
  OBVIOUS
<1>2. last \in i..(Len(ls) - 1) /\ Len(ls) \in Nat
  BY <1>1, RowsAre
<1>3. PICK g : g = SubSeq(ls, i + 1, last + 1)
  OBVIOUS
<1>4. i + 1 \in 1..Len(ls) /\ last + 1 \in (i + 1)..Len(ls) /\ (last + 1) - (i + 1) + 1 = last - i + 1
  BY <1>2
<1>5. g \in Groups(w, (last + 1) - (i + 1) + 1)
  BY <1>3, <1>4, GroupFrom
<1>6. last - i + 1 \in Nat \ {0}
  BY <1>2
<1>7. g \in Groups(w, last - i + 1)
  BY <1>4, <1>5
<1>8. /\ g \in Seq(Lines(w)) /\ Len(g) = last - i + 1
      /\ LargerGroup(g, c) \in Seq(Lines(w)) /\ Len(LargerGroup(g, c)) \in 1..(last - i + 1)
  BY <1>6, <1>7, GroupIs, LargerGroupIs
<1>9. Len(g) \in 1..(last - i + 1)
  BY <1>6, <1>8
<1>10. LargerAt(ls, i, cursor, c) = IF last = i \/ cursor \in i..last THEN g ELSE LargerGroup(g, c)
  BY <1>1, <1>3 DEF LargerAt
<1> QED
  BY <1>1, <1>8, <1>9, <1>10

LEMMA LargerLinesAre ==
  ASSUME cols \in Int, NEW w \in Nat, NEW ls \in Seq(Lines(w)), NEW cursor, NEW c \in Int
  PROVE  LargerLines(ls, cursor, c) \in Seq(Lines(w))
<1> DEFINE ss == [i \in DOMAIN ls |-> IF i > 1 /\ ls[i].wrapped THEN <<>> ELSE LargerAt(ls, i - 1, cursor, c)]
<1>1. DOMAIN ls = 1..Len(ls) /\ Len(ls) \in Nat
  OBVIOUS
<1>2. \A i \in 1..Len(ls) : LargerAt(ls, i - 1, cursor, c) \in Seq(Lines(w))
  <2> SUFFICES ASSUME NEW i \in 1..Len(ls) PROVE LargerAt(ls, i - 1, cursor, c) \in Seq(Lines(w))
    OBVIOUS
  <2>1. i - 1 \in 0..(Len(ls) - 1)
    OBVIOUS
  <2> QED
    BY <2>1, LargerAtIs
<1>3. <<>> \in Seq(Lines(w))
  OBVIOUS
<1>4. ss \in [1..Len(ls) -> Seq(Lines(w))]
  BY <1>1, <1>2, <1>3
<1>5. ss \in Seq(Seq(Lines(w)))
  <2> HIDE DEF ss
  <2> QED
    BY <1>1, <1>4, SeqDef
<1>6. LargerLines(ls, cursor, c) = Seqs!FlattenSeq(ss)
  BY DEF LargerLines
<1> HIDE DEF ss
<1> QED
  BY <1>5, <1>6, FlattenIs

LEMMA SameRows == ASSUME NEW n \in Int, NEW S, NEW e \in S PROVE [i \in 1..n |-> e] \in Seq(S)
<1>1. CASE n \in Nat
  <2>1. [i \in 1..n |-> e] \in [1..n -> S]
    OBVIOUS
  <2> QED
    BY <1>1, <2>1, SeqDef
<1>2. CASE n \notin Nat
  <2>1. 1..n = 1..0 /\ 0 \in Nat
    BY <1>2
  <2>2. [i \in 1..0 |-> e] \in [1..0 -> S]
    OBVIOUS
  <2>3. [i \in 1..0 |-> e] \in Seq(S)
    BY <2>1, <2>2, SeqDef
  <2> QED
    BY <2>1, <2>3
<1> QED
  BY <1>1, <1>2

LEMMA BlanksAre == ASSUME NEW n \in Int, NEW w \in Nat PROVE Blanks(n, w) \in Seq(Lines(w))
<1>1. Blank(w, FALSE) \in Lines(w)
  BY BlankLine
<1> QED
  BY <1>1, SameRows DEF Blanks

(* More columns: lines of the new width, the cursor in the window.         *)
LEMMA ReflowedLargerIs ==
  ASSUME cols \in Int, NEW c \in Nat, NEW r \in Nat \ {0}, NEW nb \in Buffers(c, r)
  PROVE  ReflowedLarger(nb, c, r) \in Buffers(c, r)
<1> DEFINE kept == LargerLines(nb.lines, nb.ybase + nb.y, c)
           removed == Len(nb.lines) - Len(kept)
           over == Max({0, removed - nb.ybase})
           n == Min({over, Max({0, r - Len(kept)})})
           ybase == Max({0, nb.ybase - removed})
           y == Max({0, nb.y - over})
<1>1. kept \in Seq(Lines(c))
  BY BufferParts, LargerLinesAre
<1>2. Len(kept) \in Nat
  BY <1>1, LenProperties
<1> HIDE DEF kept
<1>3. removed \in Int
  BY <1>2, BufferParts
<1> HIDE DEF removed
<1>4. removed - nb.ybase \in Int /\ nb.ybase - removed \in Int /\ r - Len(kept) \in Int
  BY <1>2, <1>3, BufferParts
<1>5. over \in Int /\ ybase \in Int /\ Max({0, r - Len(kept)}) \in Int
  BY <1>4, MaxOfTwo
<1> HIDE DEF over, ybase
<1>6. n \in Int
  BY <1>5, MinOfTwo
<1>7. nb.y - over \in Int
  BY <1>5, BufferParts
<1>8. y \in Int /\ y < r
  <2>1. over >= 0
    BY <1>4, MaxOfTwo DEF over
  <2>2. nb.y < r
    BY BufferParts
  <2>3. y = IF 0 <= nb.y - over THEN nb.y - over ELSE 0
    BY <1>7, MaxOfTwo
  <2> HIDE DEF y
  <2> QED
    BY <1>5, <1>7, <2>1, <2>2, <2>3, BufferParts
<1> HIDE DEF n, y
<1>9. PICK s : s = kept \o Blanks(n, c)
  OBVIOUS
<1>10. s \in Seq(Lines(c))
  BY <1>1, <1>6, <1>9, BlanksAre, ConcatProperties
<1>11. ReflowedLarger(nb, c, r) = [nb EXCEPT !.lines = s, !.ybase = ybase, !.y = y]
  BY <1>9 DEF ReflowedLarger, kept, removed, over, n, ybase, y
<1> QED
  BY <1>5, <1>8, <1>10, <1>11 DEF Buffers

(* Fewer columns: the lengths of the new rows.                             *)
LEMMA RowLengthNat ==
  ASSUME NEW w \in Nat, NEW n \in Nat, NEW g \in Groups(w, n), NEW i \in 1..n, NEW c \in Nat \ {0}
  PROVE  RowLength(g, i, c) \in Nat
<1>1. Len(g) = n /\ g[i] \in Lines(w)
  BY GroupIs
<1>2. TrimmedLength(g[i]) \in Nat
  BY <1>1, TrimmedIs
<1> QED
  BY <1>2 DEF RowLength

Summing(f, g, n) == f = [i \in 0..n |-> IF i = 0 THEN 0 ELSE f[i - 1] + RowLength(g, i, cols)]
Sums(f, g, n) ==
  /\ f \in [0..n -> Nat] /\ Needed(g) = f[n]
  /\ f[0] = 0 /\ \A i \in 1..n : f[i] = f[i - 1] + RowLength(g, i, cols)
LEMMA NeededIs ==
  ASSUME cols \in Nat \ {0}, NEW w \in Nat, NEW n \in Nat, NEW g \in Groups(w, n)
  PROVE  \E f : Sums(f, g, n)
<1> DEFINE step == [i \in 1..n |-> [x \in Nat |-> x + RowLength(g, i, cols)]]
<1>1. \A i \in 1..n : RowLength(g, i, cols) \in Nat
  BY RowLengthNat
<1>2. step \in [1..n -> [Nat -> Nat]]
  BY <1>1
<1>3. \A i \in 1..n, x \in Nat : step[i][x] = x + RowLength(g, i, cols)
  OBVIOUS
<1> HIDE DEF step
<1>4. PICK f : Rounds(f, 0, step, n) /\ \A i \in 0..n : f[i] \in Nat
  BY <1>2, RoundsExist
<1>5. f = [i \in 0..n |-> IF i = 0 THEN 0 ELSE step[i][f[i - 1]]]
  BY <1>4 DEF Rounds
<1>6. \A i \in 0..n : i # 0 => i \in 1..n /\ i - 1 \in 0..n
  OBVIOUS
<1>7. \A i \in 0..n : i # 0 => step[i][f[i - 1]] = f[i - 1] + RowLength(g, i, cols)
  BY <1>3, <1>4, <1>6
<1>8. f = [i \in 0..n |-> IF i = 0 THEN 0 ELSE f[i - 1] + RowLength(g, i, cols)]
  BY <1>5, <1>7
<1>9. Summing(f, g, n)
  BY <1>8 DEF Summing
<1>10. PICK e : e = CHOOSE h : Summing(h, g, n)
  OBVIOUS
<1>11. Summing(e, g, n)
  BY <1>9, <1>10
<1>12. e = [i \in 0..n |-> IF i = 0 THEN 0 ELSE e[i - 1] + RowLength(g, i, cols)]
  BY <1>11 DEF Summing
<1>13. e[0] = 0 /\ \A i \in 1..n : e[i] = e[i - 1] + RowLength(g, i, cols)
  <2>1. \A i \in 0..n : e[i] = IF i = 0 THEN 0 ELSE e[i - 1] + RowLength(g, i, cols)
    BY <1>12
  <2>2. 0 \in 0..n /\ \A i \in 1..n : i \in 0..n /\ i # 0
    OBVIOUS
  <2> QED
    BY <2>1, <2>2
<1>14. \A i \in 0..n : e[i] \in Nat
  <2>1. e[0] \in Nat /\ \A i \in 1..n : e[i - 1] \in Nat => e[i] \in Nat
    BY <1>1, <1>13
  <2> QED
    BY <2>1, RoundsStay
<1>15. e \in [0..n -> Nat]
  <2>1. DOMAIN e = 0..n /\ e = [i \in 0..n |-> e[i]]
    BY <1>12
  <2> QED
    BY <1>14, <2>1
<1>16. Needed(g) = e[n]
  <2>1. Len(g) = n
    BY GroupIs
  <2> QED
    BY <1>10, <2>1 DEF Needed, Summing
<1> QED
  BY <1>13, <1>15, <1>16 DEF Sums

(* What has been measured ends in a row, until there is less than a row left. *)
Measuring(f, n) ==
  {l \in [lens : Seq(Nat), left : Nat, line : 1..n, col : Nat] :
     l.left = 0 \/ f[l.line - 1] + l.col = f[n] - l.left}

LEMMA FromOne ==
  \A n \in Nat : \A j \in 0..(n - 1) : \A i \in 0..j : i + 1 \in 1..n /\ j + 1 \in (i + 1)..n
  OBVIOUS

LEMMA FromZero == \A n \in Nat : \A i \in 1..n : i \in 0..n /\ i - 1 \in 0..n
  OBVIOUS

LEMMA NextLengthIs ==
  ASSUME NEW w \in Nat, NEW n \in Nat, NEW g \in Groups(w, n), NEW f \in [0..n -> Nat], cols \in Nat \ {0},
         \A i \in 1..n : f[i] = f[i - 1] + RowLength(g, i, cols), NEW c \in Nat \ {0}, NEW l \in Measuring(f, n)
  PROVE  NextLength(l, g, c) \in Measuring(f, n)
<1>1. /\ l.lens \in Seq(Nat) /\ l.left \in Nat /\ l.line \in 1..n /\ l.col \in Nat
      /\ l.left = 0 \/ f[l.line - 1] + l.col = f[n] - l.left
  BY DEF Measuring
<1>2. CASE l.left = 0
  BY <1>2 DEF NextLength
<1>3. CASE l.left # 0 /\ l.left < c
  <2>1. PICK s : s = Append(l.lens, l.left)
    OBVIOUS
  <2>2. s \in Seq(Nat)
    BY <1>1, <2>1
  <2>3. PICK x : x = [l EXCEPT !.lens = s, !.left = 0]
    OBVIOUS
  <2>4. NextLength(l, g, c) = x
    BY <1>3, <2>1, <2>3 DEF NextLength
  <2>5. l \in [lens : Seq(Nat), left : Nat, line : 1..n, col : Nat]
    BY DEF Measuring
  <2>6. x \in [lens : Seq(Nat), left : Nat, line : 1..n, col : Nat] /\ x.left = 0
    BY <2>2, <2>3, <2>5
  <2> QED
    BY <2>4, <2>6 DEF Measuring
<1>4. CASE l.left # 0 /\ ~(l.left < c)
  <2> DEFINE len == RowLength(g, l.line, cols)
             over == l.col + c > len
             line == IF over THEN l.line + 1 ELSE l.line
             col == IF over THEN l.col + c - len ELSE l.col + c
             wide == CellAt(g[line], col - 1).w = 2
             k == IF wide THEN c - 1 ELSE c
             after == IF wide THEN col - 1 ELSE col
  <2>1. len \in Nat
    BY <1>1, RowLengthNat
  <2>2. f[l.line] = f[l.line - 1] + len /\ l.line \in 0..n /\ l.line - 1 \in 0..n
    <3>1. l.line \in 1..n
      BY <1>1
    <3>2. \A i \in 1..n : f[i] = f[i - 1] + RowLength(g, i, cols)
      OBVIOUS
    <3>3. f[l.line] = f[l.line - 1] + len
      BY <3>1, <3>2, ZenonT(20)
    <3>4. l.line \in 0..n /\ l.line - 1 \in 0..n
      BY <3>1, FromZero, ZenonT(20)
    <3> QED
      BY <3>3, <3>4
  <2>3. f[l.line] \in Nat /\ f[l.line - 1] \in Nat /\ f[n] \in Nat
    <3>1. n \in 0..n
      OBVIOUS
    <3> QED
      BY <2>2, <3>1
  <2>4. f[l.line - 1] + l.col = f[n] - l.left
    BY <1>1, <1>4
  <2> HIDE DEF len
  <2>a. PICK p : p = l.left
    OBVIOUS
  <2>b. PICK q : q = l.col
    OBVIOUS
  <2>c. PICK i : i = l.line
    OBVIOUS
  <2>d. PICK m : m = len
    OBVIOUS
  <2>e. p \in Nat /\ q \in Nat /\ i \in 1..n /\ m \in Nat /\ p >= c
    BY <1>1, <1>4, <2>1, <2>a, <2>b, <2>c, <2>d
  <2>f. PICK e : e = f[i - 1]
    OBVIOUS
  <2>g. PICK v : v = f[n]
    OBVIOUS
  <2>h. e \in Nat /\ v \in Nat /\ e + q = v - p /\ f[i] = e + m
    BY <2>2, <2>3, <2>4, <2>a, <2>b, <2>c, <2>d, <2>f, <2>g
  <2>i. over = (q + c > m) /\ line = (IF q + c > m THEN i + 1 ELSE i) /\ col = IF q + c > m THEN q + c - m ELSE q + c
    BY <2>b, <2>c, <2>d
  <2> HIDE DEF over, line, col
  <2>5. col \in Nat \ {0} /\ line \in 1..(n + 1) /\ line - 1 \in 0..n
    BY <2>e, <2>i
  <2>j. PICK u : u = f[line - 1]
    OBVIOUS
  <2>6. u \in Nat /\ u + col = v - p + c
    <3>1. CASE q + c > m
      <4>1. line - 1 = i /\ col = q + c - m
        BY <2>e, <2>i, <3>1
      <4>2. u = e + m
        BY <2>h, <2>j, <4>1
      <4> QED
        BY <2>e, <2>h, <4>1, <4>2
    <3>2. CASE ~(q + c > m)
      <4>1. line = i /\ col = q + c
        BY <2>i, <3>2
      <4>2. u = e
        BY <2>f, <2>j, <4>1
      <4> QED
        BY <2>e, <2>h, <4>1, <4>2
    <3> QED
      BY <3>1, <3>2
  <2>7. line # n + 1
    <3> SUFFICES ASSUME line = n + 1 PROVE FALSE
      OBVIOUS
    <3>1. line - 1 = n
      OBVIOUS
    <3>2. u = v
      BY <2>g, <2>j, <3>1
    <3> QED
      BY <2>5, <2>6, <2>e, <2>h, <3>2
  <2>8. line \in 1..n
    BY <2>5, <2>7
  <2>9. k \in Nat /\ after \in Nat /\ p - k \in Nat
    BY <2>5, <2>e
  <2>10. u + after = v - (p - k)
    BY <2>5, <2>6, <2>e, <2>h
  <2> HIDE DEF k, after
  <2>11. PICK s : s = Append(l.lens, k)
    OBVIOUS
  <2>12. s \in Seq(Nat)
    BY <1>1, <2>9, <2>11
  <2>13. PICK x : x = [lens |-> s, left |-> p - k, line |-> line, col |-> after]
    OBVIOUS
  <2>14. NextLength(l, g, c) = x
    BY <1>4, <2>11, <2>13, <2>a DEF NextLength, after, k, over, line, col, len
  <2>15. x \in [lens : Seq(Nat), left : Nat, line : 1..n, col : Nat]
    BY <2>8, <2>9, <2>12, <2>13
  <2>16. x.line = line /\ x.col = after /\ x.left = p - k
    BY <2>13
  <2>17. f[x.line - 1] + x.col = f[n] - x.left
    BY <2>10, <2>16, <2>g, <2>j
  <2> QED
    BY <2>14, <2>15, <2>17 DEF Measuring
<1> QED
  BY <1>2, <1>3, <1>4

(* As many rounds as there are cells.                                      *)
Measured(e, f, g, n, c) ==
  /\ Sums(f, g, n) /\ NewLengths(g, c) = e[f[n]].lens
  /\ e[0] = [lens |-> <<>>, left |-> f[n], line |-> 1, col |-> 0]
  /\ \A k \in 1..f[n] : e[k] = NextLength(e[k - 1], g, c)
  /\ \A k \in 0..f[n] : e[k] \in Measuring(f, n)
LEMMA MeasuredIs ==
  ASSUME NEW w \in Nat, NEW n \in Nat \ {0}, NEW g \in Groups(w, n), cols \in Nat \ {0}, NEW c \in Nat \ {0}
  PROVE  \E e, f : Measured(e, f, g, n, c)
<1>0. PICK f : Sums(f, g, n)
  BY NeededIs
<1>1. /\ f \in [0..n -> Nat] /\ Needed(g) = f[n]
      /\ f[0] = 0 /\ \A i \in 1..n : f[i] = f[i - 1] + RowLength(g, i, cols)
  BY <1>0 DEF Sums
<1> DEFINE m == Needed(g)
           M == Measuring(f, n)
           start == [lens |-> <<>>, left |-> m, line |-> 1, col |-> 0]
           step == [k \in 1..m |-> [l \in M |-> NextLength(l, g, c)]]
<1>2. m \in Nat /\ n \in Nat /\ n \in 0..n /\ 0 \in 0..n
  BY <1>1
<1>3. start \in M
  <2>1. start \in [lens : Seq(Nat), left : Nat, line : 1..n, col : Nat]
    BY <1>2
  <2>2. f[1 - 1] + 0 = f[n] - m
    BY <1>1, <1>2
  <2>3. start.line = 1 /\ start.col = 0 /\ start.left = m
    OBVIOUS
  <2> HIDE DEF start, m
  <2> QED
    BY <2>1, <2>2, <2>3 DEF Measuring
<1>4. \A l \in M : NextLength(l, g, c) \in M
  BY <1>1, <1>2, NextLengthIs
<1>5. step \in [1..m -> [M -> M]] /\ \A k \in 1..m, l \in M : step[k][l] = NextLength(l, g, c)
  BY <1>4
<1> HIDE DEF step, m, M, start
<1>6. PICK h : Rounds(h, start, step, m) /\ \A i \in 0..m : h[i] \in M
  BY <1>2, <1>3, <1>5, RoundsExist
<1>7. h = [k \in 0..m |-> IF k = 0 THEN start ELSE step[k][h[k - 1]]]
  BY <1>6 DEF Rounds
<1>8. \A k \in 0..m : k # 0 => k \in 1..m /\ k - 1 \in 0..m
  BY <1>2
<1>9. \A k \in 0..m : k # 0 => step[k][h[k - 1]] = NextLength(h[k - 1], g, c)
  BY <1>5, <1>6, <1>8
<1>10. h = [k \in 0..m |-> IF k = 0 THEN start ELSE NextLength(h[k - 1], g, c)]
  BY <1>7, <1>9
<1>11. PICK e : e = CHOOSE z : z = [k \in 0..m |-> IF k = 0 THEN start ELSE NextLength(z[k - 1], g, c)]
  OBVIOUS
<1>12. e = [k \in 0..m |-> IF k = 0 THEN start ELSE NextLength(e[k - 1], g, c)]
  BY <1>10, <1>11
<1>13. e[0] = start /\ \A k \in 1..m : e[k] = NextLength(e[k - 1], g, c)
  <2>1. \A k \in 0..m : e[k] = IF k = 0 THEN start ELSE NextLength(e[k - 1], g, c)
    BY <1>12
  <2>2. 0 \in 0..m /\ \A k \in 1..m : k \in 0..m /\ k # 0
    BY <1>2
  <2> QED
    BY <2>1, <2>2
<1>14. \A k \in 0..m : e[k] \in M
  <2>1. e[0] \in M /\ \A k \in 1..m : e[k - 1] \in M => e[k] \in M
    BY <1>3, <1>4, <1>13
  <2> QED
    BY <1>2, <2>1, RoundsStay
<1>15. NewLengths(g, c) = e[m].lens
  BY <1>11 DEF NewLengths, m, start
<1>16. start = [lens |-> <<>>, left |-> m, line |-> 1, col |-> 0]
  BY DEF start
<1>17. m = f[n]
  BY <1>1 DEF m
<1> QED
  BY <1>0, <1>13, <1>14, <1>15, <1>16, <1>17 DEF M, Measured

LEMMA NewLengthsAre ==
  ASSUME NEW w \in Nat, NEW n \in Nat \ {0}, NEW g \in Groups(w, n), cols \in Nat \ {0}, NEW c \in Nat \ {0}
  PROVE  NewLengths(g, c) \in Seq(Nat)
<1>1. PICK e, f : Measured(e, f, g, n, c)
  BY MeasuredIs
<1>2. f[n] \in Nat
  BY <1>1 DEF Measured, Sums
<1>3. e[f[n]] \in Measuring(f, n) /\ NewLengths(g, c) = e[f[n]].lens
  <2>1. f[n] \in 0..f[n]
    BY <1>2
  <2> QED
    BY <1>1, <2>1 DEF Measured
<1> QED
  BY <1>3 DEF Measuring

(* The copies from the last cell to the first.                             *)
Wrapping(w, n, top) == [g : Groups(w, n), d : {i \in Int : i <= top}, dstCol : Int, s : 0..n, srcCol : Int]

(* A round of the copies downwards, and all of them.                       *)
LEMMA WrapIs ==
  ASSUME cols \in Int, NEW w \in Nat, NEW n \in Nat \ {0}, NEW lens \in Seq(Nat),
         NEW l \in Wrapping(w, n, Len(lens))
  PROVE  Wrap(l, lens) \in Wrapping(w, n, Len(lens))
<1> DEFINE top == Len(lens)
<1>1. /\ l.g \in Groups(w, n) /\ l.d \in Int /\ l.d <= top /\ l.dstCol \in Int
      /\ l.s \in 0..n /\ l.srcCol \in Int
  BY DEF Wrapping
<1>2. top \in Nat /\ \A i \in 1..top : lens[i] \in Nat
  OBVIOUS
<1> HIDE DEF top
<1>3. CASE l.s = 0
  BY <1>3 DEF Wrap
<1>4. CASE l.s # 0
  <2> DEFINE k == Min({l.srcCol, l.dstCol})
             h == Copied(l.g, l.d, l.dstCol - k, l.s, l.srcCol - k, k)
             d == IF l.dstCol = k THEN l.d - 1 ELSE l.d
             dstCol == IF l.dstCol # k THEN l.dstCol - k ELSE IF l.d > 1 THEN lens[l.d - 1] ELSE 0
             s == IF l.srcCol = k THEN l.s - 1 ELSE l.s
             i == Max({l.s - 1, 1})
             srcCol == IF l.srcCol # k THEN l.srcCol - k ELSE RowLength(h, i, cols)
  <2>1. l.s \in 1..n
    BY <1>1, <1>4
  <2>2. k \in Int
    <3>1. l.srcCol \in Int /\ l.dstCol \in Int
      BY <1>1
    <3> QED
      BY <3>1, MinOfTwo
  <2> HIDE DEF k
  <2>3. h \in Groups(w, n)
    <3>1. l.dstCol - k \in Int /\ l.srcCol - k \in Int
      BY <1>1, <2>2
    <3>2. l.g \in Groups(w, n) /\ n \in Nat
      BY <1>1
    <3> QED
      BY <2>1, <2>2, <3>1, <3>2, CopiedIs
  <2> HIDE DEF h
  <2>4. i \in 1..n
    <3>1. l.s - 1 \in Int /\ l.s - 1 <= n /\ 1 <= n
      BY <2>1
    <3>2. i = IF l.s - 1 <= 1 THEN 1 ELSE l.s - 1
      BY <3>1, MaxOfTwo
    <3> HIDE DEF i
    <3> QED
      BY <3>1, <3>2
  <2> HIDE DEF i
  <2>5. RowLength(h, i, cols) \in Int
    BY <2>3, <2>4, RowLengthIs
  <2>6. srcCol \in Int
    BY <1>1, <2>2, <2>5
  <2>7. s \in 0..n
    BY <2>1
  <2>8. d \in Int /\ d <= top
    BY <1>1, <1>2
  <2>9. dstCol \in Int
    <3>1. l.d > 1 => l.d - 1 \in 1..top
      BY <1>1, <1>2
    <3>2. l.d > 1 => lens[l.d - 1] \in Nat
      BY <1>2, <3>1
    <3>3. l.dstCol - k \in Int
      BY <1>1, <2>2
    <3> QED
      BY <3>2, <3>3
  <2> HIDE DEF d, dstCol, s, srcCol
  <2>10. PICK x : x = [g |-> h, d |-> d, dstCol |-> dstCol, s |-> s, srcCol |-> srcCol]
    OBVIOUS
  <2>11. Wrap(l, lens) = x
    BY <1>4, <2>10 DEF Wrap, h, d, dstCol, s, srcCol, i, k
  <2>12. x \in Wrapping(w, n, top)
    BY <2>3, <2>6, <2>7, <2>8, <2>9, <2>10 DEF Wrapping
  <2> QED
    BY <2>11, <2>12 DEF top
<1> QED
  BY <1>3, <1>4

LEMMA WrappedIs ==
  ASSUME cols \in Int, NEW w \in Nat, NEW n \in Nat \ {0}, NEW g \in Groups(w, n), NEW s \in 1..n,
         NEW lens \in Seq(Nat), lens # <<>>
  PROVE  Wrapped(g, s, lens) \in Groups(w, n)
<1> DEFINE start == [g |-> g, d |-> Len(lens), dstCol |-> lens[Len(lens)], s |-> s, srcCol |-> TrimmedLength(g[s])]
           U == Wrapping(w, n, Len(lens))
           m == Len(g) + Len(lens)
           step == [k \in 1..m |-> [l \in U |-> Wrap(l, lens)]]
<1>1. m \in Nat /\ Len(g) = n
  BY GroupIs
<1>2. start \in U
  <2>1. TrimmedLength(g[s]) \in Int
    BY GroupIs, TrimmedIs
  <2>2. lens[Len(lens)] \in Int /\ Len(lens) \in Int
    OBVIOUS
  <2>3. s \in 0..n
    OBVIOUS
  <2> QED
    BY <2>1, <2>2, <2>3 DEF Wrapping
<1>3. \A l \in U : Wrap(l, lens) \in U
  BY WrapIs
<1>4. step \in [1..m -> [U -> U]] /\ \A k \in 1..m, l \in U : step[k][l] = Wrap(l, lens)
  BY <1>3
<1> HIDE DEF step, m, U, start
<1>5. PICK f : Rounds(f, start, step, m) /\ \A i \in 0..m : f[i] \in U
  BY <1>1, <1>2, <1>4, RoundsExist
<1>6. f = [k \in 0..m |-> IF k = 0 THEN start ELSE step[k][f[k - 1]]]
  BY <1>5 DEF Rounds
<1>7. \A k \in 0..m : k # 0 => k \in 1..m /\ k - 1 \in 0..m
  BY <1>1
<1>8. \A k \in 0..m : k # 0 => step[k][f[k - 1]] = Wrap(f[k - 1], lens)
  BY <1>4, <1>5, <1>7
<1>9. f = [k \in 0..m |-> IF k = 0 THEN start ELSE Wrap(f[k - 1], lens)]
  BY <1>6, <1>8
<1>10. PICK e : e = CHOOSE h : h = [k \in 0..m |-> IF k = 0 THEN start ELSE Wrap(h[k - 1], lens)]
  OBVIOUS
<1>11. e = [k \in 0..m |-> IF k = 0 THEN start ELSE Wrap(e[k - 1], lens)]
  BY <1>9, <1>10
<1>12. e[0] = start /\ \A k \in 1..m : e[k] = Wrap(e[k - 1], lens)
  <2>1. \A k \in 0..m : e[k] = IF k = 0 THEN start ELSE Wrap(e[k - 1], lens)
    BY <1>11
  <2>2. 0 \in 0..m /\ \A k \in 1..m : k \in 0..m /\ k # 0
    BY <1>1
  <2> QED
    BY <2>1, <2>2
<1>13. e[m] \in U
  <2>1. e[0] \in U /\ \A k \in 1..m : e[k - 1] \in U => e[k] \in U
    BY <1>2, <1>3, <1>12
  <2>2. m \in 0..m
    BY <1>1
  <2> QED
    BY <1>1, <2>1, <2>2, RoundsStay
<1>14. Wrapped(g, s, lens) = e[m].g
  BY <1>10 DEF Wrapped, m, start
<1> QED
  BY <1>13, <1>14 DEF U, Wrapping

(* The rows a group had and those it gets.                                 *)
LEMMA SmallerGroupIs ==
  ASSUME cols \in Nat \ {0}, NEW n \in Nat \ {0}, NEW g \in Groups(cols, n), NEW lens \in Seq(Nat), lens # <<>>,
         NEW c \in Nat
  PROVE  /\ SmallerGroup(g, lens, c) \in Seq(Lines(cols)) /\ Len(SmallerGroup(g, lens, c)) >= n
         /\ Len(lens) >= n => Len(SmallerGroup(g, lens, c)) = Len(lens)
<1> DEFINE more == [i \in 1..(Len(lens) - Len(g)) |-> Blank(cols, TRUE)]
           all == g \o more
           copied == Wrapped(all, Len(g), lens)
           made == [i \in DOMAIN copied |-> IF lens[i] < c THEN SetCell(copied[i], lens[i], Null, 0) ELSE copied[i]]
<1>1. Len(g) = n /\ g \in Seq(Lines(cols)) /\ n \in Nat /\ Len(lens) \in Nat
  BY GroupIs
<1>2. more \in Seq(Lines(cols))
  <2>1. Blank(cols, TRUE) \in Lines(cols)
    BY BlankLine
  <2>2. Len(lens) - Len(g) \in Int
    BY <1>1
  <2> QED
    BY <2>1, <2>2, SameRows
<1>3. Len(more) \in Nat /\ (Len(lens) >= n => Len(more) = Len(lens) - n)
  <2>1. DOMAIN more = 1..(Len(lens) - n)
    BY <1>1
  <2> HIDE DEF more
  <2> QED
    BY <1>1, <1>2, <2>1, LenProperties
<1> HIDE DEF more
<1>4. all \in Seq(Lines(cols)) /\ Len(all) = n + Len(more)
  BY <1>1, <1>2, ConcatProperties
<1> HIDE DEF all
<1>5. PICK m : m = Len(all)
  OBVIOUS
<1>6. m \in Nat \ {0} /\ m >= n /\ n \in 1..m /\ (Len(lens) >= n => m = Len(lens))
  BY <1>1, <1>3, <1>4, <1>5
<1>7. all \in Groups(cols, m)
  BY <1>4, <1>5, GroupOf
<1>8. copied \in Groups(cols, m)
  BY <1>1, <1>6, <1>7, WrappedIs
<1> HIDE DEF copied
<1>9. DOMAIN copied = 1..m /\ \A i \in 1..m : copied[i] \in Lines(cols)
  BY <1>6, <1>8, GroupIs
<1>10. \A i \in 1..m : SetCell(copied[i], lens[i], Null, 0) \in Lines(cols)
  <2>1. Null \in Cells /\ Null.m = FALSE
    BY CellParts
  <2> QED
    BY <1>9, <2>1, SetCellLine
<1>11. made \in Groups(cols, m)
  BY <1>9, <1>10 DEF Groups
<1>12. SmallerGroup(g, lens, c) = made
  BY DEF SmallerGroup, made, copied, all, more
<1> HIDE DEF made
<1>13. made \in Seq(Lines(cols)) /\ Len(made) = m
  BY <1>6, <1>11, GroupIs
<1> QED
  BY <1>6, <1>12, <1>13

(* What is left of the buffer while the rows to be put in are collected.   *)
LEMMA FirstLines ==
  ASSUME NEW S, NEW s \in Seq(S), NEW m \in Int, m <= Len(s)
  PROVE  SubSeq(s, 1, m) \in Seq(S) /\ Len(SubSeq(s, 1, m)) = IF m >= 0 THEN m ELSE 0
<1>1. Len(s) \in Nat /\ \A i \in 1..m : s[i] \in S
  OBVIOUS
<1>2. SubSeq(s, 1, m) \in Seq(S) /\ Len(SubSeq(s, 1, m)) = IF 1 <= m THEN m - 1 + 1 ELSE 0
  BY <1>1, SubSeqProperties
<1> QED
  BY <1>2

LEMMA LastLines ==
  ASSUME NEW S, NEW s \in Seq(S), NEW m \in Nat \ {0}
  PROVE  SubSeq(s, m, Len(s)) \in Seq(S)
<1>1. Len(s) \in Nat /\ \A i \in m..Len(s) : s[i] \in S
  OBVIOUS
<1> QED
  BY <1>1, SubSeqProperties

(* The view after rows have gone from the end.                             *)
LEMMA AdjustedIs ==
  ASSUME NEW w \in Nat, NEW r \in Nat \ {0}, NEW nb \in Buffers(w, r), NEW n \in Int, NEW pending \in Int
  PROVE  Adjusted(nb, n, pending, r) \in Buffers(w, r) /\ Adjusted(nb, n, pending, r).x = nb.x
<1> DEFINE len == Len(nb.lines)
           trimmed == IF nb.ybase = 0 /\ nb.y # len - 1
                      THEN Max({0, nb.y - MaxLength(r) + n})
                      ELSE Max({0, len - MaxLength(r) + n})
           todo == Max({0, n - trimmed})
           below == Max({0, r - 1 - nb.y})
           popped == IF nb.ybase = 0 THEN Min({todo, below}) ELSE 0
           full == Min({MaxLength(r), len - popped + pending})
           rest == todo - popped
           ybase == IF nb.ybase = 0
                    THEN IF rest = 0 THEN 0 ELSE Max({1, Min({rest, full - r})})
                    ELSE Max({nb.ybase, Min({nb.ybase + rest, full - r})})
<1>1. MaxLength(r) \in Int /\ nb.ybase \in Int /\ nb.y \in Int /\ len \in Nat
  BY MaxLengthIs, BufferParts
<1>2. nb.y - MaxLength(r) + n \in Int /\ len - MaxLength(r) + n \in Int /\ r - 1 - nb.y \in Int
  <2> HIDE DEF len
  <2>1. nb.y - MaxLength(r) + n \in Int
    BY <1>1
  <2>2. len - MaxLength(r) + n \in Int
    BY <1>1
  <2>3. r - 1 - nb.y \in Int
    BY <1>1
  <2> QED
    BY <2>1, <2>2, <2>3
<1>3. trimmed \in Int
  BY <1>2, MaxOfTwo
<1> HIDE DEF trimmed
<1>4. n - trimmed \in Int
  BY <1>3
<1>5. todo \in Nat
  BY <1>4, MaxOfTwo
<1>6. below \in Nat
  BY <1>2, MaxOfTwo
<1> HIDE DEF todo, below
<1>7. popped \in Nat
  BY <1>5, <1>6, MinOfTwo
<1> HIDE DEF popped
<1>8. len - popped + pending \in Int /\ len - popped \in Int /\ len - popped <= len
  BY <1>1, <1>7
<1>9. full \in Int
  BY <1>1, <1>8, MinOfTwo
<1>10. rest \in Int
  BY <1>5, <1>7
<1> HIDE DEF full, rest, len
<1>11. full - r \in Int /\ nb.ybase + rest \in Int
  BY <1>1, <1>9, <1>10
<1>12. Min({rest, full - r}) \in Int /\ Min({nb.ybase + rest, full - r}) \in Int
  <2>1. Min({rest, full - r}) \in Int
    BY <1>10, <1>11, MinOfTwo
  <2>2. Min({nb.ybase + rest, full - r}) \in Int
    BY <1>11, MinOfTwo
  <2> QED
    BY <2>1, <2>2
<1>13. Max({1, Min({rest, full - r})}) \in Int /\ Max({nb.ybase, Min({nb.ybase + rest, full - r})}) \in Int
  <2>1. Max({1, Min({rest, full - r})}) \in Int
    <3>1. PICK p : p = Min({rest, full - r})
      OBVIOUS
    <3>2. p \in Int
      BY <1>12, <3>1
    <3>3. \A q \in Int : Max({q, p}) \in Int
      BY <3>2, MaxOfTwo
    <3>4. 1 \in Int
      OBVIOUS
    <3> QED
      BY <3>1, <3>3, <3>4
  <2>2. Max({nb.ybase, Min({nb.ybase + rest, full - r})}) \in Int
    BY <1>1, <1>12, MaxOfTwo
  <2> QED
    BY <2>1, <2>2
<1>14. ybase \in Int
  BY <1>13
<1> HIDE DEF ybase
<1>15. PICK s : s = SubSeq(nb.lines, 1, len - popped)
  OBVIOUS
<1>16. s \in Seq(Lines(w))
  BY <1>8, <1>15, BufferParts, FirstLines DEF len
<1>17. PICK y : y = nb.y + popped
  OBVIOUS
<1>18. y \in Int /\ y < r
  <2>1. nb.y < r /\ r - 1 - nb.y \in Nat
    <3>1. nb.y \in Int /\ nb.y < r
      BY BufferParts
    <3> QED
      BY <3>1
  <2>2. popped <= r - 1 - nb.y
    <3>1. below = r - 1 - nb.y
      BY <1>2, <2>1, MaxOfTwo DEF below
    <3> QED
      BY <1>5, <1>6, <2>1, <3>1, MinOfTwo DEF popped
  <2> QED
    BY <1>1, <1>7, <1>17, <2>1, <2>2
<1>19. Adjusted(nb, n, pending, r) = [nb EXCEPT !.lines = s, !.y = y, !.ybase = ybase]
  BY <1>15, <1>17 DEF Adjusted, ybase, rest, full, popped, below, todo, trimmed, len
<1>20. PICK b : b = [nb EXCEPT !.lines = s, !.y = y, !.ybase = ybase]
  OBVIOUS
<1>21. b \in Buffers(w, r) /\ b.x = nb.x
  BY <1>14, <1>16, <1>18, <1>20 DEF Buffers
<1> QED
  BY <1>19, <1>20, <1>21

Additions(w) == Seq([at : Int, new : Seq(Lines(w))])
Shrinking(w, r, x) ==
  {l \in [bf : {b \in Buffers(w, r) : b.x = x}, last : Int, ins : Additions(w), pending : Int, thrown : BOOLEAN] :
     l.last < Len(l.bf.lines)}

Rewrapped(nb, i, j, new, k) ==
  [nb EXCEPT !.lines = SubSeq(nb.lines, 1, i) \o SubSeq(new, 1, k) \o SubSeq(nb.lines, j + 2, Len(nb.lines))]
LEMMA RewrappedIs ==
  ASSUME NEW w \in Nat, NEW r, NEW nb \in Buffers(w, r), NEW i \in Nat, NEW j \in Nat, i <= Len(nb.lines),
         NEW new \in Seq(Lines(w)), NEW k \in Nat, k <= Len(new)
  PROVE  Rewrapped(nb, i, j, new, k) \in Buffers(w, r) /\ Rewrapped(nb, i, j, new, k).x = nb.x
<1>1. nb.lines \in Seq(Lines(w)) /\ j + 2 \in Nat \ {0} /\ i \in Int /\ k \in Int
  BY BufferParts
<1>2. PICK s : s = SubSeq(nb.lines, 1, i)
  OBVIOUS
<1>3. PICK t : t = SubSeq(new, 1, k)
  OBVIOUS
<1>4. PICK u : u = SubSeq(nb.lines, j + 2, Len(nb.lines))
  OBVIOUS
<1>5. s \in Seq(Lines(w))
  BY <1>1, <1>2, FirstLines
<1>6. t \in Seq(Lines(w))
  BY <1>1, <1>3, FirstLines
<1>7. u \in Seq(Lines(w))
  BY <1>1, <1>4, LastLines
<1>8. PICK v : v = s \o t \o u
  OBVIOUS
<1>9. v \in Seq(Lines(w))
  BY <1>5, <1>6, <1>7, <1>8
<1>10. PICK b : b = [nb EXCEPT !.lines = v]
  OBVIOUS
<1>11. b \in Buffers(w, r) /\ b.x = nb.x
  BY <1>9, <1>10 DEF Buffers
<1> QED
  BY <1>2, <1>3, <1>4, <1>8, <1>10, <1>11 DEF Rewrapped

(* One group made narrower, and all of them.                               *)
LEMMA SmallerIs ==
  ASSUME cols \in Nat \ {0}, NEW r \in Nat \ {0}, NEW x, NEW l \in Shrinking(cols, r, x), NEW c \in Nat \ {0}
  PROVE  Smaller(l, c, r) \in Shrinking(cols, r, x)
<1> DEFINE nb == l.bf
           first == FirstRow(nb.lines, l.last)
           g == SubSeq(nb.lines, first + 1, l.last + 1)
           lens == NewLengths(g, c)
           n == Len(lens) - Len(g)
           new == SmallerGroup(g, lens, c)
           moved == [nb EXCEPT !.lines = SubSeq(nb.lines, 1, first) \o SubSeq(new, 1, Len(g))
                                          \o SubSeq(nb.lines, l.last + 2, Len(nb.lines))]
           added == <<[at |-> l.last + 1, new |-> SubSeq(new, Len(g) + 1, Len(new))]>>
           after == Adjusted(moved, n, l.pending + n, r)
           kept == \/ ~At(nb, l.last).wrapped /\ TrimmedLength(At(nb, l.last)) <= c
                   \/ nb.ybase + nb.y \in first..l.last
           ins == IF n = 0 THEN l.ins ELSE added \o l.ins
           next == Min({first, Len(after.lines)}) - 1
<1>1. /\ nb \in Buffers(cols, r) /\ nb.x = x /\ l.last \in Int /\ l.ins \in Additions(cols)
      /\ l.pending \in Int /\ l.thrown \in BOOLEAN /\ l.last < Len(nb.lines)
      /\ l \in [bf : {b \in Buffers(cols, r) : b.x = x}, last : Int, ins : Additions(cols),
                pending : Int, thrown : BOOLEAN]
  BY DEF Shrinking
<1>2. CASE l.last < 0 \/ l.thrown
  BY <1>2 DEF Smaller
<1>3. CASE ~(l.last < 0 \/ l.thrown)
  <2>1. nb.lines \in Seq(Lines(cols)) /\ Len(nb.lines) \in Nat
    BY <1>1, BufferParts
  <2>2. l.last \in 0..(Len(nb.lines) - 1)
    BY <1>1, <1>3, <2>1
  <2>3. first \in 0..l.last
    BY <2>1, <2>2, RowsAre
  <2> HIDE DEF first
  <2>4. CASE kept
    <3>1. PICK z : z = [l EXCEPT !.last = first - 1]
      OBVIOUS
    <3>2. Smaller(l, c, r) = z
      BY <1>3, <2>4, <3>1 DEF Smaller, first
    <3>3. first - 1 \in Int /\ first - 1 < Len(nb.lines)
      BY <2>1, <2>2, <2>3
    <3>4. z \in [bf : {b \in Buffers(cols, r) : b.x = x}, last : Int, ins : Additions(cols),
                 pending : Int, thrown : BOOLEAN] /\ z.last = first - 1 /\ z.bf = nb
      BY <1>1, <3>1, <3>3
    <3> QED
      BY <3>2, <3>3, <3>4 DEF Shrinking
  <2>5. CASE ~kept /\ lens = <<>>
    <3>1. PICK z : z = [l EXCEPT !.thrown = TRUE]
      OBVIOUS
    <3>2. Smaller(l, c, r) = z
      BY <1>3, <2>5, <3>1 DEF Smaller, first
    <3>3. z \in [bf : {b \in Buffers(cols, r) : b.x = x}, last : Int, ins : Additions(cols),
                 pending : Int, thrown : BOOLEAN] /\ z.last = l.last /\ z.bf = nb
      BY <1>1, <3>1
    <3> QED
      BY <1>1, <3>2, <3>3 DEF Shrinking
  <2>6. CASE ~kept /\ lens # <<>>
    <3>1. first + 1 \in 1..Len(nb.lines) /\ l.last + 1 \in (first + 1)..Len(nb.lines)
      BY <2>1, <2>2, <2>3, FromOne, ZenonT(20)
    <3>2. g \in Groups(cols, (l.last + 1) - (first + 1) + 1)
      BY <2>1, <3>1, GroupFrom
    <3> HIDE DEF g
    <3>3. PICK m : m = (l.last + 1) - (first + 1) + 1
      OBVIOUS
    <3>4. m \in Nat \ {0} /\ m \in Nat /\ g \in Groups(cols, m)
      BY <2>2, <2>3, <3>2, <3>3
    <3>5. Len(g) = m
      BY <3>4, GroupIs
    <3>6. lens \in Seq(Nat)
      BY <3>4, NewLengthsAre
    <3> HIDE DEF lens
    <3>7. n \in Int
      BY <3>4, <3>5, <3>6
    <3>8. new \in Seq(Lines(cols)) /\ Len(new) >= m
      BY <2>6, <3>4, <3>6, SmallerGroupIs
    <3> HIDE DEF new
    <3>9. moved \in Buffers(cols, r) /\ moved.x = x
      <4>1. first \in Nat /\ l.last \in Nat /\ first <= Len(nb.lines) /\ Len(g) <= Len(new) /\ Len(g) \in Nat
        BY <2>1, <2>2, <2>3, <3>4, <3>5, <3>8
      <4>2. moved = Rewrapped(nb, first, l.last, new, Len(g))
        BY DEF Rewrapped
      <4>3. PICK b : b = nb
        OBVIOUS
      <4>4. PICK i : i = first
        OBVIOUS
      <4>5. PICK j : j = l.last
        OBVIOUS
      <4>6. PICK k : k = Len(g)
        OBVIOUS
      <4>7. /\ b \in Buffers(cols, r) /\ b.x = x /\ i \in Nat /\ j \in Nat /\ k \in Nat
            /\ i <= Len(b.lines) /\ k <= Len(new) /\ cols \in Nat
        BY <1>1, <4>1, <4>3, <4>4, <4>5, <4>6
      <4>8. Rewrapped(b, i, j, new, k) \in Buffers(cols, r) /\ Rewrapped(b, i, j, new, k).x = b.x
        BY <3>8, <4>7, RewrappedIs
      <4>9. moved = Rewrapped(b, i, j, new, k)
        BY <4>2, <4>3, <4>4, <4>5, <4>6
      <4> QED
        BY <4>7, <4>8, <4>9
    <3> HIDE DEF moved, n
    <3>10. l.pending + n \in Int
      BY <1>1, <3>7
    <3>11. after \in Buffers(cols, r) /\ after.x = x
      BY <3>7, <3>9, <3>10, AdjustedIs
    <3> HIDE DEF after
    <3>12. next \in Int /\ next < Len(after.lines)
      <4>1. Len(after.lines) \in Nat /\ first \in Int
        BY <2>3, <3>11, BufferParts
      <4>2. Min({first, Len(after.lines)}) = IF first <= Len(after.lines) THEN first ELSE Len(after.lines)
        BY <4>1, MinOfTwo
      <4> QED
        BY <4>1, <4>2
    <3>13. ins \in Additions(cols)
      <4>1. m + 1 \in Nat \ {0} /\ l.last + 1 \in Int
        BY <2>2, <3>4
      <4>2. PICK t : t = SubSeq(new, Len(g) + 1, Len(new))
        OBVIOUS
      <4>3. t \in Seq(Lines(cols))
        BY <3>5, <3>8, <4>1, <4>2, LastLines
      <4>4. PICK e : e = [at |-> l.last + 1, new |-> t]
        OBVIOUS
      <4>5. e \in [at : Int, new : Seq(Lines(cols))]
        BY <4>1, <4>3, <4>4
      <4>6. <<e>> \in Additions(cols)
        BY <4>5 DEF Additions
      <4>7. <<e>> \o l.ins \in Additions(cols)
        BY <1>1, <4>6 DEF Additions
      <4>8. added = <<e>>
        BY <4>2, <4>4
      <4> QED
        BY <1>1, <4>7, <4>8
    <3> HIDE DEF ins, next
    <3>14. PICK z : z = [bf |-> after, last |-> next, ins |-> ins, pending |-> l.pending + n, thrown |-> FALSE]
      OBVIOUS
    <3>15. Smaller(l, c, r) = z
      BY <1>3, <2>6, <3>14 DEF Smaller, ins, next, after, moved, n, new, lens, g, first
    <3>16. z \in [bf : {b \in Buffers(cols, r) : b.x = x}, last : Int, ins : Additions(cols),
                  pending : Int, thrown : BOOLEAN] /\ z.last = next /\ z.bf = after
      BY <3>10, <3>11, <3>12, <3>13, <3>14
    <3> QED
      BY <3>12, <3>15, <3>16 DEF Shrinking
  <2> QED
    BY <2>4, <2>5, <2>6
<1> QED
  BY <1>2, <1>3

LEMMA SmallerLinesIs ==
  ASSUME cols \in Nat \ {0}, NEW r \in Nat \ {0}, NEW nb \in Buffers(cols, r), NEW c \in Nat \ {0}
  PROVE  SmallerLines(nb, c, r) \in Shrinking(cols, r, nb.x)
<1> DEFINE start == [bf |-> nb, last |-> Len(nb.lines) - 1, ins |-> <<>>, pending |-> 0, thrown |-> FALSE]
           U == Shrinking(cols, r, nb.x)
           m == Len(nb.lines)
           step == [k \in 1..m |-> [l \in U |-> Smaller(l, c, r)]]
<1>1. m \in Nat
  BY BufferParts
<1>2. start \in U
  <2>1. <<>> \in Additions(cols)
    BY DEF Additions
  <2>2. m - 1 \in Int /\ m - 1 < m
    BY <1>1
  <2>3. start \in [bf : {b \in Buffers(cols, r) : b.x = nb.x}, last : Int, ins : Additions(cols), pending : Int, thrown : BOOLEAN]
    BY <2>1, <2>2
  <2>4. start.last = m - 1 /\ start.bf = nb
    OBVIOUS
  <2> HIDE DEF start
  <2> QED
    BY <2>2, <2>3, <2>4 DEF Shrinking
<1>3. \A l \in U : Smaller(l, c, r) \in U
  BY SmallerIs
<1>4. step \in [1..m -> [U -> U]] /\ \A k \in 1..m, l \in U : step[k][l] = Smaller(l, c, r)
  BY <1>3
<1> HIDE DEF step, m, U, start
<1>5. PICK f : Rounds(f, start, step, m) /\ \A i \in 0..m : f[i] \in U
  BY <1>1, <1>2, <1>4, RoundsExist
<1>6. f = [k \in 0..m |-> IF k = 0 THEN start ELSE step[k][f[k - 1]]]
  BY <1>5 DEF Rounds
<1>7. \A k \in 0..m : k # 0 => k \in 1..m /\ k - 1 \in 0..m
  BY <1>1
<1>8. \A k \in 0..m : k # 0 => step[k][f[k - 1]] = Smaller(f[k - 1], c, r)
  BY <1>4, <1>5, <1>7
<1>9. f = [k \in 0..m |-> IF k = 0 THEN start ELSE Smaller(f[k - 1], c, r)]
  BY <1>6, <1>8
<1>10. PICK e : e = CHOOSE h : h = [k \in 0..m |-> IF k = 0 THEN start ELSE Smaller(h[k - 1], c, r)]
  OBVIOUS
<1>11. e = [k \in 0..m |-> IF k = 0 THEN start ELSE Smaller(e[k - 1], c, r)]
  BY <1>9, <1>10
<1>12. e[0] = start /\ \A k \in 1..m : e[k] = Smaller(e[k - 1], c, r)
  <2>1. \A k \in 0..m : e[k] = IF k = 0 THEN start ELSE Smaller(e[k - 1], c, r)
    BY <1>11
  <2>2. 0 \in 0..m /\ \A k \in 1..m : k \in 0..m /\ k # 0
    BY <1>1
  <2> QED
    BY <2>1, <2>2
<1>13. e[m] \in U
  <2>1. e[0] \in U /\ \A k \in 1..m : e[k - 1] \in U => e[k] \in U
    BY <1>2, <1>3, <1>12
  <2>2. m \in 0..m
    BY <1>1
  <2> QED
    BY <1>1, <2>1, <2>2, RoundsStay
<1>14. SmallerLines(nb, c, r) = e[m]
  BY <1>10 DEF SmallerLines, m, start
<1> QED
  BY <1>13, <1>14 DEF U

Tagged(w) == [line : Lines(w), of : Int]

(* The rows put in between the others, and the list cut to its capacity.   *)
LEMMA AllInsertedIs ==
  ASSUME NEW w \in Nat, NEW ls \in Seq(Lines(w)), NEW ins \in Additions(w)
  PROVE  AllInserted(ls, ins) \in Seq(Tagged(w))
<1> DEFINE tagged(e) == [i \in DOMAIN e.new |-> [line |-> e.new[i], of |-> e.at + 1]]
           own(j) == IF j < Len(ls) THEN <<[line |-> ls[j + 1], of |-> 0]>> ELSE <<>>
           parts(j) == [i \in DOMAIN ins |-> IF Min({ins[i].at, Len(ls)}) = j THEN tagged(ins[i]) ELSE <<>>]
           put(j) == Seqs!FlattenSeq(parts(j))
           all == [j \in 1..(Len(ls) + 1) |-> put(j - 1) \o own(j - 1)]
<1>1. Len(ls) \in Nat /\ Len(ins) \in Nat /\ DOMAIN ins = 1..Len(ins) /\ <<>> \in Seq(Tagged(w))
  BY DEF Additions
<1>2. \A i \in 1..Len(ins) : ins[i] \in [at : Int, new : Seq(Lines(w))]
  <2>1. PICK E : E = [at : Int, new : Seq(Lines(w))]
    OBVIOUS
  <2>2. ins \in Seq(E)
    BY <2>1 DEF Additions
  <2>3. \A i \in 1..Len(ins) : ins[i] \in E
    BY <2>2
  <2> QED
    BY <2>1, <2>3
<1>3. ASSUME NEW e \in [at : Int, new : Seq(Lines(w))] PROVE tagged(e) \in Seq(Tagged(w))
  <2>1. PICK n : n = Len(e.new)
    OBVIOUS
  <2>2. n \in Nat /\ DOMAIN e.new = 1..n /\ (\A i \in 1..n : e.new[i] \in Lines(w)) /\ e.at + 1 \in Int
    BY <2>1
  <2>3. tagged(e) \in [1..n -> Tagged(w)]
    BY <2>2 DEF Tagged
  <2> HIDE DEF tagged
  <2> QED
    BY <2>2, <2>3, SeqDef
<1> HIDE DEF tagged
<1>4. ASSUME NEW j PROVE put(j) \in Seq(Tagged(w))
  <2>1. parts(j) \in [1..Len(ins) -> Seq(Tagged(w))]
    BY <1>1, <1>2, <1>3
  <2> HIDE DEF parts
  <2>2. parts(j) \in Seq(Seq(Tagged(w)))
    BY <1>1, <2>1, SeqDef
  <2> QED
    BY <2>2, FlattenIs
<1>5. ASSUME NEW j \in Nat PROVE own(j) \in Seq(Tagged(w))
  <2>1. CASE j < Len(ls)
    <3>1. PICK e : e = [line |-> ls[j + 1], of |-> 0]
      OBVIOUS
    <3>2. j + 1 \in 1..Len(ls)
      BY <1>1, <2>1
    <3>3. e \in Tagged(w)
      BY <3>1, <3>2 DEF Tagged
    <3>4. <<e>> \in Seq(Tagged(w))
      BY <3>3
    <3> QED
      BY <2>1, <3>1, <3>4
  <2>2. CASE ~(j < Len(ls))
    BY <1>1, <2>2
  <2> QED
    BY <2>1, <2>2
<1>6. AllInserted(ls, ins) = Seqs!FlattenSeq(all)
  BY DEF AllInserted, tagged
<1> HIDE DEF put, own
<1>7. ASSUME NEW j \in 1..(Len(ls) + 1) PROVE put(j - 1) \o own(j - 1) \in Seq(Tagged(w))
  <2>1. j - 1 \in Nat
    BY <1>1
  <2>2. put(j - 1) \in Seq(Tagged(w)) /\ own(j - 1) \in Seq(Tagged(w))
    BY <1>4, <1>5, <2>1
  <2> QED
    BY <2>2, ConcatProperties
<1>8. all \in [1..(Len(ls) + 1) -> Seq(Tagged(w))]
  BY <1>7
<1> HIDE DEF all
<1>9. Len(ls) + 1 \in Nat
  BY <1>1
<1>10. all \in Seq(Seq(Tagged(w)))
  BY <1>8, <1>9, SeqDef
<1> QED
  BY <1>6, <1>10, FlattenIs

LEMMA RelaidIs ==
  ASSUME NEW w \in Nat, NEW r \in Nat \ {0}, NEW nb \in Buffers(w, r), NEW ins \in Additions(w)
  PROVE  Relaid(nb, ins, r) \in Buffers(w, r) /\ Relaid(nb, ins, r).x = nb.x
<1> DEFINE all == AllInserted(nb.lines, ins)
           cut == Max({0, Len(all) - MaxLength(r)})
           kept == SubSeq(all, cut + 1, Len(all))
           over == {k \in 1..cut : /\ nb.start - k >= 0
                                   /\ \A j \in (cut + 1 - k)..(cut + 1) :
                                        all[j].of # 0 /\ all[j].of = all[cut + 1].of}
           lines == [i \in DOMAIN kept |-> IF Len(kept) + 1 - i \in over
                                           THEN all[cut + 1 - (Len(kept) + 1 - i)].line ELSE kept[i].line]
<1>1. all \in Seq(Tagged(w))
  BY BufferParts, AllInsertedIs
<1> HIDE DEF all
<1>2. Len(all) \in Nat /\ \A i \in 1..Len(all) : all[i] \in Tagged(w)
  BY <1>1
<1>3. MaxLength(r) \in Nat \ {0}
  BY MaxLengthIs
<1>4. cut \in Nat /\ cut <= Len(all)
  <2>1. Len(all) - MaxLength(r) \in Int
    BY <1>2, <1>3
  <2>2. cut = IF 0 <= Len(all) - MaxLength(r) THEN Len(all) - MaxLength(r) ELSE 0
    BY <2>1, MaxOfTwo
  <2> HIDE DEF cut
  <2> QED
    BY <1>2, <1>3, <2>2
<1> HIDE DEF cut
<1>5. kept \in Seq(Tagged(w))
  <2>1. cut + 1 \in Nat \ {0}
    BY <1>4
  <2> QED
    BY <1>1, <2>1, LastLines
<1> HIDE DEF kept
<1>6. Len(kept) \in Nat /\ DOMAIN kept = 1..Len(kept) /\ \A i \in 1..Len(kept) : kept[i] \in Tagged(w)
  BY <1>5
<1>7. \A k \in over : k \in 1..cut /\ cut + 1 - k \in 1..Len(all)
  BY <1>2, <1>4
<1> HIDE DEF over
<1>8. \A k \in over : all[cut + 1 - k].line \in Lines(w)
  BY <1>2, <1>7 DEF Tagged
<1>9. \A i \in 1..Len(kept) : kept[i].line \in Lines(w)
  BY <1>6 DEF Tagged
<1>10. lines \in [1..Len(kept) -> Lines(w)]
  BY <1>6, <1>8, <1>9
<1>11. Relaid(nb, ins, r) = [nb EXCEPT !.lines = lines]
  BY DEF Relaid, lines, over, kept, cut, all
<1> HIDE DEF lines
<1>12. lines \in Seq(Lines(w))
  BY <1>6, <1>10, SeqDef
<1>13. PICK b : b = [nb EXCEPT !.lines = lines]
  OBVIOUS
<1>14. b \in Buffers(w, r) /\ b.x = nb.x
  BY <1>12, <1>13 DEF Buffers
<1> QED
  BY <1>11, <1>13, <1>14

LEMMA AllOfIs ==
  ASSUME NEW w \in Nat, NEW ls \in Seq(Lines(w)), NEW c \in Nat
  PROVE  AllOf(ls, c) \in Seq(Lines(c)) /\ Len(AllOf(ls, c)) = Len(ls)
<1>1. Len(ls) \in Nat /\ DOMAIN ls = 1..Len(ls) /\ \A i \in 1..Len(ls) : ls[i] \in Lines(w)
  OBVIOUS
<1>2. \A i \in 1..Len(ls) : ResizeLine(ls[i], c) \in Lines(c)
  BY <1>1, ResizeLineLine
<1>3. AllOf(ls, c) \in [1..Len(ls) -> Lines(c)]
  BY <1>1, <1>2 DEF AllOf
<1> QED
  BY <1>1, <1>3, SeqDef

(* Fewer columns: lines of the new width, or the exception.                *)
LEMMA ReflowedSmallerIs ==
  ASSUME cols \in Nat \ {0}, NEW r \in Nat \ {0}, NEW nb \in Buffers(cols, r), NEW c \in Nat \ {0}, nb.x \in 0..c
  PROVE  ReflowedSmaller(nb, c, r).bf \in Buffers(c, r) /\ ReflowedSmaller(nb, c, r).thrown \in BOOLEAN
<1>1. PICK s : s = SmallerLines(nb, c, r)
  OBVIOUS
<1>2. s \in Shrinking(cols, r, nb.x)
  BY <1>1, SmallerLinesIs
<1>3. s.bf \in Buffers(cols, r) /\ s.bf.x = nb.x /\ s.ins \in Additions(cols) /\ s.thrown \in BOOLEAN
  BY <1>2 DEF Shrinking
<1>4. PICK l : l = Relaid(s.bf, s.ins, r)
  OBVIOUS
<1>5. l \in Buffers(cols, r) /\ l.x = nb.x
  BY <1>3, <1>4, RelaidIs
<1>6. PICK ls : ls = AllOf(l.lines, c)
  OBVIOUS
<1>7. ls \in Seq(Lines(c))
  <2>1. l.lines \in Seq(Lines(cols)) /\ c \in Nat
    BY <1>5, BufferParts
  <2> QED
    BY <1>6, <2>1, AllOfIs
<1>8. PICK b : b = [l EXCEPT !.lines = ls]
  OBVIOUS
<1>9. b \in Buffers(c, r)
  BY <1>5, <1>7, <1>8 DEF Buffers
<1>10. ReflowedSmaller(nb, c, r).bf = b /\ ReflowedSmaller(nb, c, r).thrown = s.thrown
  BY <1>1, <1>4, <1>6, <1>8 DEF ReflowedSmaller
<1> QED
  BY <1>3, <1>9, <1>10

(* The rows of a resize.                                                   *)
LEMMA GrownIs ==
  ASSUME Sized, NEW w \in Nat, NEW nb \in Buffers(w, rows), NEW r \in Nat, r > rows
  PROVE  Grown(nb, w, r) \in Buffers(w, r)
<1> DEFINE pulled == IF nb.y + 1 >= rows THEN Min({nb.ybase, r - rows}) ELSE 0
<1>1. rows \in Nat /\ nb.ybase \in Int /\ nb.y \in Int /\ nb.lines \in Seq(Lines(w)) /\ nb.y < rows
  BY BufferParts DEF Sized
<1>2. r - rows \in Nat
  BY <1>1
<1>3. pulled \in Int /\ pulled <= r - rows
  BY <1>1, <1>2, MinOfTwo
<1> HIDE DEF pulled
<1>4. PICK n : n = r - rows - pulled
  OBVIOUS
<1>5. n \in Int
  BY <1>1, <1>3, <1>4
<1>6. PICK s : s = nb.lines \o Blanks(n, w)
  OBVIOUS
<1>7. s \in Seq(Lines(w))
  BY <1>1, <1>5, <1>6, BlanksAre, ConcatProperties
<1>8. PICK b : b = [nb EXCEPT !.lines = s, !.ybase = nb.ybase - pulled, !.y = nb.y + pulled]
  OBVIOUS
<1>9. b \in Buffers(w, r)
  <2>1. PICK y : y = nb.y + pulled
    OBVIOUS
  <2>2. y \in {i \in Int : i < r}
    BY <1>1, <1>3, <2>1
  <2>3. nb.ybase - pulled \in Int
    BY <1>1, <1>3
  <2>4. nb \in [lines : Seq(Lines(w)), start : Int, ybase : Int, x : 0..w, y : Int]
    BY DEF Buffers
  <2>5. b = [nb EXCEPT !.lines = s, !.ybase = nb.ybase - pulled, !.y = y]
    BY <1>8, <2>1
  <2> QED
    BY <1>7, <2>2, <2>3, <2>4, <2>5 DEF Buffers
<1>10. Grown(nb, w, r) = b
  BY <1>4, <1>6, <1>8 DEF Grown, pulled
<1> QED
  BY <1>9, <1>10

(* Fewer rows: from the end, or from the front.                            *)
LEMMA ShrunkIs ==
  ASSUME Sized, NEW w \in Nat, NEW nb \in Buffers(w, rows), NEW r \in Nat \ {0}, r <= rows
  PROVE  Shrunk(nb, r) \in Buffers(w, r)
<1> DEFINE popped == Min({rows - r, rows - 1 - nb.y})
           pushed == rows - r - popped
           trim == Max({Len(nb.lines) - popped - MaxLength(r), 0})
           ybase == Max({nb.ybase + pushed - trim, 0})
           y == Min({nb.y, r - 1})
<1>1. rows \in Nat /\ nb.ybase \in Int /\ nb.y \in Int /\ nb.lines \in Seq(Lines(w)) /\ Len(nb.lines) \in Nat
      /\ MaxLength(r) \in Nat /\ nb.y < rows
  BY BufferParts, MaxLengthIs DEF Sized
<1>2. popped \in Nat
  <2>1. rows - r \in Nat /\ rows - 1 - nb.y \in Nat
    BY <1>1
  <2> QED
    BY <2>1, MinOfTwo
<1> HIDE DEF popped
<1>3. trim \in Nat
  <2>1. Len(nb.lines) - popped - MaxLength(r) \in Int
    BY <1>1, <1>2
  <2> QED
    BY <2>1, MaxOfTwo
<1> HIDE DEF trim
<1>4. ybase \in Int
  <2>1. nb.ybase + pushed - trim \in Int
    BY <1>1, <1>2, <1>3
  <2> QED
    BY <2>1, MaxOfTwo
<1>5. y \in {i \in Int : i < r}
  <2>1. r - 1 \in Int
    OBVIOUS
  <2> QED
    BY <1>1, <2>1, MinOfTwo
<1>6. PICK k : k = Len(nb.lines) - popped
  OBVIOUS
<1>7. PICK s : s = SubSeq(nb.lines, trim + 1, k)
  OBVIOUS
<1>8. s \in Seq(Lines(w))
  <2>1. k \in Int /\ trim + 1 \in Int /\ \A i \in (trim + 1)..k : i \in 1..Len(nb.lines)
    BY <1>1, <1>2, <1>3, <1>6
  <2>2. \A i \in (trim + 1)..k : nb.lines[i] \in Lines(w)
    BY <1>1, <2>1
  <2> QED
    BY <1>7, <2>1, <2>2, SubSeqProperties
<1>9. Shrunk(nb, r) = [nb EXCEPT !.lines = s, !.ybase = ybase, !.y = y]
  BY <1>6, <1>7 DEF Shrunk, y, ybase, pushed, trim, popped
<1> HIDE DEF ybase, y
<1>10. PICK b : b = [nb EXCEPT !.lines = s, !.ybase = ybase, !.y = y]
  OBVIOUS
<1>11. nb \in [lines : Seq(Lines(w)), start : Int, ybase : Int, x : 0..w, y : Int]
  BY DEF Buffers
<1>12. b \in Buffers(w, r)
  BY <1>4, <1>5, <1>8, <1>10, <1>11 DEF Buffers
<1> QED
  BY <1>9, <1>10, <1>12

(* More columns come with more cells, fewer leave the lines as they are.   *)
Wide(nb, c, r) ==
  [nb EXCEPT !.lines = IF c > cols THEN AllOf(nb.lines, c) ELSE nb.lines,
             !.start = IF r = rows THEN nb.start ELSE 0,
             !.x = Min({nb.x, c - 1})]

LEMMA WideIs ==
  ASSUME Sized, NEW nb \in Buffers(cols, rows), NEW c \in Nat \ {0, 1}, NEW r \in Nat \ {0}
  PROVE  /\ Max({c, cols}) = IF c > cols THEN c ELSE cols
         /\ Wide(nb, c, r) \in Buffers(IF c > cols THEN c ELSE cols, rows)
         /\ Wide(nb, c, r).x \in 0..c /\ Wide(nb, c, r).x = IF nb.x <= c - 1 THEN nb.x ELSE c - 1
         /\ Len(Wide(nb, c, r).lines) = Len(nb.lines) /\ Wide(nb, c, r).ybase = nb.ybase /\ Wide(nb, c, r).y = nb.y
         /\ Wide(nb, c, r).start = IF r = rows THEN nb.start ELSE 0
<1> DEFINE w == IF c > cols THEN c ELSE cols
           lines == IF c > cols THEN AllOf(nb.lines, c) ELSE nb.lines
           start == IF r = rows THEN nb.start ELSE 0
           x == Min({nb.x, c - 1})
<1>1. cols \in Nat \ {0, 1} /\ rows \in Nat \ {0}
  BY DEF Sized
<1>2. w \in Nat /\ Max({c, cols}) = w
  BY <1>1, MaxOfTwo
<1>3. lines \in Seq(Lines(w)) /\ Len(lines) = Len(nb.lines)
  <2>1. nb.lines \in Seq(Lines(cols)) /\ cols \in Nat /\ c \in Nat
    BY <1>1, BufferParts
  <2>2. AllOf(nb.lines, c) \in Seq(Lines(c)) /\ Len(AllOf(nb.lines, c)) = Len(nb.lines)
    BY <2>1, AllOfIs
  <2> QED
    BY <2>1, <2>2
<1>4. start \in Int
  BY <1>1, BufferParts
<1>5. x \in 0..w /\ x \in 0..c /\ x = IF nb.x <= c - 1 THEN nb.x ELSE c - 1
  <2>1. nb.x \in 0..cols /\ c - 1 \in Int
    BY <1>1, BufferParts
  <2>2. x = IF nb.x <= c - 1 THEN nb.x ELSE c - 1
    BY <2>1, MinOfTwo
  <2> HIDE DEF x
  <2> QED
    BY <1>1, <2>1, <2>2
<1> HIDE DEF lines, start, x
<1>6. PICK b : b = [nb EXCEPT !.lines = lines, !.start = start, !.x = x]
  OBVIOUS
<1>7. /\ b \in Buffers(w, rows) /\ b.x = x /\ b.lines = lines /\ b.start = start
      /\ b.ybase = nb.ybase /\ b.y = nb.y
  <2> HIDE DEF w
  <2>1. PICK X : X = 0..w
    OBVIOUS
  <2>2. nb \in [lines : Seq(Lines(cols)), start : Int, ybase : Int, x : 0..cols, y : {i \in Int : i < rows}]
    BY DEF Buffers
  <2>3. b \in [lines : Seq(Lines(w)), start : Int, ybase : Int, x : X, y : {i \in Int : i < rows}] /\ b.x = x
                /\ b.lines = lines /\ b.start = start /\ b.ybase = nb.ybase /\ b.y = nb.y
    BY <1>3, <1>4, <1>5, <1>6, <2>1, <2>2
  <2> QED
    BY <2>1, <2>3 DEF Buffers
<1>8. Wide(nb, c, r) = b
  BY <1>6 DEF Wide, lines, start, x
<1>9. start = IF r = rows THEN nb.start ELSE 0
  BY DEF start
<1> QED
  BY <1>2, <1>3, <1>5, <1>7, <1>8, <1>9

LEMMA ResizedRowsIs ==
  ASSUME Sized, NEW nb \in Buffers(cols, rows), NEW c \in Nat \ {0, 1}, NEW r \in Nat \ {0}
  PROVE  /\ c >= cols => ResizedRows(nb, c, r) \in Buffers(c, r)
         /\ c <= cols => ResizedRows(nb, c, r) \in Buffers(cols, r) /\ ResizedRows(nb, c, r).x \in 0..c
<1> DEFINE w == IF c > cols THEN c ELSE cols
<1>1. cols \in Nat \ {0, 1} /\ rows \in Nat \ {0}
  BY DEF Sized
<1>2. w \in Nat /\ Max({c, cols}) = w
  BY <1>1, WideIs
<1>3. PICK b : b = Wide(nb, c, r)
  OBVIOUS
<1>4. b \in Buffers(w, rows) /\ b.x \in 0..c
  BY <1>3, WideIs
<1>5. ResizedRows(nb, c, r) = IF r > rows THEN Grown(b, w, r) ELSE Shrunk(b, r)
  BY <1>2, <1>3 DEF ResizedRows, Wide
<1>6. Grown(b, w, r).x = b.x /\ Shrunk(b, r).x = b.x
  BY <1>4 DEF Grown, Shrunk, Buffers
<1> HIDE DEF w
<1>7. ResizedRows(nb, c, r) \in Buffers(w, r) /\ ResizedRows(nb, c, r).x = b.x
  <2>1. CASE r > rows
    <3>1. Grown(b, w, r) \in Buffers(w, r)
      BY <1>2, <1>4, <2>1, GrownIs
    <3> QED
      BY <1>5, <1>6, <2>1, <3>1
  <2>2. CASE ~(r > rows)
    <3>1. r <= rows
      BY <1>1, <2>2
    <3>2. Shrunk(b, r) \in Buffers(w, r)
      BY <1>2, <1>4, <3>1, ShrunkIs
    <3> QED
      BY <1>5, <1>6, <2>2, <3>2
  <2> QED
    BY <2>1, <2>2
<1>8. (c >= cols => w = c) /\ (c <= cols => w = cols)
  BY <1>1 DEF w
<1> QED
  BY <1>4, <1>7, <1>8

-----------------------------------------------------------------------------
(* The steps.                                                              *)
ReflowInv == Sized /\ bf \in Buffers(cols, rows) /\ count \in Nat

LEMMA SizesAre ==
  /\ \A s \in Sizes : s.cols \in Nat \ {0, 1} /\ s.rows \in Nat \ {0}
  /\ First \in Sizes /\ \A word \in Words : word \in Seq({0, 1, 2})
<1>1. \A s \in Sizes : s \in [cols : Nat \ {0, 1}, rows : Nat \ {0}]
  BY ReflowAssumption
<1> QED
  BY <1>1, ReflowAssumption

(* A new terminal.                                                         *)
LEMMA InitInv == Init => ReflowInv
<1> SUFFICES ASSUME Init PROVE ReflowInv
  OBVIOUS
<1>1. Sized /\ count \in Nat
  BY SizesAre DEF Init, Sized
<1>2. PICK ls : ls = Blanks(rows, cols)
  OBVIOUS
<1>3. ls \in Seq(Lines(cols))
  BY <1>1, <1>2, BlanksAre DEF Sized
<1>4. bf = [lines |-> ls, start |-> 0, ybase |-> 0, x |-> 0, y |-> 0]
  BY <1>2 DEF Init
<1>5. 0 \in 0..cols /\ 0 \in {v \in Int : v < rows} /\ 0 \in Int
  BY <1>1 DEF Sized
<1>6. bf \in Buffers(cols, rows)
  BY <1>3, <1>4, <1>5 DEF Buffers
<1> QED
  BY <1>1, <1>6 DEF ReflowInv

(* Each step, from lines with their texts to lines with their texts.       *)
LEMMA PrintStep ==
  ASSUME ReflowInv, NEW word \in Words, PrintText(word) \/ PrintInserting(word)
  PROVE  ReflowInv'
<1>1. word \in Seq({0, 1, 2}) /\ Len(word) \in Nat /\ count + 1 \in Nat \ {0}
  BY SizesAre DEF ReflowInv
<1>2. cols' = cols /\ rows' = rows /\ count' = count + Len(word)
  BY DEF PrintText, PrintInserting
<1>3. bf' = PrintedFrom(bf, count + 1, word, FALSE) \/ bf' = PrintedFrom(bf, count + 1, word, TRUE)
  BY DEF PrintText, PrintInserting
<1>4. bf' \in Buffers(cols, rows)
  BY <1>1, <1>3, PrintedFromIs DEF ReflowInv
<1>5. count' \in Nat
  BY <1>1, <1>2 DEF ReflowInv
<1> QED
  BY <1>2, <1>4, <1>5 DEF ReflowInv, Sized, Buffers, Lines

LEMMA LineFeedStep == ASSUME ReflowInv, LineFeed PROVE ReflowInv'
<1>1. PICK x : x = IF bf.x >= cols THEN bf.x - 1 ELSE bf.x
  OBVIOUS
<1>2. PICK at : at = [bf EXCEPT !.x = x]
  OBVIOUS
<1>3. Sized /\ bf \in Buffers(cols, rows) /\ count \in Nat /\ cols \in Nat \ {0, 1}
  BY DEF ReflowInv, Sized
<1>4. x \in 0..cols
  BY <1>1, <1>3, BufferParts
<1>5. at \in Buffers(cols, rows)
  BY <1>2, <1>3, <1>4 DEF Buffers
<1>6. bf' = IF bf.y + 1 > rows - 1 THEN Scrolled(at, FALSE) ELSE [at EXCEPT !.y = bf.y + 1]
  BY <1>1, <1>2 DEF LineFeed
<1>7. bf' \in Buffers(cols, rows)
  <2>1. CASE bf.y + 1 > rows - 1
    BY <1>3, <1>5, <1>6, <2>1, ScrolledIs
  <2>2. CASE ~(bf.y + 1 > rows - 1)
    <3>1. PICK y : y = bf.y + 1
      OBVIOUS
    <3>2. y \in {v \in Int : v < rows}
      BY <1>3, <2>2, <3>1, BufferParts DEF Sized
    <3>3. bf' = [at EXCEPT !.y = y]
      BY <1>6, <2>2, <3>1
    <3> QED
      BY <1>5, <3>2, <3>3 DEF Buffers
  <2> QED
    BY <2>1, <2>2
<1>8. cols' = cols /\ rows' = rows /\ count' = count
  BY DEF LineFeed
<1> QED
  BY <1>3, <1>7, <1>8 DEF ReflowInv, Sized, Buffers, Lines

LEMMA MoveStep ==
  ASSUME ReflowInv, CarriageReturn \/ \E c \in 1..cols, r \in 1..rows : CursorPosition(r, c)
  PROVE  ReflowInv'
<1>1. Sized /\ bf \in Buffers(cols, rows) /\ count \in Nat /\ cols \in Nat \ {0, 1} /\ rows \in Nat \ {0}
  BY DEF ReflowInv, Sized
<1>2. cols' = cols /\ rows' = rows /\ count' = count
  BY DEF CarriageReturn, CursorPosition
<1>3. CASE CarriageReturn
  <2>1. bf' = [bf EXCEPT !.x = 0] /\ 0 \in 0..cols
    BY <1>1, <1>3 DEF CarriageReturn
  <2>2. bf' \in Buffers(cols, rows)
    BY <1>1, <2>1 DEF Buffers
  <2> QED
    BY <1>1, <1>2, <2>2 DEF ReflowInv, Sized, Buffers, Lines
<1>4. ASSUME NEW c \in 1..cols, NEW r \in 1..rows, CursorPosition(r, c) PROVE ReflowInv'
  <2>1. PICK y : y = Min({r, rows}) - 1
    OBVIOUS
  <2>2. PICK x : x = Min({c, cols}) - 1
    OBVIOUS
  <2>3. y \in {v \in Int : v < rows}
    <3>1. r \in Int /\ rows \in Int
      BY <1>1
    <3>2. Min({r, rows}) = IF r <= rows THEN r ELSE rows
      BY <3>1, MinOfTwo
    <3> QED
      BY <1>1, <2>1, <3>2
  <2>4. x \in 0..cols
    <3>1. c \in Int /\ cols \in Int
      BY <1>1
    <3>2. Min({c, cols}) = IF c <= cols THEN c ELSE cols
      BY <3>1, MinOfTwo
    <3> QED
      BY <1>1, <2>2, <3>2
  <2>5. bf' = [bf EXCEPT !.y = y, !.x = x]
    BY <1>4, <2>1, <2>2 DEF CursorPosition
  <2>6. bf' \in Buffers(cols, rows)
    BY <1>1, <2>3, <2>4, <2>5 DEF Buffers
  <2> QED
    BY <1>1, <1>2, <2>6 DEF ReflowInv, Sized, Buffers, Lines
<1> QED
  BY <1>3, <1>4

LEMMA EditStep ==
  ASSUME ReflowInv, NEW l, EditsLine(l), row + 1 \in DOMAIN bf.lines => l \in Lines(cols)
  PROVE  ReflowInv'
<1>1. Sized /\ bf \in Buffers(cols, rows) /\ count \in Nat /\ cols \in Nat
  BY DEF ReflowInv, Sized
<1>2. cols' = cols /\ rows' = rows /\ count' = count
  BY DEF EditsLine
<1>3. PICK i : i = row + 1
  OBVIOUS
<1>4. bf' = [bf EXCEPT !.lines[i] = l]
  BY <1>3 DEF EditsLine
<1>5. [bf EXCEPT !.lines[i] = l] \in Buffers(cols, rows)
  BY <1>1, <1>3, LinesPut
<1> QED
  BY <1>1, <1>2, <1>4, <1>5 DEF ReflowInv, Sized, Buffers, Lines

LEMMA EditsStep ==
  ASSUME ReflowInv,
         \/ \E n \in 1..2 : InsertChars(n) \/ DeleteChars(n) \/ EraseChars(n)
         \/ \E k \in 0..2 : EraseInLine(k)
         \/ RepeatPrecedingCharacter
  PROVE  ReflowInv'
<1>1. bf \in Buffers(cols, rows) /\ cols \in Nat \ {0} /\ cols \in Nat
  BY DEF ReflowInv, Sized
<1>2. PICK old : old = At(bf, row)
  OBVIOUS
<1>3. row + 1 \in DOMAIN bf.lines => old \in Lines(cols)
  BY <1>1, <1>2, BufferParts DEF At
<1>4. bf.x \in Nat /\ bf.x \in 0..cols
  BY <1>1, BufferParts
<1>5. ASSUME NEW n \in 1..2, InsertChars(n) PROVE ReflowInv'
  <2>1. EditsLine(InsertCells(old, bf.x, n))
    BY <1>2, <1>5 DEF InsertChars
  <2>2. row + 1 \in DOMAIN bf.lines => InsertCells(old, bf.x, n) \in Lines(cols)
    BY <1>1, <1>3, <1>4, InsertCellsLine
  <2> QED
    BY <2>1, <2>2, EditStep
<1>6. ASSUME NEW n \in 1..2, DeleteChars(n) PROVE ReflowInv'
  <2>1. EditsLine(DeleteCells(old, bf.x, n))
    BY <1>2, <1>6 DEF DeleteChars
  <2>2. row + 1 \in DOMAIN bf.lines => DeleteCells(old, bf.x, n) \in Lines(cols)
    BY <1>1, <1>3, <1>4, DeleteCellsLine
  <2> QED
    BY <2>1, <2>2, EditStep
<1>7. ASSUME NEW from, NEW to, EditsLine(ReplaceCells(old, from, to)) PROVE ReflowInv'
  <2>1. row + 1 \in DOMAIN bf.lines => ReplaceCells(old, from, to) \in Lines(cols)
    BY <1>1, <1>3, ReplaceCellsLine
  <2> QED
    BY <1>7, <2>1, EditStep
<1>8. ASSUME NEW n \in 1..2, EraseChars(n) PROVE ReflowInv'
  <2>1. EditsLine(ReplaceCells(old, bf.x, bf.x + n))
    BY <1>2, <1>8 DEF EraseChars
  <2> QED
    BY <1>7, <2>1
<1>9. ASSUME NEW k \in 0..2, EraseInLine(k) PROVE ReflowInv'
  <2>1. EditsLine(ReplaceCells(old, IF k = 0 THEN bf.x ELSE 0, IF k = 1 THEN bf.x + 1 ELSE cols))
    BY <1>2, <1>9 DEF EraseInLine
  <2> QED
    BY <1>7, <2>1
<1>10. CASE RepeatPrecedingCharacter
  <2>1. CASE bf.x = 0
    <3>1. EditsLine(SetCell(old, 0, Null, 0))
      BY <1>2, <1>10, <2>1 DEF RepeatPrecedingCharacter
    <3>2. row + 1 \in DOMAIN bf.lines => SetCell(old, 0, Null, 0) \in Lines(cols)
      BY <1>1, <1>3, SetCellLine, CellParts
    <3> QED
      BY <3>1, <3>2, EditStep
  <2>2. CASE bf.x # 0
    <3>1. PICK cell : cell = old.cells[bf.x - 1]
      OBVIOUS
    <3>2. PICK text : text = IF cell.m THEN old.comb[bf.x - 1] ELSE 0
      OBVIOUS
    <3>3. EditsLine(SetCell(old, bf.x, cell, text))
      BY <1>2, <1>10, <2>2, <3>1, <3>2 DEF RepeatPrecedingCharacter
    <3>4. row + 1 \in DOMAIN bf.lines => SetCell(old, bf.x, cell, text) \in Lines(cols)
      <4> SUFFICES ASSUME row + 1 \in DOMAIN bf.lines PROVE SetCell(old, bf.x, cell, text) \in Lines(cols)
        OBVIOUS
      <4>1. old \in Lines(cols) /\ bf.x - 1 \in 0..(cols - 1)
        BY <1>1, <1>3, <1>4, <2>2
      <4>2. cell \in Cells /\ (cell.m => bf.x - 1 \in DOMAIN old.comb) /\ old.comb \in Texts
        BY <1>1, <3>1, <4>1, LineParts
      <4>3. cell.m => text \in Nat
        BY <3>2, <4>2, TextsParts
      <4> QED
        BY <1>1, <4>1, <4>2, <4>3, SetCellLine
    <3> QED
      BY <3>3, <3>4, EditStep
  <2> QED
    BY <2>1, <2>2
<1> QED
  BY <1>5, <1>6, <1>8, <1>9, <1>10

LEMMA ResizeStep ==
  ASSUME ReflowInv, NEW s \in Sizes, Resize(s.cols, s.rows)
  PROVE  ReflowInv'
<1>1. PICK c : c = s.cols
  OBVIOUS
<1>2. PICK r : r = s.rows
  OBVIOUS
<1>3. c \in Nat \ {0, 1} /\ r \in Nat \ {0} /\ Resize(c, r)
  BY <1>1, <1>2, SizesAre
<1>4. Sized /\ bf \in Buffers(cols, rows) /\ count \in Nat /\ cols \in Nat \ {0, 1}
  BY DEF ReflowInv, Sized
<1>5. PICK sized : sized = ResizedRows(bf, c, r)
  OBVIOUS
<1>6. PICK less : less = ReflowedSmaller(sized, c, r)
  OBVIOUS
<1>7. count' = count
  BY <1>3 DEF Resize
<1>8. \/ c < cols /\ less.thrown /\ UNCHANGED <<cols, rows, bf>>
      \/ /\ ~(c < cols /\ less.thrown)
         /\ bf' = IF c > cols THEN ReflowedLarger(sized, c, r) ELSE IF c < cols THEN less.bf ELSE sized
         /\ cols' = c /\ rows' = r
  BY <1>3, <1>5, <1>6 DEF Resize
<1>9. CASE UNCHANGED <<cols, rows, bf>>
  BY <1>4, <1>7, <1>9 DEF ReflowInv, Sized, Buffers, Lines
<1>10. CASE /\ bf' = IF c > cols THEN ReflowedLarger(sized, c, r) ELSE IF c < cols THEN less.bf ELSE sized
            /\ cols' = c /\ rows' = r
  <2>1. bf' \in Buffers(c, r)
    <3>1. CASE c > cols
      <4>1. sized \in Buffers(c, r)
        BY <1>3, <1>4, <1>5, <3>1, ResizedRowsIs
      <4>2. ReflowedLarger(sized, c, r) \in Buffers(c, r)
        BY <1>3, <1>4, <4>1, ReflowedLargerIs
      <4> QED
        BY <1>10, <3>1, <4>2
    <3>2. CASE c < cols
      <4>1. sized \in Buffers(cols, r) /\ sized.x \in 0..c
        BY <1>3, <1>4, <1>5, <3>2, ResizedRowsIs
      <4>2. less.bf \in Buffers(c, r)
        BY <1>3, <1>4, <1>6, <4>1, ReflowedSmallerIs
      <4>3. ~(c > cols)
        BY <1>3, <1>4, <3>2
      <4> QED
        BY <1>10, <3>2, <4>2, <4>3
    <3>3. CASE c = cols
      <4>1. sized \in Buffers(c, r)
        BY <1>3, <1>4, <1>5, <3>3, ResizedRowsIs
      <4> QED
        BY <1>3, <1>4, <1>10, <3>3, <4>1
    <3> QED
      BY <1>3, <1>4, <3>1, <3>2, <3>3
  <2> QED
    BY <1>3, <1>4, <1>7, <1>10, <2>1 DEF ReflowInv, Sized, Buffers, Lines
<1> QED
  BY <1>8, <1>9, <1>10

(* Any step.                                                               *)
LEMMA NextInv == ASSUME ReflowInv, [Next]_vars PROVE ReflowInv'
<1>1. ASSUME NEW word \in Words, PrintText(word) \/ PrintInserting(word) PROVE ReflowInv'
  BY <1>1, PrintStep
<1>2. CASE LineFeed
  BY <1>2, LineFeedStep
<1>3. CASE CarriageReturn \/ \E c \in 1..cols, r \in 1..rows : CursorPosition(r, c)
  BY <1>3, MoveStep
<1>4. CASE \/ \E n \in 1..2 : InsertChars(n) \/ DeleteChars(n) \/ EraseChars(n)
           \/ \E k \in 0..2 : EraseInLine(k)
           \/ RepeatPrecedingCharacter
  BY <1>4, EditsStep
<1>5. ASSUME NEW s \in Sizes, Resize(s.cols, s.rows) PROVE ReflowInv'
  BY <1>5, ResizeStep
<1>6. CASE UNCHANGED vars
  BY <1>6 DEF vars, ReflowInv, Sized, Buffers, Lines
<1> QED
  BY <1>1, <1>2, <1>3, <1>4, <1>5, <1>6 DEF Next

(* The invariant says what the property says.                              *)
LEMMA TextsFound == ReflowInv => AccentsHaveText
<1> SUFFICES ASSUME ReflowInv, NEW i \in DOMAIN bf.lines, NEW j \in DOMAIN bf.lines[i].cells, bf.lines[i].cells[j].m
             PROVE  j \in DOMAIN bf.lines[i].comb
  BY DEF AccentsHaveText
<1>1. cols \in Nat /\ bf \in Buffers(cols, rows)
  BY DEF ReflowInv, Sized
<1>2. PICK l : l = bf.lines[i]
  OBVIOUS
<1>3. l \in Lines(cols)
  BY <1>1, <1>2, BufferParts
<1> QED
  BY <1>1, <1>2, <1>3, LineParts

(* A cell that says that its character has an accent finds its text, for   *)
(* every window, text, edit and sequence of resizes: no copy, in place or  *)
(* not, takes a cell along without its text.                               *)
THEOREM AccentsAlwaysHaveText == Spec => []AccentsHaveText
<1>1. Spec => []ReflowInv
  BY InitInv, NextInv, PTL DEF Spec
<1> QED
  BY <1>1, TextsFound, PTL

-----------------------------------------------------------------------------
(* The list holds the screen: its length, its first row and the cursor's   *)
(* row go together, through scrolling and text.                            *)

(* A list that holds the screen: its rows are the last lines, as many as   *)
(* the first one's place and the rows say, and it turns within its         *)
(* capacity.                                                               *)
Whole(b, h) ==
  /\ Len(b.lines) = b.ybase + h /\ b.ybase \in 0..Scrollback
  /\ b.y \in 0..(h - 1) /\ b.start \in 0..(MaxLength(h) - 1)
Screens == {b \in Buffers(cols, rows) : Whole(b, rows)}

(* The capacity of the list.                                               *)
LEMMA MaxLengthWhole == \A r \in Nat \ {0} : MaxLength(r) = r + Scrollback /\ Scrollback \in Nat \ {0}
  BY ReflowAssumption DEF MaxLength

(* What changes lines and the column only.                                 *)
LEMMA WholeKept ==
  ASSUME NEW b, NEW d, NEW h, Whole(b, h), Len(d.lines) = Len(b.lines), d.ybase = b.ybase, d.y = b.y, d.start = b.start
  PROVE  Whole(d, h)
  BY DEF Whole

(* Writing an element keeps the length.                                    *)
LEMMA PutKeepsLength == ASSUME NEW S, NEW s \in Seq(S), NEW i, NEW e PROVE Len([s EXCEPT ![i] = e]) = Len(s)
  OBVIOUS

(* Writing a line of it too.                                               *)
LEMMA PutWhole ==
  ASSUME NEW w \in Nat, NEW h, NEW b \in Buffers(w, h), Whole(b, h), NEW i, NEW l
  PROVE  Whole([b EXCEPT !.lines[i] = l], h)
<1>1. PICK s : s = [b.lines EXCEPT ![i] = l]
  OBVIOUS
<1>2. Len(s) = Len(b.lines)
  BY <1>1, BufferParts, PutKeepsLength
<1>3. PICK d : d = [b EXCEPT !.lines = s]
  OBVIOUS
<1>4. d.lines = s /\ d.ybase = b.ybase /\ d.y = b.y /\ d.start = b.start
  BY <1>3 DEF Buffers
<1>5. [b EXCEPT !.lines[i] = l] = d
  BY <1>1, <1>3
<1> QED
  BY <1>2, <1>4, <1>5, WholeKept

(* Terminal.scroll keeps a screen: a full list turns, another grows with   *)
(* its first row.                                                          *)
LEMMA ScrolledWhole ==
  ASSUME Sized, NEW nb \in Screens, NEW wrapped \in BOOLEAN
  PROVE  Whole(Scrolled(nb, wrapped), rows) /\ Scrolled(nb, wrapped).y = nb.y
<1>1. rows \in Nat \ {0} /\ nb \in Buffers(cols, rows) /\ cols \in Nat
  BY DEF Sized, Screens
<1>2. /\ nb.lines \in Seq(Lines(cols)) /\ Len(nb.lines) = nb.ybase + rows /\ nb.ybase \in 0..Scrollback
      /\ nb.y \in 0..(rows - 1) /\ nb.start \in 0..(MaxLength(rows) - 1)
  BY <1>1, BufferParts DEF Screens, Whole
<1>3. MaxLength(rows) = rows + Scrollback /\ Scrollback \in Nat \ {0}
  BY <1>1, MaxLengthWhole
<1>4. CASE Len(nb.lines) = MaxLength(rows)
  <2>1. PICK s : s = Append(Tail(nb.lines), Blank(cols, wrapped))
    OBVIOUS
  <2>2. Len(s) = Len(nb.lines)
    <3>1. nb.lines # <<>>
      BY <1>1, <1>2, <1>3, <1>4
    <3> QED
      BY <1>2, <2>1, <3>1
  <2>3. PICK a : a = (nb.start + 1) % MaxLength(rows)
    OBVIOUS
  <2>4. a \in 0..(MaxLength(rows) - 1)
    <3>1. nb.start \in Nat /\ MaxLength(rows) \in Nat \ {0}
      BY <1>1, <1>2, <1>3
    <3> HIDE DEF MaxLength
    <3> QED
      BY <2>3, <3>1
  <2>5. PICK d : d = [nb EXCEPT !.lines = s, !.start = a]
    OBVIOUS
  <2>6. d.lines = s /\ d.start = a /\ d.ybase = nb.ybase /\ d.y = nb.y
    BY <1>1, <2>5 DEF Buffers
  <2>7. Scrolled(nb, wrapped) = d
    BY <1>4, <2>1, <2>3, <2>5 DEF Scrolled
  <2> QED
    BY <1>2, <2>2, <2>4, <2>6, <2>7 DEF Whole
<1>5. CASE Len(nb.lines) # MaxLength(rows)
  <2>1. PICK s : s = Append(nb.lines, Blank(cols, wrapped))
    OBVIOUS
  <2>2. Len(s) = Len(nb.lines) + 1
    BY <1>2, <2>1
  <2>3. PICK a : a = nb.ybase + 1
    OBVIOUS
  <2>4. a \in 0..Scrollback
    <3>1. nb.ybase # Scrollback
      <4>1. nb.ybase + rows # rows + Scrollback
        BY <1>2, <1>3, <1>5, Zenon
      <4>2. rows \in Int /\ Scrollback \in Int
        BY <1>1, <1>3
      <4> QED
        BY <4>1, <4>2
    <3>2. nb.ybase \in 0..Scrollback /\ Scrollback \in Nat
      BY <1>2, <1>3
    <3> QED
      BY <2>3, <3>1, <3>2
  <2>5. PICK d : d = [nb EXCEPT !.lines = s, !.ybase = a]
    OBVIOUS
  <2>6. d.lines = s /\ d.start = nb.start /\ d.ybase = a /\ d.y = nb.y
    BY <1>1, <2>5 DEF Buffers
  <2>7. Scrolled(nb, wrapped) = d
    BY <1>5, <2>1, <2>3, <2>5 DEF Scrolled
  <2>8. Len(s) = a + rows
    BY <1>1, <1>2, <2>2, <2>3
  <2> QED
    BY <1>2, <2>4, <2>6, <2>7, <2>8 DEF Whole
<1> QED
  BY <1>4, <1>5

(* The same, with the lines.                                               *)
LEMMA ScrolledScreen ==
  ASSUME Sized, NEW nb \in Screens, NEW wrapped \in BOOLEAN
  PROVE  Scrolled(nb, wrapped) \in Screens
  BY ScrolledWhole, ScrolledIs DEF Screens

(* A row that is wrapped into keeps it.                                    *)
LEMMA WrappedToWhole ==
  ASSUME Sized, NEW nb \in Screens
  PROVE  WrappedTo(nb) \in Screens
<1>1. rows \in Nat \ {0} /\ nb \in Buffers(cols, rows) /\ Whole(nb, rows) /\ cols \in Nat
  BY DEF Sized, Screens
<1>2. WrappedTo(nb) \in Buffers(cols, rows)
  BY <1>1, WrappedToIs
<1>3. PICK at : at = [nb EXCEPT !.x = 0]
  OBVIOUS
<1>4. at \in Screens
  <2>1. at \in Buffers(cols, rows)
    BY <1>1, <1>3 DEF Buffers
  <2>2. at.lines = nb.lines /\ at.ybase = nb.ybase /\ at.y = nb.y /\ at.start = nb.start
    BY <1>1, <1>3 DEF Buffers
  <2> QED
    BY <1>1, <2>1, <2>2, WholeKept DEF Screens
<1>5. CASE nb.y + 1 > rows - 1
  BY <1>3, <1>4, <1>5, ScrolledScreen DEF WrappedTo
<1>6. CASE ~(nb.y + 1 > rows - 1)
  <2>1. PICK y : y = nb.y + 1
    OBVIOUS
  <2>2. y \in 0..(rows - 1) /\ y \in {i \in Int : i < rows}
    <3>1. nb.y \in 0..(rows - 1)
      BY <1>1 DEF Whole
    <3> QED
      BY <1>1, <1>6, <2>1, <3>1
  <2>3. PICK b : b = [at EXCEPT !.y = y]
    OBVIOUS
  <2>4. b \in Buffers(cols, rows) /\ b.lines = at.lines /\ b.ybase = at.ybase /\ b.y = y /\ b.start = at.start
    BY <1>4, <2>2, <2>3 DEF Screens, Buffers
  <2>5. Whole(b, rows)
    BY <1>4, <2>2, <2>4 DEF Screens, Whole
  <2>6. PICK i : i = nb.y + 2
    OBVIOUS
  <2>7. PICK l : l = [b.lines[i] EXCEPT !.wrapped = TRUE]
    OBVIOUS
  <2>8. WrappedTo(nb) = [at EXCEPT !.y = nb.y + 1, !.lines[i].wrapped = TRUE]
    BY <1>3, <1>6, <2>6 DEF WrappedTo
  <2>9. [at EXCEPT !.y = nb.y + 1, !.lines[i].wrapped = TRUE] = [[at EXCEPT !.y = y] EXCEPT !.lines[i].wrapped = TRUE]
    BY <2>1
  <2>10. [b EXCEPT !.lines[i].wrapped = TRUE] = [b EXCEPT !.lines[i] = l]
    BY <2>7
  <2>11. Whole([b EXCEPT !.lines[i] = l], rows)
    BY <1>1, <2>4, <2>5, PutWhole
  <2> QED
    BY <1>2, <2>3, <2>8, <2>9, <2>10, <2>11 DEF Screens
<1> QED
  BY <1>5, <1>6

(* A character that is printed keeps it.                                   *)
LEMMA PrintedWhole ==
  ASSUME Sized, NEW nb \in Screens, NEW k \in Nat \ {0}, NEW w \in {0, 1, 2}, NEW insert \in BOOLEAN
  PROVE  Printed(nb, k, w, insert) \in Screens
<1>1. Printed(nb, k, w, insert) \in Buffers(cols, rows)
  BY PrintedIs DEF Screens
<1>2. ASSUME NEW b \in Screens PROVE Whole(Combined(b, k), rows)
  <2>1. b \in Buffers(cols, rows) /\ Whole(b, rows) /\ cols \in Nat
    BY DEF Screens, Sized
  <2>2. PICK r : r = b.ybase + b.y + 1
    OBVIOUS
  <2>3. PICK l : l = AddCodepoint(b.lines[r], IF b.lines[r].cells[b.x - 1].w = 0 THEN b.x - 2 ELSE b.x - 1, k)
    OBVIOUS
  <2>4. Combined(b, k) = [b EXCEPT !.lines[r] = l]
    BY <2>2, <2>3 DEF Combined
  <2> QED
    BY <2>1, <2>4, PutWhole
<1>3. ASSUME NEW b \in Screens PROVE Whole(Placed(b, k, w, insert), rows)
  <2>1. b \in Buffers(cols, rows) /\ Whole(b, rows) /\ cols \in Nat
    BY DEF Screens, Sized
  <2>2. PICK r : r = b.ybase + b.y + 1
    OBVIOUS
  <2>3. PICK l : l = IF insert THEN Inserted(b.lines[r], b.x, w) ELSE b.lines[r]
    OBVIOUS
  <2>4. PICK c : c = SetCell(l, b.x, Char(k, w), 0)
    OBVIOUS
  <2>5. PICK e : e = IF w = 2 THEN SetCell(c, b.x + 1, Char(0, 0), 0) ELSE c
    OBVIOUS
  <2>6. PICK x : x = b.x + Max({w, 1})
    OBVIOUS
  <2>7. Placed(b, k, w, insert) = [b EXCEPT !.lines[r] = e, !.x = x]
    BY <2>2, <2>3, <2>4, <2>5, <2>6 DEF Placed
  <2>8. PICK s : s = [b.lines EXCEPT ![r] = e]
    OBVIOUS
  <2>9. Len(s) = Len(b.lines)
    BY <2>1, <2>8, BufferParts, PutKeepsLength
  <2>10. [b EXCEPT !.lines[r] = e, !.x = x] = [b EXCEPT !.lines = s, !.x = x]
    BY <2>8
  <2>11. PICK d : d = [b EXCEPT !.lines = s, !.x = x]
    OBVIOUS
  <2>12. d.lines = s /\ d.ybase = b.ybase /\ d.y = b.y /\ d.start = b.start
    BY <2>1, <2>11 DEF Buffers
  <2> QED
    BY <2>1, <2>7, <2>9, <2>10, <2>11, <2>12, WholeKept
<1>4. WrappedTo(nb) \in Screens
  BY WrappedToWhole
<1> QED
  BY <1>1, <1>2, <1>3, <1>4 DEF Printed, Screens

(* So do all the characters of a text.                                     *)
LEMMA PrintedFromWhole ==
  ASSUME Sized, NEW nb \in Screens, NEW k \in Nat \ {0}, NEW word \in Seq({0, 1, 2}), NEW insert \in BOOLEAN
  PROVE  PrintedFrom(nb, k, word, insert) \in Screens
<1>1. \A b \in Screens, h \in Nat \ {0}, w \in {0, 1, 2} : Printed(b, h, w, insert) \in Screens
  BY PrintedWhole
<1> QED
  BY <1>1, PrintedFromIn

-----------------------------------------------------------------------------
(* A change of the rows, and module Screen's.                              *)

(* The buffer as module Screen sees it.                                    *)
Seen(b, h) ==
  [len |-> Len(b.lines), max |-> MaxLength(h), ybase |-> b.ybase, ydisp |-> b.ybase,
   x |-> b.x, y |-> b.y, top |-> 0, bottom |-> h - 1, savedY |-> 0]

(* The two helpers of module Screen.                                       *)
LEMMA LessGreater ==
  /\ \A a, d \in Int : Rows!Lesser(a, d) = IF a < d THEN a ELSE d
  /\ \A a, d \in Int : Rows!Greater(a, d) = IF a > d THEN a ELSE d
  BY DEF Rows!Lesser, Rows!Greater

(* Blank lines are as many as asked for.                                   *)
LEMMA BlanksLength == ASSUME NEW n \in Nat, NEW w \in Nat PROVE Len(Blanks(n, w)) = n
  BY DEF Blanks

(* What a list that holds the screen is made of.                           *)
LEMMA WholeParts ==
  ASSUME NEW w \in Nat, NEW h \in Nat \ {0}, NEW b \in Buffers(w, h), Whole(b, h)
  PROVE  /\ b.lines \in Seq(Lines(w)) /\ Len(b.lines) \in Nat /\ Len(b.lines) = b.ybase + h
         /\ b.ybase \in Nat /\ b.ybase <= Scrollback /\ b.y \in Nat /\ b.y <= h - 1
         /\ b.start \in 0..(MaxLength(h) - 1) /\ b.x \in 0..w /\ Scrollback \in Nat \ {0}
         /\ MaxLength(h) = h + Scrollback
<1>1. b.lines \in Seq(Lines(w)) /\ Len(b.lines) \in Nat /\ b.x \in 0..w
  BY BufferParts
<1>2. MaxLength(h) = h + Scrollback /\ Scrollback \in Nat \ {0}
  BY MaxLengthWhole
<1> QED
  BY <1>1, <1>2 DEF Whole

(* Two sequences together have the elements of both.                       *)
LEMMA LengthOfBoth == ASSUME NEW S, NEW s \in Seq(S), NEW t \in Seq(S) PROVE Len(s \o t) = Len(s) + Len(t)
  OBVIOUS

(* A buffer of module Screen is what its parts are.                        *)
Views == [len : Int, max : Int, ybase : Int, ydisp : Int, x : Int, y : Int, top : Int, bottom : Int, savedY : Int]

LEMMA SameViews ==
  ASSUME NEW v \in Views, NEW z \in Views, v.len = z.len, v.max = z.max, v.ybase = z.ybase, v.ydisp = z.ydisp,
         v.x = z.x, v.y = z.y, v.top = z.top, v.bottom = z.bottom, v.savedY = z.savedY
  PROVE  v = z
  BY DEF Views

(* The parts of what is seen.                                              *)
LEMMA SeenParts ==
  ASSUME NEW w \in Nat, NEW h \in Nat \ {0}, NEW b \in Buffers(w, h)
  PROVE  /\ Seen(b, h) \in Views /\ Seen(b, h).len = Len(b.lines) /\ Seen(b, h).max = MaxLength(h)
         /\ Seen(b, h).ybase = b.ybase /\ Seen(b, h).ydisp = b.ybase /\ Seen(b, h).x = b.x
         /\ Seen(b, h).y = b.y /\ Seen(b, h).top = 0 /\ Seen(b, h).bottom = h - 1 /\ Seen(b, h).savedY = 0
<1>1. PICK len, max, n, x, y, k : len = Len(b.lines) /\ max = MaxLength(h) /\ n = b.ybase /\ x = b.x /\ y = b.y /\ k = h - 1
  OBVIOUS
<1>2. len \in Int /\ max \in Int /\ n \in Int /\ x \in Int /\ y \in Int /\ k \in Int
  BY <1>1, BufferParts, MaxLengthIs
<1>3. Seen(b, h) = [len |-> len, max |-> max, ybase |-> n, ydisp |-> n, x |-> x, y |-> y,
                    top |-> 0, bottom |-> k, savedY |-> 0]
  BY <1>1 DEF Seen
<1> QED
  BY <1>1, <1>2, <1>3 DEF Views

(* What a change of size moves, and what a reflow leaves.                  *)
ViewOf(v, b) == v.len = Len(b.lines) /\ v.ybase = b.ybase /\ v.ydisp = b.ybase /\ v.y = b.y
SameRest(v, z) == v.max = z.max /\ v.x = z.x /\ v.top = z.top /\ v.bottom = z.bottom /\ v.savedY = z.savedY

(* A part of a sequence has the elements from its first to its last.       *)
LEMMA SubSeqLength ==
  ASSUME NEW S, NEW s \in Seq(S), NEW i \in 1..(Len(s) + 1), NEW j \in 0..Len(s), i <= j + 1
  PROVE  SubSeq(s, i, j) \in Seq(S) /\ Len(SubSeq(s, i, j)) = j - i + 1
  BY SubSeqProperties

(* More rows (Buffer.resize): the lists hold the screens, and module       *)
(* Screen sees the same rows pulled from the history.                      *)
LEMMA GrownSeen ==
  ASSUME Sized, NEW w \in Nat, NEW b \in Buffers(w, rows), Whole(b, rows), NEW r \in Nat, r > rows, b.start = 0,
         NEW v \in Views, ViewOf(v, b)
  PROVE  /\ Whole(Grown(b, w, r), r) /\ Rows!Grown(v, r) \in Views
         /\ ViewOf(Rows!Grown(v, r), Grown(b, w, r)) /\ SameRest(Rows!Grown(v, r), v)
<1>1. rows \in Nat \ {0}
  BY DEF Sized
<1>2. PICK n, y, len : n = b.ybase /\ y = b.y /\ len = Len(b.lines)
  OBVIOUS
<1>3. /\ n \in Nat /\ y \in Nat /\ y <= rows - 1 /\ n <= Scrollback /\ len = n + rows /\ b.lines \in Seq(Lines(w))
      /\ Scrollback \in Nat \ {0}
  BY <1>1, <1>2, WholeParts
<1>4. PICK p : p = IF y + 1 >= rows THEN IF n <= r - rows THEN n ELSE r - rows ELSE 0
  OBVIOUS
<1>5. p \in Nat /\ p <= r - rows /\ p <= n
  BY <1>1, <1>3, <1>4
<1>6. (IF b.y + 1 >= rows THEN Min({b.ybase, r - rows}) ELSE 0) = p
  <2>1. Min({n, r - rows}) = IF n <= r - rows THEN n ELSE r - rows
    <3>1. r - rows \in Int /\ n \in Int
      BY <1>1, <1>3
    <3> QED
      BY <3>1, MinOfTwo
  <2> QED
    BY <1>2, <1>4, <2>1
<1>7. PICK k : k = r - rows - p
  OBVIOUS
<1>8. k \in Nat
  BY <1>1, <1>5, <1>7
<1>9. PICK s : s = b.lines \o Blanks(k, w)
  OBVIOUS
<1>10. Len(s) = len + k
  <2>1. PICK e : e = Blanks(k, w)
    OBVIOUS
  <2>2. e \in Seq(Lines(w)) /\ Len(e) = k
    BY <1>8, <2>1, BlanksAre, BlanksLength
  <2>3. s = b.lines \o e
    BY <1>9, <2>1
  <2>4. Len(s) = Len(b.lines) + Len(e)
    BY <1>3, <2>2, <2>3, LengthOfBoth
  <2> QED
    BY <1>2, <2>2, <2>4
<1>11. PICK d : d = [b EXCEPT !.lines = s, !.ybase = n - p, !.y = y + p]
  OBVIOUS
<1>12. Grown(b, w, r) = d
  BY <1>2, <1>6, <1>7, <1>9, <1>11 DEF Grown
<1>13. d.lines = s /\ d.ybase = n - p /\ d.y = y + p /\ d.start = 0 /\ d.x = b.x
  BY <1>11 DEF Buffers
<1>14. Whole(d, r)
  <2>1. len + k = (n - p) + r /\ n - p \in 0..Scrollback /\ y + p \in 0..(r - 1)
    BY <1>1, <1>3, <1>5, <1>7
  <2>2. 0 \in 0..(MaxLength(r) - 1)
    <3>1. r \in Nat \ {0}
      BY <1>1
    <3> QED
      BY <3>1, MaxLengthWhole
  <2> QED
    BY <1>10, <1>13, <2>1, <2>2 DEF Whole
<1>16. v.len = len /\ v.ybase = n /\ v.ydisp = n /\ v.y = y
  BY <1>2 DEF ViewOf
<1>17. Rows!Grown(v, r) = [v EXCEPT !.len = len + k, !.ybase = n - p, !.ydisp = n - p, !.y = y + p]
  <2>1. Rows!Greater(n + r - len, 0) = r - rows
    <3>1. n + r - len = r - rows /\ r - rows \in Int /\ r - rows > 0
      BY <1>1, <1>3
    <3> QED
      BY <3>1, LessGreater
  <2>2. (IF len <= n + y + 1 THEN Rows!Lesser(n, r - rows) ELSE 0) = p
    <3>1. r - rows \in Int /\ n \in Int
      BY <1>1, <1>3
    <3>2. Rows!Lesser(n, r - rows) = IF n < r - rows THEN n ELSE r - rows
      BY <3>1, LessGreater
    <3>3. (len <= n + y + 1) <=> (y + 1 >= rows)
      BY <1>1, <1>3
    <3> QED
      BY <1>1, <1>3, <1>4, <3>2, <3>3
  <2>3. Rows!Greater(n - p, 0) = n - p
    <3>1. n - p \in Nat
      BY <1>3, <1>5
    <3> QED
      BY <3>1, LessGreater
  <2>4. Rows!Lesser(y, r - 1) = y
    <3>1. y \in Int /\ r - 1 \in Int /\ y < r - 1
      BY <1>1, <1>3
    <3> QED
      BY <3>1, LessGreater
  <2> QED
    BY <1>7, <1>16, <2>1, <2>2, <2>3, <2>4 DEF Rows!Grown
<1>18. PICK a, m, e : a = len + k /\ m = n - p /\ e = y + p
  OBVIOUS
<1>19. a \in Int /\ m \in Int /\ e \in Int
  BY <1>1, <1>3, <1>5, <1>8, <1>18
<1>20. PICK g : g = [v EXCEPT !.len = a, !.ybase = m, !.ydisp = m, !.y = e]
  OBVIOUS
<1>21. g \in Views /\ g.len = a /\ g.ybase = m /\ g.ydisp = m /\ g.y = e /\ SameRest(g, v)
  BY <1>19, <1>20 DEF Views, SameRest
<1>22. ViewOf(g, d)
  BY <1>10, <1>13, <1>18, <1>21 DEF ViewOf
<1>23. Rows!Grown(v, r) = g
  BY <1>17, <1>18, <1>20
<1> QED
  BY <1>12, <1>14, <1>21, <1>22, <1>23

(* Fewer rows: the same, with the rows popped and those pushed.            *)
LEMMA ShrunkSeen ==
  ASSUME Sized, NEW w \in Nat, NEW b \in Buffers(w, rows), Whole(b, rows), NEW r \in Nat \ {0}, r <= rows,
         b.start \in 0..(MaxLength(r) - 1), NEW v \in Views, ViewOf(v, b)
  PROVE  /\ Whole(Shrunk(b, r), r) /\ Rows!Shrunk(v, r, MaxLength(r)) \in Views
         /\ ViewOf(Rows!Shrunk(v, r, MaxLength(r)), Shrunk(b, r)) /\ SameRest(Rows!Shrunk(v, r, MaxLength(r)), v)
<1>1. rows \in Nat \ {0}
  BY DEF Sized
<1>2. PICK n, y, len, max : n = b.ybase /\ y = b.y /\ len = Len(b.lines) /\ max = MaxLength(r)
  OBVIOUS
<1>3. /\ n \in Nat /\ y \in Nat /\ y <= rows - 1 /\ n <= Scrollback /\ len = n + rows /\ b.lines \in Seq(Lines(w))
      /\ Scrollback \in Nat \ {0} /\ len \in Nat
  BY <1>1, <1>2, WholeParts
<1>4. max = r + Scrollback
  BY <1>2, MaxLengthWhole
<1>5. PICK p : p = IF rows - r <= rows - 1 - y THEN rows - r ELSE rows - 1 - y
  OBVIOUS
<1>6. p \in Nat /\ p <= rows - r /\ p <= rows - 1 - y
  BY <1>1, <1>3, <1>5
<1>7. Min({rows - r, rows - 1 - b.y}) = p
  <2>1. rows - r \in Int /\ rows - 1 - y \in Int
    BY <1>1, <1>3
  <2> QED
    BY <1>2, <1>5, <2>1, MinOfTwo
<1>8. PICK q : q = rows - r - p
  OBVIOUS
<1>9. q \in Nat
  BY <1>1, <1>6, <1>8
<1>10. PICK t : t = IF len - p - max > 0 THEN len - p - max ELSE 0
  OBVIOUS
<1>11. /\ t \in Nat /\ t = (IF n + q - Scrollback > 0 THEN n + q - Scrollback ELSE 0)
       /\ n + q - t \in 0..Scrollback /\ len - p - t = (n + q - t) + r
  <2>1. len - p - max = n + q - Scrollback
    BY <1>1, <1>3, <1>4, <1>6, <1>8
  <2>2. t = IF n + q - Scrollback > 0 THEN n + q - Scrollback ELSE 0
    BY <1>10, <2>1
  <2> QED
    BY <1>1, <1>3, <1>6, <1>8, <1>9, <2>2
<1>12. Max({len - p - max, 0}) = t
  <2>1. len - p - max \in Int /\ 0 \in Int
    BY <1>3, <1>4, <1>6
  <2>2. Max({len - p - max, 0}) = IF len - p - max <= 0 THEN 0 ELSE len - p - max
    BY <2>1, MaxOfTwo
  <2> QED
    BY <1>10, <2>1, <2>2
<1>13. Max({n + q - t, 0}) = n + q - t
  <2>1. n + q - t \in Nat /\ 0 \in Int
    BY <1>11
  <2>2. Max({n + q - t, 0}) = IF n + q - t <= 0 THEN 0 ELSE n + q - t
    BY <2>1, MaxOfTwo
  <2> QED
    BY <2>1, <2>2
<1>14. PICK e : e = IF y <= r - 1 THEN y ELSE r - 1
  OBVIOUS
<1>15. e \in 0..(r - 1) /\ Min({y, r - 1}) = e
  <2>1. y \in Int /\ r - 1 \in Int
    BY <1>3
  <2>2. Min({y, r - 1}) = e
    BY <1>14, <2>1, MinOfTwo
  <2> QED
    BY <1>3, <1>14, <2>2
<1>16. PICK s : s = SubSeq(b.lines, t + 1, len - p)
  OBVIOUS
<1>17. Len(s) = len - p - t
  <2>1. t + 1 \in 1..(len + 1) /\ len - p \in 0..len /\ len - p - t \in Nat /\ t <= len - p
    BY <1>1, <1>3, <1>6, <1>11, SMTT(30)
  <2>2. PICK i, j : i = t + 1 /\ j = len - p
    OBVIOUS
  <2>3. i \in 1..(Len(b.lines) + 1) /\ j \in 0..Len(b.lines) /\ i <= j + 1 /\ j - i + 1 = len - p - t
    <3>1. t \in Int /\ p \in Int /\ len \in Int
      BY <1>3, <1>6, <1>11
    <3>2. i <= j + 1 /\ j - i + 1 = len - p - t
      BY <2>1, <2>2, <3>1
    <3>3. i \in 1..(len + 1) /\ j \in 0..len
      BY <2>1, <2>2
    <3> QED
      BY <1>2, <3>2, <3>3
  <2>4. Len(SubSeq(b.lines, i, j)) = j - i + 1
    BY <1>3, <2>3, SubSeqLength
  <2> QED
    BY <1>16, <2>2, <2>3, <2>4
<1>18. PICK d : d = [b EXCEPT !.lines = s, !.ybase = n + q - t, !.y = e]
  OBVIOUS
<1>19. Shrunk(b, r) = d
  BY <1>2, <1>7, <1>8, <1>12, <1>13, <1>15, <1>16, <1>18 DEF Shrunk
<1>20. d.lines = s /\ d.ybase = n + q - t /\ d.y = e /\ d.start = b.start
  BY <1>18 DEF Buffers
<1>21. Whole(d, r)
  BY <1>11, <1>15, <1>17, <1>20 DEF Whole
<1>22. v.len = len /\ v.ybase = n /\ v.ydisp = n /\ v.y = y
  BY <1>2 DEF ViewOf
<1>23. Rows!Shrunk(v, r, max) = [v EXCEPT !.len = len - p - t, !.ybase = n + q - t, !.ydisp = n + q - t, !.y = e]
  <2>1. Rows!Greater(len - n - y - 1, 0) = rows - 1 - y
    <3>1. len - n - y - 1 = rows - 1 - y /\ rows - 1 - y \in Nat
      BY <1>1, <1>3
    <3> QED
      BY <3>1, LessGreater
  <2>2. Rows!Lesser(rows - r, rows - 1 - y) = p
    <3>1. rows - r \in Int /\ rows - 1 - y \in Int
      BY <1>1, <1>3
    <3>2. Rows!Lesser(rows - r, rows - 1 - y) = IF rows - r < rows - 1 - y THEN rows - r ELSE rows - 1 - y
      BY <3>1, LessGreater
    <3> QED
      BY <1>5, <3>1, <3>2
  <2>3. Rows!Greater(len - p - max, 0) = t
    <3>1. len - p - max \in Int
      BY <1>3, <1>4, <1>6
    <3> QED
      BY <1>10, <3>1, LessGreater
  <2>4. Rows!Greater(n + q - t, 0) = n + q - t
    <3>1. n + q - t \in Nat
      BY <1>11
    <3> QED
      BY <3>1, LessGreater
  <2>5. Rows!Lesser(y, r - 1) = e
    <3>1. y \in Int /\ r - 1 \in Int
      BY <1>3
    <3>2. Rows!Lesser(y, r - 1) = IF y < r - 1 THEN y ELSE r - 1
      BY <3>1, LessGreater
    <3> QED
      BY <1>14, <3>1, <3>2
  <2> QED
    BY <1>8, <1>22, <2>1, <2>2, <2>3, <2>4, <2>5 DEF Rows!Shrunk
<1>24. PICK a, m : a = len - p - t /\ m = n + q - t
  OBVIOUS
<1>25. a \in Int /\ m \in Int /\ e \in Int
  <2>1. a \in Int
    BY <1>3, <1>6, <1>11, <1>24
  <2>2. m \in Int
    BY <1>11, <1>24
  <2> QED
    BY <1>15, <2>1, <2>2
<1>26. PICK g : g = [v EXCEPT !.len = a, !.ybase = m, !.ydisp = m, !.y = e]
  OBVIOUS
<1>27. g \in Views /\ g.len = a /\ g.ybase = m /\ g.ydisp = m /\ g.y = e /\ SameRest(g, v)
  BY <1>25, <1>26 DEF Views, SameRest
<1>28. ViewOf(g, d)
  BY <1>17, <1>20, <1>24, <1>27 DEF ViewOf
<1>29. Rows!Shrunk(v, r, max) = g
  BY <1>23, <1>24, <1>26
<1> QED
  BY <1>2, <1>19, <1>21, <1>27, <1>28, <1>29

(* The rows of a resize are those of module Screen.                        *)
LEMMA ResizedRowsSeen ==
  ASSUME Sized, NEW nb \in Screens, NEW c \in Nat \ {0, 1}, NEW r \in Nat \ {0}
  PROVE  /\ Whole(ResizedRows(nb, c, r), r) /\ ResizedRows(nb, c, r) \in Buffers(IF c > cols THEN c ELSE cols, r)
         /\ Rows!ResizedRows(Seen(nb, rows), "normal", c, r) = Seen(ResizedRows(nb, c, r), r)
<1> DEFINE w == IF c > cols THEN c ELSE cols
<1>1. cols \in Nat \ {0, 1} /\ rows \in Nat \ {0}
  BY DEF Sized
<1>2. w \in Nat /\ Max({c, cols}) = w
  BY <1>1, WideIs DEF Screens
<1>3. nb \in Buffers(cols, rows) /\ Whole(nb, rows)
  BY DEF Screens
<1>4. PICK b : b = Wide(nb, c, r)
  OBVIOUS
<1>5. /\ b \in Buffers(w, rows) /\ b.x = (IF nb.x <= c - 1 THEN nb.x ELSE c - 1)
      /\ Len(b.lines) = Len(nb.lines) /\ b.ybase = nb.ybase /\ b.y = nb.y
      /\ b.start = IF r = rows THEN nb.start ELSE 0
  BY <1>3, <1>4, WideIs
<1>6. PICK R : R = ResizedRows(nb, c, r)
  OBVIOUS
<1>7. R = IF r > rows THEN Grown(b, w, r) ELSE Shrunk(b, r)
  BY <1>2, <1>4, <1>6 DEF ResizedRows, Wide
<1> HIDE DEF w
<1>8. R \in Buffers(w, r)
  <2>1. ResizedRows(nb, c, r) \in Buffers(IF c > cols THEN c ELSE cols, r)
    <3>1. (c >= cols => ResizedRows(nb, c, r) \in Buffers(c, r)) /\ (c <= cols => ResizedRows(nb, c, r) \in Buffers(cols, r))
      BY <1>3, ResizedRowsIs
    <3>2. c >= cols \/ c <= cols
      BY <1>1
    <3>3. c > cols => c >= cols
      BY <1>1
    <3>4. ~(c > cols) => c <= cols
      BY <1>1
    <3> QED
      BY <3>1, <3>3, <3>4
  <2> QED
    BY <1>6, <2>1 DEF w
<1>9. PICK v : v = Seen(nb, rows)
  OBVIOUS
<1>10. /\ v \in Views /\ v.len = Len(nb.lines) /\ v.ybase = nb.ybase /\ v.ydisp = nb.ybase /\ v.y = nb.y
       /\ v.x = nb.x /\ v.savedY = 0
  BY <1>1, <1>3, <1>9, SeenParts
<1>11. ViewOf(v, b)
  BY <1>5, <1>10 DEF ViewOf
<1>12. Whole(b, rows) /\ (r # rows => b.start = 0) /\ (r = rows => b.start = nb.start)
  <2>1. 0 \in 0..(MaxLength(rows) - 1)
    BY <1>1, MaxLengthWhole
  <2>2. b.start \in 0..(MaxLength(rows) - 1)
    BY <1>3, <1>5, <2>1 DEF Whole
  <2> QED
    BY <1>3, <1>5, <2>2 DEF Whole
<1>13. PICK S : S = IF r > rows THEN Rows!Grown(v, r) ELSE Rows!Shrunk(v, r, MaxLength(r))
  OBVIOUS
<1>14. Whole(R, r) /\ S \in Views /\ ViewOf(S, R)
  <2>1. CASE r > rows
    <3>1. b.start = 0 /\ r \in Nat
      BY <1>1, <1>12, <2>1
    <3>2. /\ Whole(Grown(b, w, r), r) /\ Rows!Grown(v, r) \in Views
          /\ ViewOf(Rows!Grown(v, r), Grown(b, w, r))
      BY <1>2, <1>5, <1>10, <1>11, <1>12, <2>1, <3>1, GrownSeen
    <3> QED
      BY <1>7, <1>13, <2>1, <3>2
  <2>2. CASE ~(r > rows)
    <3>1. r <= rows
      BY <1>1, <2>2
    <3>2. b.start \in 0..(MaxLength(r) - 1)
      <4>1. 0 \in 0..(MaxLength(r) - 1)
        BY MaxLengthWhole
      <4>2. nb.start \in 0..(MaxLength(rows) - 1)
        BY <1>3 DEF Whole
      <4> QED
        BY <1>12, <4>1, <4>2
    <3>3. /\ Whole(Shrunk(b, r), r) /\ Rows!Shrunk(v, r, MaxLength(r)) \in Views
          /\ ViewOf(Rows!Shrunk(v, r, MaxLength(r)), Shrunk(b, r))
      BY <1>2, <1>5, <1>10, <1>11, <1>12, <3>1, <3>2, ShrunkSeen
    <3> QED
      BY <1>7, <1>13, <2>2, <3>3
  <2> QED
    BY <2>1, <2>2
<1>15. v.len # 0
  <2>1. Len(nb.lines) = nb.ybase + rows /\ nb.ybase \in Nat
    BY <1>1, <1>3, WholeParts
  <2> QED
    BY <1>1, <1>10, <2>1
<1>16. R.x = b.x
  BY <1>5, <1>7 DEF Grown, Shrunk, Buffers
<1>17. PICK max, x, k : max = MaxLength(r) /\ x = b.x /\ k = r - 1
  OBVIOUS
<1>18. max \in Int /\ x \in Int /\ k \in Int
  <2>1. b.x \in 0..w
    BY <1>2, <1>5, BufferParts
  <2>2. b.x \in Int /\ r - 1 \in Int
    BY <1>2, <2>1
  <2>3. MaxLength(r) \in Int
    BY MaxLengthIs
  <2> QED
    BY <1>17, <2>2, <2>3
<1>19. Rows!Lesser(v.x, c - 1) = x /\ Rows!Lesser(0, k) = 0
  <2>1. nb.x \in Int /\ c - 1 \in Int /\ k \in Nat
    BY <1>1, <1>3, <1>17, BufferParts
  <2>2. Rows!Lesser(nb.x, c - 1) = IF nb.x < c - 1 THEN nb.x ELSE c - 1
    BY <2>1, LessGreater
  <2>3. (IF nb.x < c - 1 THEN nb.x ELSE c - 1) = IF nb.x <= c - 1 THEN nb.x ELSE c - 1
    BY <2>1
  <2>4. Rows!Lesser(0, k) = 0
    BY <2>1, LessGreater
  <2> QED
    BY <1>5, <1>10, <1>17, <2>2, <2>3, <2>4
<1>20. Rows!MaxLength("normal", r) = max
  BY <1>17 DEF Rows!MaxLength, MaxLength
<1>21. Rows!ResizedRows(v, "normal", c, r) =
         [S EXCEPT !.max = max, !.x = x, !.savedY = 0, !.top = 0, !.bottom = k]
  <2>1. MaxLength(r) = max /\ r - 1 = k
    BY <1>17
  <2> QED
    BY <1>10, <1>13, <1>15, <1>19, <1>20, <2>1 DEF Rows!ResizedRows
<1>22. PICK z : z = [S EXCEPT !.max = max, !.x = x, !.savedY = 0, !.top = 0, !.bottom = k]
  OBVIOUS
<1>23. z \in Views /\ z.max = max /\ z.x = x /\ z.savedY = 0 /\ z.top = 0 /\ z.bottom = k /\ ViewOf(z, R)
  <2>1. S \in Views /\ ViewOf(S, R)
    BY <1>14
  <2>2. z \in Views /\ z.max = max /\ z.x = x /\ z.savedY = 0 /\ z.top = 0 /\ z.bottom = k
    <3>1. PICK u : u = [S EXCEPT !.max = max, !.x = x]
      OBVIOUS
    <3>2. u \in Views /\ u.max = max /\ u.x = x
      BY <1>18, <2>1, <3>1 DEF Views
    <3>3. z = [u EXCEPT !.savedY = 0, !.top = 0, !.bottom = k]
      BY <1>22, <3>1
    <3>4. PICK t : t = [u EXCEPT !.savedY = 0]
      OBVIOUS
    <3>5. t \in Views /\ t.max = u.max /\ t.x = u.x /\ t.savedY = 0
      BY <3>2, <3>4 DEF Views
    <3>6. z = [t EXCEPT !.top = 0, !.bottom = k]
      BY <3>3, <3>4
    <3>7. z \in Views /\ z.max = t.max /\ z.x = t.x /\ z.savedY = t.savedY /\ z.top = 0 /\ z.bottom = k
      BY <1>18, <3>5, <3>6 DEF Views
    <3> QED
      BY <3>2, <3>5, <3>7
  <2>3. z.len = S.len /\ z.ybase = S.ybase /\ z.ydisp = S.ydisp /\ z.y = S.y
    BY <1>22, <2>1 DEF Views
  <2> QED
    BY <2>1, <2>2, <2>3 DEF ViewOf
<1>24. z = Seen(R, r)
  <2>1. PICK e : e = Seen(R, r)
    OBVIOUS
  <2>2. /\ e \in Views /\ e.len = Len(R.lines) /\ e.max = max /\ e.ybase = R.ybase /\ e.ydisp = R.ybase
        /\ e.x = x /\ e.y = R.y /\ e.top = 0 /\ e.bottom = k /\ e.savedY = 0
    <3>1. /\ e \in Views /\ e.len = Len(R.lines) /\ e.max = MaxLength(r) /\ e.ybase = R.ybase /\ e.ydisp = R.ybase
          /\ e.x = R.x /\ e.y = R.y /\ e.top = 0 /\ e.bottom = r - 1 /\ e.savedY = 0
      BY <1>2, <1>8, <2>1, SeenParts
    <3>2. MaxLength(r) = max /\ r - 1 = k /\ R.x = x
      BY <1>16, <1>17
    <3> QED
      BY <3>1, <3>2, Zenon
  <2>3. z.len = e.len /\ z.ybase = e.ybase /\ z.ydisp = e.ydisp /\ z.y = e.y
    BY <1>23, <2>2 DEF ViewOf
  <2> QED
    BY <1>23, <2>1, <2>2, <2>3, SameViews
<1> QED
  BY <1>6, <1>8, <1>9, <1>14, <1>21, <1>22, <1>24 DEF w

-----------------------------------------------------------------------------
(* More columns: how many lines are left.                                  *)

(* What holds for 0, and for each number when it does for the one before.  *)
LEMMA CountingUp ==
  ASSUME NEW n \in Nat, NEW D, 0 \in D, \A i \in 1..n : i - 1 \in D => i \in D
  PROVE  (\A i \in 0..n : i \in D) /\ n \in D
<1> DEFINE f == [i \in 0..n |-> i]
<1>1. f[0] \in D /\ \A k \in 1..n : f[k - 1] \in D => f[k] \in D
  BY FromZero
<1>2. \A k \in 0..n : f[k] \in D
  <2> HIDE DEF f
  <2> QED
    BY <1>1, RoundsStay
<1> QED
  BY <1>2

(* How many elements sequences put one after the other have.               *)
Adding(a, ss) ==
  /\ a \in [0..Len(ss) -> Nat] /\ a[0] = 0 /\ \A i \in 1..Len(ss) : a[i] = a[i - 1] + Len(ss[i])
LEMMA FlattenLengths ==
  ASSUME NEW S, NEW ss \in Seq(Seq(S))
  PROVE  \E a : Adding(a, ss) /\ Len(Seqs!FlattenSeq(ss)) = a[Len(ss)]
<1>1. PICK h : Joining(h, S, ss)
  BY FlattenFrom
<1>2. PICK n : n = Len(ss)
  OBVIOUS
<1>3. n \in Nat /\ \A i \in 1..n : ss[i] \in Seq(S)
  BY <1>2
<1>4. /\ h \in [0..n -> Seq(S)] /\ h[0] = <<>> /\ \A i \in 1..n : h[i] = h[i - 1] \o ss[i]
      /\ Seqs!FlattenSeq(ss) = h[n]
  BY <1>1, <1>2 DEF Joining
<1> DEFINE a == [i \in 0..n |-> Len(h[i])]
<1>5. a \in [0..n -> Nat]
  BY <1>4
<1>6. a[0] = 0 /\ a[n] = Len(h[n])
  BY <1>3, <1>4
<1>7. \A i \in 1..n : a[i] = a[i - 1] + Len(ss[i])
  <2> SUFFICES ASSUME NEW i \in 1..n PROVE a[i] = a[i - 1] + Len(ss[i])
    OBVIOUS
  <2>1. i \in 0..n /\ i - 1 \in 0..n
    BY <1>3
  <2>2. a[i] = Len(h[i]) /\ a[i - 1] = Len(h[i - 1])
    BY <2>1
  <2>3. h[i] = h[i - 1] \o ss[i] /\ h[i - 1] \in Seq(S) /\ ss[i] \in Seq(S)
    BY <1>3, <1>4, <2>1
  <2>4. Len(h[i]) = Len(h[i - 1]) + Len(ss[i])
    BY <2>3, LengthOfBoth
  <2> QED
    BY <2>2, <2>4
<1> HIDE DEF a
<1> QED
  BY <1>2, <1>4, <1>5, <1>6, <1>7 DEF Adding

(* The last row of a group is not above that of the row before, and a row  *)
(* that no wrapped one follows is the last of its own.                     *)
LEMMA LastRowsRise ==
  ASSUME NEW ls, Len(ls) \in Nat, NEW i \in 1..(Len(ls) - 1)
  PROVE  LastRow(ls, i - 1) <= LastRow(ls, i) /\ (~ls[i + 1].wrapped => LastRow(ls, i - 1) = i - 1)
<1> DEFINE L(k) == {j \in k..(Len(ls) - 1) : j = Len(ls) - 1 \/ ~ls[j + 2].wrapped}
<1>1. i - 1 \in Int /\ i \in Int /\ Len(ls) - 1 \in Int
  OBVIOUS
<1>2. L(i) \in SUBSET (i..(Len(ls) - 1)) /\ L(i) \in SUBSET L(i - 1) /\ Len(ls) - 1 \in L(i)
  BY <1>1
<1>3. L(i - 1) \in SUBSET ((i - 1)..(Len(ls) - 1))
  OBVIOUS
<1>4. ~ls[i + 1].wrapped => i - 1 \in L(i - 1)
  <2>1. (i - 1) + 2 = i + 1 /\ i - 1 \in (i - 1)..(Len(ls) - 1)
    BY <1>1
  <2> QED
    BY <2>1
<1>5. LastRow(ls, i) = Min(L(i)) /\ LastRow(ls, i - 1) = Min(L(i - 1))
  BY DEF LastRow
<1> HIDE DEF L
<1>6. Min(L(i)) \in L(i)
  BY <1>1, <1>2, MinIn
<1>7. Min(L(i - 1)) \in L(i - 1) /\ \A y \in L(i - 1) : Min(L(i - 1)) <= y
  BY <1>1, <1>2, <1>3, MinIn
<1>8. Min(L(i - 1)) <= Min(L(i))
  BY <1>2, <1>6, <1>7
<1>9. ~ls[i + 1].wrapped => Min(L(i - 1)) <= i - 1
  BY <1>4, <1>7
<1>10. Min(L(i - 1)) \in (i - 1)..(Len(ls) - 1)
  BY <1>3, <1>7
<1>11. ~ls[i + 1].wrapped => Min(L(i - 1)) = i - 1
  BY <1>1, <1>9, <1>10
<1> QED
  BY <1>5, <1>8, <1>11

(* A reflow to more columns keeps a line at least and adds none.           *)
LEMMA LargerLength ==
  ASSUME cols \in Int, NEW w \in Nat, NEW ls \in Seq(Lines(w)), ls # <<>>, NEW cursor, NEW c \in Int
  PROVE  Len(LargerLines(ls, cursor, c)) \in 1..Len(ls)
<1> DEFINE ss == [i \in DOMAIN ls |-> IF i > 1 /\ ls[i].wrapped THEN <<>> ELSE LargerAt(ls, i - 1, cursor, c)]
<1>1. PICK n : n = Len(ls)
  OBVIOUS
<1>2. DOMAIN ls = 1..n /\ n \in Nat /\ n # 0
  BY <1>1
<1>3. \A i \in 1..n : /\ LargerAt(ls, i - 1, cursor, c) \in Seq(Lines(w))
                      /\ Len(LargerAt(ls, i - 1, cursor, c)) \in 1..(LastRow(ls, i - 1) - (i - 1) + 1)
  <2> SUFFICES ASSUME NEW i \in 1..n
               PROVE  /\ LargerAt(ls, i - 1, cursor, c) \in Seq(Lines(w))
                      /\ Len(LargerAt(ls, i - 1, cursor, c)) \in 1..(LastRow(ls, i - 1) - (i - 1) + 1)
    OBVIOUS
  <2>1. i - 1 \in 0..(Len(ls) - 1)
    BY <1>1, <1>2
  <2> QED
    BY <2>1, LargerAtIs
<1>4. ss \in [1..n -> Seq(Lines(w))]
  <2>1. <<>> \in Seq(Lines(w))
    OBVIOUS
  <2> QED
    BY <1>2, <1>3, <2>1
<1>5. LargerLines(ls, cursor, c) = Seqs!FlattenSeq(ss)
  BY DEF LargerLines
<1>6. \A i \in 1..n : ss[i] = IF i > 1 /\ ls[i].wrapped THEN <<>> ELSE LargerAt(ls, i - 1, cursor, c)
  BY <1>2
<1> HIDE DEF ss
<1>7. ss \in Seq(Seq(Lines(w))) /\ Len(ss) = n
  BY <1>2, <1>4, SeqDef
<1>8. PICK a : Adding(a, ss) /\ Len(Seqs!FlattenSeq(ss)) = a[Len(ss)]
  BY <1>7, FlattenLengths
<1>9. a \in [0..n -> Nat] /\ a[0] = 0 /\ \A i \in 1..n : a[i] = a[i - 1] + Len(ss[i])
  BY <1>7, <1>8 DEF Adding
<1> DEFINE Fits(i) == i = 0 \/ a[i] \in 1..(LastRow(ls, i - 1) + 1)
<1>10. Len(<<>>) = 0
  OBVIOUS
<1>11. \A i \in 1..n : Fits(i - 1) => Fits(i)
  <2> SUFFICES ASSUME NEW i \in 1..n, Fits(i - 1) PROVE a[i] \in 1..(LastRow(ls, i - 1) + 1)
    OBVIOUS
  <2>1. PICK l, k, m : l = LastRow(ls, i - 1) /\ k = Len(LargerAt(ls, i - 1, cursor, c)) /\ m = a[i - 1]
    OBVIOUS
  <2>2. l \in (i - 1)..(n - 1) /\ k \in 1..(l - (i - 1) + 1) /\ i - 1 \in 0..n /\ m \in Nat
    <3>1. i - 1 \in 0..(Len(ls) - 1) /\ Len(ls) \in Nat /\ i - 1 \in 0..n
      BY <1>1, <1>2
    <3>2. LastRow(ls, i - 1) \in (i - 1)..(Len(ls) - 1)
      BY <3>1, RowsAre
    <3> QED
      BY <1>1, <1>3, <1>9, <2>1, <3>1, <3>2
  <2>3. CASE i = 1
    <3>1. ss[1] = LargerAt(ls, 0, cursor, c) /\ a[1] = a[0] + Len(ss[1])
      BY <1>2, <1>6, <1>9
    <3>2. a[1] = k
      BY <1>9, <2>1, <2>2, <2>3, <3>1
    <3> QED
      BY <2>1, <2>2, <2>3, <3>2
  <2>4. CASE i # 1
    <3>1. PICK p : p = LastRow(ls, i - 2)
      OBVIOUS
    <3>2. m \in 1..(p + 1)
      <4>1. (i - 1) - 1 = i - 2 /\ i - 1 # 0
        BY <2>4
      <4> QED
        BY <2>1, <3>1, <4>1
    <3>3. p <= l /\ (~ls[i].wrapped => p = i - 2) /\ p \in Int
      <4>1. i - 1 \in 1..(Len(ls) - 1) /\ (i - 1) - 1 = i - 2 /\ (i - 1) + 1 = i /\ i - 2 \in 0..(Len(ls) - 1) /\ Len(ls) \in Nat
        BY <1>1, <1>2, <2>4
      <4>2. PICK j : j = i - 1
        OBVIOUS
      <4>3. j \in 1..(Len(ls) - 1) /\ j - 1 = i - 2 /\ j + 1 = i
        BY <4>1, <4>2
      <4>4. LastRow(ls, j - 1) <= LastRow(ls, j) /\ (~ls[j + 1].wrapped => LastRow(ls, j - 1) = j - 1)
        BY <4>1, <4>3, LastRowsRise
      <4>5. LastRow(ls, i - 2) \in (i - 2)..(Len(ls) - 1)
        BY <4>1, RowsAre
      <4>6. LastRow(ls, j) = l
        BY <2>1, <4>2
      <4>7. p \in Int
        BY <3>1, <4>5
      <4> QED
        BY <3>1, <4>3, <4>4, <4>6, <4>7
    <3>4. a[i] = m + Len(ss[i])
      BY <1>9, <2>1
    <3>5. CASE ls[i].wrapped
      <4>1. Len(ss[i]) = 0
        BY <1>2, <1>6, <1>10, <2>4, <3>5
      <4>2. a[i] = m
        BY <2>2, <3>4, <4>1
      <4>3. m \in 1..(l + 1)
        BY <2>2, <3>2, <3>3
      <4> QED
        BY <2>1, <4>2, <4>3
    <3>6. CASE ~ls[i].wrapped
      <4>1. Len(ss[i]) = k
        BY <1>6, <2>1, <3>6
      <4>2. p = i - 2
        BY <3>3, <3>6
      <4>3. m + k \in 1..(l + 1)
        BY <2>2, <3>2, <4>2
      <4> QED
        BY <2>1, <3>4, <4>1, <4>3
    <3> QED
      BY <3>5, <3>6
  <2> QED
    BY <2>3, <2>4
<1> HIDE DEF Fits
<1>12. Fits(0)
  BY DEF Fits
<1> DEFINE D == {i \in 0..n : Fits(i)}
<1>13. Fits(n)
  <2>1. 0 \in D /\ \A i \in 1..n : i - 1 \in D => i \in D
    BY <1>2, <1>11, <1>12, FromZero
  <2> HIDE DEF D
  <2>2. n \in D
    BY <1>2, <2>1, CountingUp
  <2> QED
    BY <2>2 DEF D
<1>14. a[n] \in 1..n
  <2>1. a[n] \in 1..(LastRow(ls, n - 1) + 1)
    BY <1>2, <1>13 DEF Fits
  <2>2. n - 1 \in 0..(Len(ls) - 1) /\ Len(ls) \in Nat
    BY <1>1, <1>2
  <2>3. LastRow(ls, n - 1) \in (n - 1)..(n - 1)
    BY <1>1, <2>2, RowsAre
  <2> QED
    BY <1>2, <2>1, <2>3
<1> QED
  BY <1>1, <1>5, <1>7, <1>8, <1>14

(* The empty sequence has no element.                                      *)
LEMMA LengthOfNothing == Len(<<>>) = 0
  OBVIOUS

(* More columns: module Screen sees the lines taken away.                  *)
LEMMA LargerSeen ==
  ASSUME cols \in Int, NEW c \in Nat, NEW r \in Nat \ {0}, NEW nb \in Buffers(c, r), Whole(nb, r),
         NEW v \in Views, ViewOf(v, nb)
  PROVE  /\ Whole(ReflowedLarger(nb, c, r), r)
         /\ \E n \in 0..(v.len - 1) : /\ Rows!ReflowedLarger(v, n, r) \in Views
                                      /\ ViewOf(Rows!ReflowedLarger(v, n, r), ReflowedLarger(nb, c, r))
                                      /\ SameRest(Rows!ReflowedLarger(v, n, r), v)
<1>1. PICK b, y, len : b = nb.ybase /\ y = nb.y /\ len = Len(nb.lines)
  OBVIOUS
<1>2. /\ b \in Nat /\ y \in Nat /\ y <= r - 1 /\ b <= Scrollback /\ len = b + r /\ nb.lines \in Seq(Lines(c))
      /\ Scrollback \in Nat \ {0} /\ len \in Nat
  BY <1>1, WholeParts
<1>3. PICK s : s = LargerLines(nb.lines, nb.ybase + nb.y, c)
  OBVIOUS
<1>4. PICK k : k = Len(s)
  OBVIOUS
<1>5. s \in Seq(Lines(c)) /\ k \in 1..len
  <2>1. PICK ls : ls = nb.lines
    OBVIOUS
  <2>2. ls \in Seq(Lines(c)) /\ Len(ls) = len
    BY <1>1, <1>2, <2>1
  <2>3. len # 0
    BY <1>2
  <2>4. ls # <<>>
    BY <2>2, <2>3, LengthOfNothing
  <2>5. LargerLines(ls, nb.ybase + nb.y, c) \in Seq(Lines(c)) /\ Len(LargerLines(ls, nb.ybase + nb.y, c)) \in 1..Len(ls)
    BY <2>2, <2>4, LargerLength, LargerLinesAre
  <2> QED
    BY <1>3, <1>4, <2>1, <2>2, <2>5
<1>6. PICK n : n = len - k
  OBVIOUS
<1>7. n \in 0..(len - 1)
  <2>1. len \in Nat
    BY <1>2
  <2>2. k \in 1..len
    BY <1>5
  <2> QED
    BY <1>6, <2>1, <2>2
<1>8. PICK o : o = IF n - b > 0 THEN n - b ELSE 0
  OBVIOUS
<1>9. o \in Nat /\ Max({0, n - b}) = o
  <2>1. n - b \in Int /\ 0 \in Int
    BY <1>2, <1>7
  <2>2. Max({0, n - b}) = IF 0 <= n - b THEN n - b ELSE 0
    BY <2>1, MaxOfTwo
  <2> QED
    BY <1>8, <2>1, <2>2
<1>10. Max({0, r - k}) = (IF r - k > 0 THEN r - k ELSE 0) /\ Min({o, Max({0, r - k})}) = o
  <2>1. r - k \in Int /\ 0 \in Int
    BY <1>5
  <2>2. Max({0, r - k}) = IF 0 <= r - k THEN r - k ELSE 0
    BY <2>1, MaxOfTwo
  <2>3. PICK q : q = Max({0, r - k})
    OBVIOUS
  <2>4. q = (IF r - k > 0 THEN r - k ELSE 0) /\ q \in Nat /\ o <= q
    BY <1>2, <1>5, <1>6, <1>8, <2>1, <2>2, <2>3
  <2>5. Min({o, q}) = o
    BY <1>9, <2>4, MinOfTwo
  <2> QED
    BY <2>3, <2>4, <2>5
<1>11. PICK m, e : m = b - n + o /\ e = IF y - o > 0 THEN y - o ELSE 0
  OBVIOUS
<1>12. Max({0, b - n}) = m /\ m \in Nat /\ m <= b /\ m = IF b - n > 0 THEN b - n ELSE 0
  <2>1. b - n \in Int /\ 0 \in Int
    BY <1>2, <1>7
  <2>2. Max({0, b - n}) = IF 0 <= b - n THEN b - n ELSE 0
    BY <2>1, MaxOfTwo
  <2> QED
    BY <1>2, <1>7, <1>8, <1>11, <2>2
<1>13. Max({0, y - o}) = e /\ e \in 0..(r - 1)
  <2>1. y - o \in Int /\ 0 \in Int
    BY <1>2, <1>9
  <2>2. Max({0, y - o}) = IF 0 <= y - o THEN y - o ELSE 0
    BY <2>1, MaxOfTwo
  <2> QED
    BY <1>2, <1>9, <1>11, <2>2
<1>14. PICK t : t = s \o Blanks(o, c)
  OBVIOUS
<1>15. Len(t) = k + o
  <2>1. PICK u : u = Blanks(o, c)
    OBVIOUS
  <2>2. u \in Seq(Lines(c)) /\ Len(u) = o
    BY <1>9, <2>1, BlanksAre, BlanksLength
  <2>3. Len(s \o u) = Len(s) + Len(u)
    BY <1>5, <2>2, LengthOfBoth
  <2> QED
    BY <1>4, <1>14, <2>1, <2>2, <2>3
<1>16. PICK d : d = [nb EXCEPT !.lines = t, !.ybase = m, !.y = e]
  OBVIOUS
<1>17. ReflowedLarger(nb, c, r) = d
  BY <1>1, <1>3, <1>4, <1>6, <1>9, <1>10, <1>12, <1>13, <1>14, <1>16 DEF ReflowedLarger
<1>18. d.lines = t /\ d.ybase = m /\ d.y = e /\ d.start = nb.start
  BY <1>16 DEF Buffers
<1>19. k + o = m + r
  BY <1>2, <1>5, <1>6, <1>9, <1>11
<1>20. Whole(d, r)
  <2>1. m \in 0..Scrollback
    BY <1>2, <1>12
  <2>2. Len(d.lines) = d.ybase + r
    BY <1>15, <1>18, <1>19
  <2>3. d.start \in 0..(MaxLength(r) - 1)
    BY <1>18 DEF Whole
  <2> QED
    BY <1>13, <1>18, <2>1, <2>2, <2>3 DEF Whole
<1>21. v.len = len /\ v.ybase = b /\ v.ydisp = b /\ v.y = y
  BY <1>1 DEF ViewOf
<1>22. Rows!ReflowedLarger(v, n, r) = [v EXCEPT !.ybase = m, !.ydisp = m, !.y = e, !.len = m + r]
  <2>1. Rows!Greater(b - n, 0) = m
    <3>1. b - n \in Int
      BY <1>2, <1>7
    <3>2. Rows!Greater(b - n, 0) = IF b - n > 0 THEN b - n ELSE 0
      BY <3>1, LessGreater
    <3> QED
      BY <1>12, <3>2
  <2>2. Rows!Lesser(b, m) = m
    <3>1. Rows!Lesser(b, m) = IF b < m THEN b ELSE m
      BY <1>2, <1>12, LessGreater
    <3> QED
      BY <1>2, <1>12, <3>1
  <2>3. (IF n > b THEN Rows!Greater(y - (n - b), 0) ELSE y) = e
    <3>1. y - (n - b) \in Int
      BY <1>2, <1>7
    <3>2. Rows!Greater(y - (n - b), 0) = IF y - (n - b) > 0 THEN y - (n - b) ELSE 0
      BY <3>1, LessGreater
    <3> QED
      BY <1>2, <1>7, <1>8, <1>11, <3>2
  <2>4. Rows!Greater(m + r, len - n) = m + r
    <3>1. m + r \in Int /\ len - n \in Int /\ len - n <= m + r
      BY <1>2, <1>7, <1>8, <1>11, <1>12
    <3>2. Rows!Greater(m + r, len - n) = IF m + r > len - n THEN m + r ELSE len - n
      BY <3>1, LessGreater
    <3> QED
      BY <3>1, <3>2
  <2> QED
    BY <1>21, <2>1, <2>2, <2>3, <2>4 DEF Rows!ReflowedLarger
<1>23. PICK a : a = m + r
  OBVIOUS
<1>24. a \in Int /\ m \in Int /\ e \in Int
  BY <1>12, <1>13, <1>23
<1>25. PICK g : g = [v EXCEPT !.ybase = m, !.ydisp = m, !.y = e, !.len = a]
  OBVIOUS
<1>26. g \in Views /\ g.len = a /\ g.ybase = m /\ g.ydisp = m /\ g.y = e /\ SameRest(g, v)
  BY <1>24, <1>25 DEF Views, SameRest
<1>27. ViewOf(g, d)
  BY <1>15, <1>18, <1>19, <1>23, <1>26 DEF ViewOf
<1>28. Rows!ReflowedLarger(v, n, r) = g
  BY <1>22, <1>23, <1>25
<1>29. n \in 0..(v.len - 1)
  BY <1>7, <1>21
<1> QED
  BY <1>17, <1>20, <1>26, <1>27, <1>28, <1>29

-----------------------------------------------------------------------------
(* Fewer columns: a group gets as many rows as it has, or more.            *)

(* What the provers need to be told of products.                           *)
LEMMA TimesRise == \A a, d, c \in Nat : a <= d => a * c <= d * c
  OBVIOUS
LEMMA TimesNext == \A a, c \in Nat : (a + 1) * c = a * c + c /\ a * c \in Nat
  OBVIOUS
LEMMA TimesNone == \A c \in Nat : 0 * c = 0
  OBVIOUS
(* An element at the end is one more.                                      *)
LEMMA LengthOfOneMore == ASSUME NEW S, NEW s \in Seq(S), NEW e \in S PROVE Len(Append(s, e)) = Len(s) + 1 /\ Len(s) \in Nat
  OBVIOUS

(* A new row takes c cells at most, and at least one.                      *)
LEMMA NextLengthTakes ==
  ASSUME NEW n \in Nat, NEW f, NEW l \in Measuring(f, n), NEW g, NEW c \in Nat \ {0, 1}
  PROVE  /\ NextLength(l, g, c).left = 0 \/ NextLength(l, g, c).left < l.left
         /\ Len(NextLength(l, g, c).lens) * c + NextLength(l, g, c).left >= Len(l.lens) * c + l.left
         /\ NextLength(l, g, c).left = 0 \/ NextLength(l, g, c).left \in Nat
<1>1. l.lens \in Seq(Nat) /\ l.left \in Nat
  BY DEF Measuring
<1>2. PICK a, p : a = Len(l.lens) /\ p = l.left
  OBVIOUS
<1>3. a \in Nat /\ p \in Nat
  BY <1>1, <1>2
<1>4. CASE p = 0
  <2>1. NextLength(l, g, c) = l
    BY <1>2, <1>4 DEF NextLength
  <2>2. a * c + p >= a * c + p
    BY <1>3, TimesNext
  <2> QED
    BY <1>2, <1>4, <2>1, <2>2
<1>5. CASE p # 0 /\ p < c
  <2>1. PICK s : s = Append(l.lens, p)
    OBVIOUS
  <2>2. Len(s) = a + 1
    BY <1>1, <1>2, <1>3, <2>1, LengthOfOneMore
  <2>3. PICK x : x = [l EXCEPT !.lens = s, !.left = 0]
    OBVIOUS
  <2>4. NextLength(l, g, c) = x
    BY <1>2, <1>5, <2>1, <2>3 DEF NextLength
  <2>5. x.lens = s /\ x.left = 0
    BY <2>3 DEF Measuring
  <2>6. (a + 1) * c + 0 >= a * c + p
    <3>1. PICK z : z = a * c
      OBVIOUS
    <3>2. z \in Nat /\ (a + 1) * c = z + c
      BY <1>3, <3>1, TimesNext
    <3> QED
      BY <1>3, <1>5, <3>1, <3>2
  <2> QED
    BY <1>2, <2>2, <2>4, <2>5, <2>6
<1>6. CASE p # 0 /\ ~(p < c)
  <2> DEFINE len == RowLength(g, l.line, cols)
             over == l.col + c > len
             line == IF over THEN l.line + 1 ELSE l.line
             col == IF over THEN l.col + c - len ELSE l.col + c
             wide == CellAt(g[line], col - 1).w = 2
  <2>1. PICK k : k = IF wide THEN c - 1 ELSE c
    OBVIOUS
  <2>2. PICK after : after = IF wide THEN col - 1 ELSE col
    OBVIOUS
  <2>3. NextLength(l, g, c) = [lens |-> Append(l.lens, k), left |-> p - k, line |-> line, col |-> after]
    BY <1>2, <1>6, <2>1, <2>2 DEF NextLength
  <2>4. k \in Nat /\ k >= 1 /\ k <= c
    <3> HIDE DEF wide
    <3> QED
      BY <2>1
  <2> HIDE DEF line
  <2>5. PICK s : s = Append(l.lens, k)
    OBVIOUS
  <2>6. Len(s) = a + 1
    BY <1>1, <1>2, <2>4, <2>5, LengthOfOneMore
  <2>7. NextLength(l, g, c).lens = s /\ NextLength(l, g, c).left = p - k
    BY <2>3, <2>5
  <2>8. (a + 1) * c + (p - k) >= a * c + p
    <3>1. PICK z : z = a * c
      OBVIOUS
    <3>2. z \in Nat /\ (a + 1) * c = z + c
      BY <1>3, <3>1, TimesNext
    <3> QED
      BY <1>3, <2>4, <3>1, <3>2
  <2>9. p - k < p /\ p - k \in Nat
    BY <1>3, <1>6, <2>4
  <2> QED
    BY <1>2, <2>6, <2>7, <2>8, <2>9
<1> QED
  BY <1>3, <1>4, <1>5, <1>6

(* All the rounds leave nothing, so the new rows hold what was measured.   *)
LEMMA LengthsHold ==
  ASSUME cols \in Nat \ {0}, NEW w \in Nat, NEW n \in Nat \ {0}, NEW g \in Groups(w, n), NEW c \in Nat \ {0, 1}
  PROVE  \E f : Sums(f, g, n) /\ f[n] <= Len(NewLengths(g, c)) * c
<1>1. PICK e, f : Measured(e, f, g, n, c)
  BY MeasuredIs
<1>2. PICK m : m = f[n]
  OBVIOUS
<1>3. m \in Nat
  BY <1>1, <1>2 DEF Measured, Sums
<1>4. /\ NewLengths(g, c) = e[m].lens /\ e[0] = [lens |-> <<>>, left |-> m, line |-> 1, col |-> 0]
      /\ \A k \in 1..m : e[k] = NextLength(e[k - 1], g, c)
      /\ \A k \in 0..m : e[k] \in Measuring(f, n)
  BY <1>1, <1>2 DEF Measured
<1> DEFINE Fits(k) == /\ m <= Len(e[k].lens) * c + e[k].left
                      /\ e[k].left = 0 \/ e[k].left + k <= m
<1>5. Fits(0)
  <2>1. e[0].lens = <<>> /\ e[0].left = m
    BY <1>4
  <2>2. Len(e[0].lens) * c = 0
    BY <2>1, TimesNone, LengthOfNothing
  <2> QED
    BY <1>3, <2>1, <2>2
<1>6. \A k \in 1..m : Fits(k - 1) => Fits(k)
  <2> SUFFICES ASSUME NEW k \in 1..m, Fits(k - 1) PROVE Fits(k)
    OBVIOUS
  <2>1. PICK l, x : l = e[k - 1] /\ x = e[k]
    OBVIOUS
  <2>2. x = NextLength(l, g, c) /\ l \in Measuring(f, n) /\ x \in Measuring(f, n)
    BY <1>3, <1>4, <2>1, FromZero
  <2>3. l.lens \in Seq(Nat) /\ l.left \in Nat /\ x.lens \in Seq(Nat) /\ x.left \in Nat
    BY <2>2 DEF Measuring
  <2>4. PICK p, q, y, z : p = l.left /\ q = x.left /\ y = Len(l.lens) * c /\ z = Len(x.lens) * c
    OBVIOUS
  <2>5. p \in Nat /\ q \in Nat /\ y \in Nat /\ z \in Nat
    <3>1. Len(l.lens) \in Nat /\ Len(x.lens) \in Nat
      BY <2>3
    <3> QED
      BY <2>3, <2>4, <3>1, TimesNext
  <2>6. (q = 0 \/ q < p) /\ z + q >= y + p
    BY <2>2, <2>4, NextLengthTakes
  <2>7. m <= y + p /\ (p = 0 \/ p + (k - 1) <= m)
    BY <2>1, <2>4
  <2>8. m <= z + q /\ (q = 0 \/ q + k <= m)
    BY <1>3, <2>5, <2>6, <2>7
  <2> QED
    BY <2>1, <2>4, <2>8
<1> HIDE DEF Fits
<1> DEFINE D == {k \in 0..m : Fits(k)}
<1>7. Fits(m)
  <2>1. 0 \in D /\ \A k \in 1..m : k - 1 \in D => k \in D
    BY <1>3, <1>5, <1>6, FromZero
  <2> HIDE DEF D
  <2>2. m \in D
    BY <1>3, <2>1, CountingUp
  <2> QED
    BY <2>2 DEF D
<1>8. e[m].left \in Nat /\ Len(e[m].lens) * c \in Nat
  <2>1. m \in 0..m
    BY <1>3
  <2>2. e[m].lens \in Seq(Nat) /\ e[m].left \in Nat
    BY <1>4, <2>1 DEF Measuring
  <2>3. Len(e[m].lens) \in Nat
    BY <2>2
  <2> QED
    BY <2>2, <2>3, TimesNext
<1>9. m <= Len(e[m].lens) * c
  BY <1>3, <1>7, <1>8 DEF Fits
<1> QED
  BY <1>1, <1>2, <1>4, <1>9 DEF Measured

(* A line that begins with a wide character is not empty.                  *)
LEMMA TrimmedWide ==
  ASSUME NEW n \in Nat \ {0}, NEW l \in Lines(n), l.cells[0].w = 2
  PROVE  TrimmedLength(l) >= 1
<1> DEFINE F == {i \in DOMAIN l.cells : HasContent(l.cells[i])}
<1>1. DOMAIN l.cells = 0..(n - 1) /\ n - 1 \in Int /\ 0 \in Int /\ 0 \in 0..(n - 1)
  BY LineParts
<1>2. F \in SUBSET (0..(n - 1)) /\ 0 \in F
  <2>1. l.cells[0] \in Cells
    BY <1>1, LineParts
  <2>2. HasContent(l.cells[0])
    BY <2>1, CellParts
  <2> QED
    BY <1>1, <2>2
<1>3. TrimmedLength(l) = Max(F) + l.cells[Max(F)].w
  BY <1>2 DEF TrimmedLength
<1> HIDE DEF F
<1>4. PICK k : k = Max(F)
  OBVIOUS
<1>5. k \in F
  BY <1>1, <1>2, <1>4, MaxIn
<1>6. k \in 0..(n - 1)
  BY <1>2, <1>5
<1>7. l.cells[k].w \in {0, 1, 2}
  BY <1>6, LineParts, CellParts
<1>8. CASE k = 0
  BY <1>3, <1>4, <1>8
<1>9. CASE k # 0
  BY <1>3, <1>4, <1>6, <1>7, <1>9
<1> QED
  BY <1>8, <1>9

(* A row before the last one of its group has all its cells but perhaps    *)
(* one, and that one is missing only before a wide character.              *)
LEMMA RowLengthFull ==
  ASSUME Sized, NEW n \in Nat \ {0}, NEW g \in Groups(cols, n), NEW i \in 1..(n - 1)
  PROVE  /\ RowLength(g, i, cols) \in {cols - 1, cols}
         /\ i + 1 = n /\ RowLength(g, i, cols) = cols - 1 => RowLength(g, n, cols) >= 1
<1>1. Len(g) = n /\ cols \in Nat \ {0} /\ i # n
  BY GroupIs DEF Sized
<1>2. RowLength(g, i, cols) = IF /\ ~HasContent(g[i].cells[cols - 1]) /\ g[i].cells[cols - 1].w = 1
                                 /\ g[i + 1].cells[0].w = 2
                              THEN cols - 1 ELSE cols
  BY <1>1 DEF RowLength
<1>3. RowLength(g, n, cols) = TrimmedLength(g[n])
  BY <1>1 DEF RowLength
<1>4. cols - 1 # cols
  BY <1>1
<1>5. i + 1 = n /\ RowLength(g, i, cols) = cols - 1 => g[n].cells[0].w = 2
  BY <1>2, <1>4
<1>6. g[n] \in Lines(cols)
  <2>1. n \in 1..n /\ n \in Nat /\ cols \in Nat
    BY <1>1
  <2> QED
    BY <2>1, GroupIs
<1>7. g[n].cells[0].w = 2 => TrimmedLength(g[n]) >= 1
  BY <1>1, <1>6, TrimmedWide
<1> QED
  BY <1>2, <1>3, <1>5, <1>7

(* A group gets as many rows as it has, or more, when the window gets      *)
(* narrower.                                                               *)
LEMMA LengthsMany ==
  ASSUME Sized, NEW n \in Nat \ {0}, NEW g \in Groups(cols, n), NEW c \in Nat \ {0, 1}, c < cols,
         NewLengths(g, c) # <<>>
  PROVE  NewLengths(g, c) \in Seq(Nat) /\ Len(NewLengths(g, c)) \in Nat /\ Len(NewLengths(g, c)) >= n
<1>1. cols \in Nat \ {0, 1}
  BY DEF Sized
<1>2. NewLengths(g, c) \in Seq(Nat)
  BY <1>1, NewLengthsAre
<1>3. PICK k : k = Len(NewLengths(g, c))
  OBVIOUS
<1>4. k \in Nat
  BY <1>2, <1>3
<1>5. k # 0
  BY <1>2, <1>3, EmptySeq
<1>6. CASE n = 1
  BY <1>2, <1>3, <1>4, <1>5, <1>6
<1>7. CASE n # 1
  <2>1. PICK f : Sums(f, g, n) /\ f[n] <= k * c
    BY <1>1, <1>3, LengthsHold
  <2>2. f \in [0..n -> Nat] /\ f[0] = 0 /\ \A i \in 1..n : f[i] = f[i - 1] + RowLength(g, i, cols)
    BY <2>1 DEF Sums
  <2>3. PICK m : m = n - 1
    OBVIOUS
  <2>4. m \in Nat \ {0} /\ m + 1 = n /\ n - 1 = m /\ \A i \in 1..m : i \in 1..(n - 1) /\ i \in 1..n
    BY <1>7, <2>3
  <2> DEFINE D == {i \in 0..m : i * c <= f[i]}
  <2>5. ASSUME NEW i \in 1..m, i - 1 \in D PROVE i \in D
    <3>1. RowLength(g, i, cols) \in {cols - 1, cols}
      BY <2>4, RowLengthFull
    <3>2. PICK y, z, u, t : y = f[i - 1] /\ z = f[i] /\ u = (i - 1) * c /\ t = RowLength(g, i, cols)
      OBVIOUS
    <3>3. z = y + t
      BY <2>2, <2>4, <3>2
    <3>4. i - 1 \in Nat /\ (i - 1) + 1 = i /\ i \in 0..m /\ i - 1 \in 0..n
      BY <2>4
    <3>5. i * c = u + c /\ u \in Nat
      BY <3>2, <3>4, TimesNext
    <3>6. u <= y /\ y \in Nat
      BY <2>2, <2>5, <3>2, <3>4
    <3>7. t >= c /\ t \in Nat
      BY <1>1, <3>1, <3>2
    <3>8. u + c <= z
      BY <3>3, <3>5, <3>6, <3>7
    <3> QED
      BY <3>2, <3>4, <3>5, <3>8
  <2>6. 0 \in D
    <3>1. 0 \in 0..m /\ 0 * c = 0
      BY <2>4, TimesNone
    <3> QED
      BY <2>2, <3>1
  <2>7. m * c <= f[m] /\ (m - 1) * c <= f[m - 1]
    <3> HIDE DEF D
    <3>1. \A i \in 0..m : i \in D
      BY <2>4, <2>5, <2>6, CountingUp
    <3>2. m \in 0..m /\ m - 1 \in 0..m
      BY <2>4
    <3> QED
      BY <3>1, <3>2 DEF D
  <2>8. PICK y, z, t, u, v : y = f[m - 1] /\ z = f[m] /\ t = RowLength(g, m, cols) /\ u = RowLength(g, n, cols) /\ v = f[n]
    OBVIOUS
  <2>9. /\ t \in {cols - 1, cols} /\ (t = cols - 1 => u >= 1) /\ u \in Nat /\ z = y + t /\ v = z + u
        /\ y \in Nat /\ z \in Nat /\ v \in Nat
    <3>1. m \in 1..(n - 1) /\ m + 1 = n /\ m \in 1..n /\ n \in 1..n /\ m - 1 \in 0..n /\ m \in 0..n /\ n \in 0..n /\ n - 1 = m
      BY <2>4
    <3>2. RowLength(g, m, cols) \in {cols - 1, cols} /\ (RowLength(g, m, cols) = cols - 1 => RowLength(g, n, cols) >= 1)
      BY <3>1, RowLengthFull
    <3>3. RowLength(g, n, cols) \in Nat
      BY <1>1, <3>1, RowLengthNat
    <3>4. z = y + t /\ v = z + u
      BY <2>2, <2>8, <3>1
    <3>5. y \in Nat /\ z \in Nat /\ v \in Nat
      BY <2>2, <2>8, <3>1
    <3> QED
      BY <2>8, <3>2, <3>3, <3>4, <3>5
  <2>10. PICK a, d : a = (m - 1) * c /\ d = m * c
    OBVIOUS
  <2>11. d = a + c /\ a \in Nat
    <3>1. m - 1 \in Nat /\ (m - 1) + 1 = m
      BY <2>4
    <3> QED
      BY <2>10, <3>1, TimesNext
  <2>12. d + 1 <= v
    <3>1. a <= y
      BY <2>7, <2>8, <2>10
    <3>2. CASE t = cols - 1
      BY <1>1, <2>9, <2>11, <3>1, <3>2
    <3>3. CASE t = cols
      BY <1>1, <2>9, <2>11, <3>1, <3>3
    <3> QED
      BY <2>9, <3>2, <3>3
  <2>13. ~(k <= m)
    <3> SUFFICES ASSUME k <= m PROVE FALSE
      OBVIOUS
    <3>1. k * c <= m * c
      BY <1>4, <2>4, TimesRise
    <3>2. PICK x : x = k * c
      OBVIOUS
    <3>3. x \in Nat /\ x <= d /\ v <= x
      BY <1>4, <2>1, <2>8, <2>10, <3>1, <3>2, TimesNext
    <3> QED
      BY <2>9, <2>11, <2>12, <3>3
  <2>14. k >= n
    BY <1>4, <2>4, <2>13
  <2> QED
    BY <1>2, <1>3, <1>4, <2>14
<1> QED
  BY <1>6, <1>7

-----------------------------------------------------------------------------
(* Fewer columns: how many rows have gone from the end, and which is the   *)
(* first one, when p rows are to be put in. The code counts them group by  *)
(* group, and module Screen all at once.                                   *)

(* Two numbers, as the proofs below read Min and Max of a pair.            *)
Least(a, d) == IF a <= d THEN a ELSE d
Most(a, d) == IF a <= d THEN d ELSE a
(* The rows that have gone from the end when p are to be put in.           *)
Gone(b, y, p, r) == IF b = 0 THEN Least(p, r - 1 - y) ELSE 0
(* The first row of the screen then.                                       *)
FirstThen(b, y, p, r) == Least(Scrollback, b + p - Gone(b, y, p, r))

(* The rows trimmed at the top in a round, and the first row after it, as  *)
(* reflowSmaller counts them.                                              *)
Trim(b, y, len, n, max) == IF b = 0 /\ y # len - 1 THEN Most(0, y - max + n) ELSE Most(0, len - max + n)
BaseOf(b, rest, room) ==
  IF b = 0 THEN IF rest = 0 THEN 0 ELSE Most(1, Least(rest, room)) ELSE Most(b, Least(b + rest, room))

(* What the two are, by cases.                                             *)
LEMMA GoneIs ==
  ASSUME NEW b \in Nat, NEW y \in Nat, NEW p \in Nat, NEW r \in Nat \ {0}, y <= r - 1
  PROVE  /\ Gone(b, y, p, r) \in Nat /\ Gone(b, y, p, r) <= p /\ Gone(b, y, p, r) <= r - 1 - y
         /\ b > 0 => Gone(b, y, p, r) = 0
         /\ b = 0 => Gone(b, y, p, r) = IF p <= r - 1 - y THEN p ELSE r - 1 - y
  BY DEF Gone, Least

LEMMA FirstThenIs ==
  ASSUME NEW b \in Nat, NEW y, NEW p \in Nat, NEW r, NEW g \in Nat, g = Gone(b, y, p, r), g <= p,
         NEW s \in Nat, s = Scrollback
  PROVE  /\ FirstThen(b, y, p, r) = IF s <= b + p - g THEN s ELSE b + p - g
         /\ FirstThen(b, y, p, r) \in Nat /\ FirstThen(b, y, p, r) <= s
<1>1. FirstThen(b, y, p, r) = IF s <= b + p - g THEN s ELSE b + p - g
  BY DEF FirstThen, Least
<1>2. PICK f : f = FirstThen(b, y, p, r)
  OBVIOUS
<1>3. f \in Nat /\ f <= s
  BY <1>1, <1>2
<1> QED
  BY <1>1, <1>2, <1>3

(* One group more: as if all the rows came at once.                        *)
LEMMA CountsAdd ==
  ASSUME NEW b0 \in Nat, NEW y0 \in Nat, NEW p \in Nat, NEW r \in Nat \ {0}, y0 <= r - 1, b0 <= Scrollback, NEW n \in Nat,
         NEW q, q = Gone(b0, y0, p, r), NEW b, b = FirstThen(b0, y0, p, r), NEW y, y = y0 + q, NEW len, len = b0 + r - q,
         NEW max, max = r + Scrollback, NEW trimmed, trimmed = Trim(b, y, len, n, max), NEW todo, todo = Most(0, n - trimmed),
         NEW pop, pop = IF b = 0 THEN Least(todo, Most(0, r - 1 - y)) ELSE 0,
         NEW room, room = Least(max, len - pop + (p + n)) - r
  PROVE  /\ q + pop = Gone(b0, y0, p + n, r)
         /\ BaseOf(b, todo - pop, room) = FirstThen(b0, y0, p + n, r)
         /\ pop \in Nat /\ trimmed \in Nat /\ trimmed <= n
<1>1. Scrollback \in Nat \ {0} /\ p + n \in Nat
  BY ReflowAssumption
<1>2. /\ q \in Nat /\ q <= p /\ q <= r - 1 - y0 /\ (b0 > 0 => q = 0)
      /\ b0 = 0 => q = IF p <= r - 1 - y0 THEN p ELSE r - 1 - y0
  <2>1. /\ Gone(b0, y0, p, r) \in Nat /\ Gone(b0, y0, p, r) <= p /\ Gone(b0, y0, p, r) <= r - 1 - y0
        /\ b0 > 0 => Gone(b0, y0, p, r) = 0
        /\ b0 = 0 => Gone(b0, y0, p, r) = IF p <= r - 1 - y0 THEN p ELSE r - 1 - y0
    BY ONLY GoneIs, b0 \in Nat, y0 \in Nat, p \in Nat, r \in Nat \ {0}, y0 <= r - 1
  <2> QED
    BY ONLY <2>1, q = Gone(b0, y0, p, r)
<1>3. PICK m, z : m = p + n /\ z = Gone(b0, y0, m, r)
  OBVIOUS
<1>4. /\ z \in Nat /\ z <= m /\ z <= r - 1 - y0 /\ (b0 > 0 => z = 0) /\ m \in Nat /\ m = p + n
      /\ b0 = 0 => z = IF m <= r - 1 - y0 THEN m ELSE r - 1 - y0
  <2>1. m \in Nat /\ m = p + n
    BY ONLY <1>1, <1>3
  <2>2. /\ Gone(b0, y0, m, r) \in Nat /\ Gone(b0, y0, m, r) <= m /\ Gone(b0, y0, m, r) <= r - 1 - y0
        /\ b0 > 0 => Gone(b0, y0, m, r) = 0
        /\ b0 = 0 => Gone(b0, y0, m, r) = IF m <= r - 1 - y0 THEN m ELSE r - 1 - y0
    <3>1. m \in Nat
      BY <2>1
    <3> HIDE <1>3, <2>1
    <3> QED
      BY ONLY GoneIs, b0 \in Nat, y0 \in Nat, r \in Nat \ {0}, y0 <= r - 1, <3>1
  <2>3. z = Gone(b0, y0, m, r)
    BY <1>3
  <2> QED
    BY ONLY <2>1, <2>2, <2>3
<1>5. PICK S : S = Scrollback
  OBVIOUS
<1>6. S \in Nat \ {0} /\ max = r + S /\ b0 <= S
  <2>1. S \in Nat \ {0}
    BY <1>1, <1>5
  <2>2. max = r + S
    BY ONLY <1>5, max = r + Scrollback
  <2>3. b0 <= S
    BY ONLY <1>5, b0 <= Scrollback
  <2> QED
    BY ONLY <2>1, <2>2, <2>3
<1>7. b = (IF S <= b0 + p - q THEN S ELSE b0 + p - q) /\ b \in Nat
  <2>1. FirstThen(b0, y0, p, r) = (IF S <= b0 + p - q THEN S ELSE b0 + p - q) /\ FirstThen(b0, y0, p, r) \in Nat
    BY ONLY FirstThenIs, b0 \in Nat, p \in Nat, q = Gone(b0, y0, p, r), <1>2, <1>5, <1>6
  <2> QED
    BY ONLY <2>1, b = FirstThen(b0, y0, p, r)
<1>8. FirstThen(b0, y0, m, r) = IF S <= b0 + m - z THEN S ELSE b0 + m - z
  BY ONLY FirstThenIs, b0 \in Nat, <1>3, <1>4, <1>5, <1>6
<1>9. y \in Nat /\ len \in Nat /\ max \in Nat /\ y <= r - 1
  BY <1>2, <1>6
<1>10. CASE b = 0
  <2>1. b0 = 0 /\ p = q
    BY ONLY <1>2, <1>7, <1>6, <1>10, b0 \in Nat, p \in Nat
  <2>2. trimmed = IF y # len - 1 THEN IF 0 <= y - max + n THEN y - max + n ELSE 0 ELSE IF 0 <= len - max + n THEN len - max + n ELSE 0
    BY <1>10 DEF Trim, Most
  <2>3. trimmed \in Nat /\ trimmed <= n
    BY <1>6, <1>9, <1>2, <2>1, <2>2
  <2>4. todo = n - trimmed
    BY <2>3 DEF Most
  <2>5. todo = n \/ todo = max - y \/ (y = len - 1 /\ todo = max - len)
    BY <1>9, <2>2, <2>4
  <2>6. pop = IF todo <= r - 1 - y THEN todo ELSE r - 1 - y
    <3>1. Most(0, r - 1 - y) = r - 1 - y
      BY <1>9 DEF Most
    <3> QED
      BY <1>10, <3>1 DEF Least
  <2>7. pop = (IF n <= r - 1 - y THEN n ELSE r - 1 - y) /\ pop \in Nat
    BY <1>6, <1>9, <2>3, <2>4, <2>5, <2>6
  <2>8. q + pop = z
    BY <1>2, <1>4, <1>9, <2>1, <2>7
  <2>9. len - pop + (p + n) = r + (n - pop)
    BY <1>2, <1>9, <2>1, <2>7
  <2>10. room = IF S <= n - pop THEN S ELSE n - pop
    BY <1>6, <2>7, <2>9 DEF Least
  <2>11. b0 + (p + n) - z = n - pop
    BY <1>2, <1>4, <2>1, <2>7, <2>8
  <2>12. BaseOf(b, todo - pop, room) = room
    <3>1. PICK e : e = todo - pop
      OBVIOUS
    <3>2. BaseOf(b, e, room) = IF e = 0 THEN 0 ELSE IF 1 <= (IF e <= room THEN e ELSE room) THEN (IF e <= room THEN e ELSE room) ELSE 1
      BY <1>10 DEF BaseOf, Most, Least
    <3>3. e = n - pop \/ (n - pop >= e /\ e >= S)
      <4>1. CASE todo = n
        BY <3>1, <4>1
      <4>2. CASE todo = max - y
        BY <1>6, <1>9, <2>3, <2>4, <2>7, <3>1, <4>2
      <4>3. CASE y = len - 1 /\ todo = max - len
        <5>1. todo = r + S - y - 1 /\ todo <= n
          BY <1>6, <1>9, <2>3, <2>4, <4>3
        <5>2. pop = r - 1 - y
          BY <1>6, <1>9, <2>7, <5>1
        <5>3. e = S
          BY <1>6, <1>9, <3>1, <5>1, <5>2
        <5> QED
          BY <1>6, <2>7, <3>1, <5>1, <5>3
      <4> QED
        BY <2>5, <4>1, <4>2, <4>3
    <3>4. n - pop \in Nat /\ e \in Int
      BY <2>3, <2>4, <2>7, <3>1
    <3>5. (IF e = 0 THEN 0 ELSE IF 1 <= (IF e <= room THEN e ELSE room) THEN (IF e <= room THEN e ELSE room) ELSE 1) = room
      BY <1>6, <2>10, <3>3, <3>4
    <3> QED
      BY <3>1, <3>2, <3>5
  <2>13. BaseOf(b, todo - pop, room) = FirstThen(b0, y0, p + n, r)
    BY <1>3, <1>4, <1>8, <1>5, <2>10, <2>11, <2>12
  <2> QED
    BY <1>3, <2>3, <2>7, <2>8, <2>13
<1>11. CASE b # 0
  <2>1. pop = 0 /\ trimmed = IF 0 <= len - max + n THEN len - max + n ELSE 0
    BY <1>11 DEF Trim, Most
  <2>2. q + pop = z
    BY <1>2, <1>4, <1>7, <1>5, <1>6, <1>11, <2>1
  <2>3. len + p - r = b0 + p - q /\ len <= max
    BY <1>2, <1>6, <1>9
  <2>4. todo = IF len + n <= max THEN n ELSE max - len
    BY <1>9, <2>1, <2>3 DEF Most
  <2>5. PICK k : k = b0 + p - q
    OBVIOUS
  <2>6. k \in Nat /\ b = (IF S <= k THEN S ELSE k) /\ len - r + p = k
    BY <1>2, <1>7, <1>5, <2>3, <2>5
  <2>7. room = IF S <= k + n THEN S ELSE k + n
    <3>1. len - pop + (p + n) = k + n + r
      BY <1>9, <2>1, <2>6
    <3> QED
      BY <1>6, <2>6, <3>1 DEF Least
  <2>8. BaseOf(b, todo - pop, room) = IF b <= (IF b + todo <= room THEN b + todo ELSE room) THEN (IF b + todo <= room THEN b + todo ELSE room) ELSE b
    <3>1. todo - pop = todo
      BY <1>9, <2>1, <2>4
    <3> QED
      BY <1>11, <3>1 DEF BaseOf, Most, Least
  <2>9. (IF b <= (IF b + todo <= room THEN b + todo ELSE room) THEN (IF b + todo <= room THEN b + todo ELSE room) ELSE b) = room
    BY <1>6, <1>9, <2>3, <2>4, <2>6, <2>7
  <2>10. b0 + (p + n) - z = k + n
    BY <1>2, <1>4, <2>1, <2>2, <2>5
  <2>11. pop \in Nat /\ trimmed \in Nat /\ trimmed <= n
    BY <1>9, <2>1, <2>3
  <2> QED
    BY <1>3, <1>4, <1>7, <1>8, <1>5, <1>11, <2>11, <2>2, <2>7, <2>8, <2>9, <2>10
<1> QED
  BY <1>7, <1>10, <1>11

(* Min and Max of a pair.                                                  *)
LEMMA LeastMost ==
  \A a, d \in Int : /\ Min({a, d}) = Least(a, d) /\ Max({a, d}) = Most(a, d)
                    /\ Least(a, d) \in Int /\ Most(a, d) \in Int
<1> SUFFICES ASSUME NEW a \in Int, NEW d \in Int
             PROVE  /\ Min({a, d}) = Least(a, d) /\ Max({a, d}) = Most(a, d)
                    /\ Least(a, d) \in Int /\ Most(a, d) \in Int
  OBVIOUS
<1>1. Min({a, d}) = Least(a, d)
  BY MinOfTwo DEF Least
<1>2. Max({a, d}) = Most(a, d)
  BY MaxOfTwo DEF Most
<1>3. Least(a, d) \in Int /\ Most(a, d) \in Int
  BY DEF Least, Most
<1> QED
  BY <1>1, <1>2, <1>3

(* What the view is after p rows have been collected.                      *)
Counts(b, b0, y0, p, r) ==
  /\ Len(b.lines) = b0 + r - Gone(b0, y0, p, r) /\ b.y = y0 + Gone(b0, y0, p, r)
  /\ b.ybase = FirstThen(b0, y0, p, r)

(* A round of reflowSmaller that puts in n rows more.                      *)
LEMMA AdjustedCounts ==
  ASSUME NEW w \in Nat, NEW r \in Nat \ {0}, NEW nb \in Buffers(w, r), NEW b0 \in Nat, NEW y0 \in Nat,
         y0 <= r - 1, b0 <= Scrollback, NEW p \in Nat, NEW n \in Nat, Counts(nb, b0, y0, p, r)
  PROVE  /\ Counts(Adjusted(nb, n, p + n, r), b0, y0, p + n, r)
         /\ Adjusted(nb, n, p + n, r).start = nb.start
<1>1. PICK q, b, y, len, max : /\ q = Gone(b0, y0, p, r) /\ b = nb.ybase /\ y = nb.y
                               /\ len = Len(nb.lines) /\ max = MaxLength(r)
  OBVIOUS
<1>2. max = r + Scrollback /\ max \in Int /\ b \in Int /\ y \in Int /\ len \in Nat
  BY <1>1, MaxLengthWhole, MaxLengthIs, BufferParts
<1>3. b = FirstThen(b0, y0, p, r) /\ y = y0 + q /\ len = b0 + r - q
  BY <1>1 DEF Counts
<1>4. PICK trimmed : trimmed = Trim(b, y, len, n, max)
  OBVIOUS
<1>5. PICK todo : todo = Most(0, n - trimmed)
  OBVIOUS
<1>6. PICK pop : pop = IF b = 0 THEN Least(todo, Most(0, r - 1 - y)) ELSE 0
  OBVIOUS
<1>7. PICK room : room = Least(max, len - pop + (p + n)) - r
  OBVIOUS
<1>8. PICK m : m = p + n
  OBVIOUS
<1>9. /\ q + pop = Gone(b0, y0, m, r) /\ BaseOf(b, todo - pop, room) = FirstThen(b0, y0, m, r)
      /\ pop \in Nat /\ trimmed \in Nat /\ trimmed <= n /\ m \in Nat
  <2>1. /\ q + pop = Gone(b0, y0, p + n, r) /\ BaseOf(b, todo - pop, room) = FirstThen(b0, y0, p + n, r)
        /\ pop \in Nat /\ trimmed \in Nat /\ trimmed <= n
    BY ONLY CountsAdd, <1>1, <1>2, <1>3, <1>4, <1>5, <1>6, <1>7, b0 \in Nat, y0 \in Nat, p \in Nat, n \in Nat,
            r \in Nat \ {0}, y0 <= r - 1, b0 <= Scrollback
  <2> QED
    BY <1>8, <2>1
<1>10. trimmed = IF b = 0 /\ y # len - 1 THEN Max({0, y - max + n}) ELSE Max({0, len - max + n})
  <2>1. y - max + n \in Int /\ len - max + n \in Int /\ 0 \in Int
    BY <1>2
  <2>2. Max({0, y - max + n}) = Most(0, y - max + n) /\ Max({0, len - max + n}) = Most(0, len - max + n)
    BY <2>1, LeastMost
  <2> QED
    BY <1>4, <2>2 DEF Trim
<1>11. todo = Max({0, n - trimmed}) /\ todo \in Int
  <2>1. n - trimmed \in Int /\ 0 \in Int
    BY <1>9
  <2> QED
    BY <1>5, <2>1, LeastMost
<1>12. pop = IF b = 0 THEN Min({todo, Max({0, r - 1 - y})}) ELSE 0
  <2>1. r - 1 - y \in Int /\ 0 \in Int
    BY <1>2
  <2>2. Max({0, r - 1 - y}) = Most(0, r - 1 - y) /\ Most(0, r - 1 - y) \in Int
    BY <2>1, LeastMost
  <2>3. Min({todo, Most(0, r - 1 - y)}) = Least(todo, Most(0, r - 1 - y))
    BY <1>11, <2>2, LeastMost
  <2> QED
    BY <1>6, <2>2, <2>3
<1>13. room = Min({max, len - pop + m}) - r /\ room \in Int
  <2>1. len - pop + m \in Int
    BY <1>2, <1>9
  <2>2. PICK d : d = len - pop + m
    OBVIOUS
  <2>3. Min({max, d}) = Least(max, d) /\ Least(max, d) \in Int
    BY <1>2, <2>1, <2>2, LeastMost
  <2>4. room = Least(max, d) - r
    BY <1>7, <1>8, <2>2
  <2> QED
    BY <2>2, <2>3, <2>4
<1>14. PICK rest, first : rest = todo - pop /\ first = BaseOf(b, rest, room)
  OBVIOUS
<1>15. first = IF b = 0 THEN IF rest = 0 THEN 0 ELSE Max({1, Min({rest, room})})
               ELSE Max({b, Min({b + rest, room})})
  <2>1. rest \in Int /\ b + rest \in Int /\ 1 \in Int
    BY <1>2, <1>9, <1>11, <1>14
  <2>2. Min({rest, room}) = Least(rest, room) /\ Least(rest, room) \in Int
    BY <1>13, <2>1, LeastMost
  <2>3. Min({b + rest, room}) = Least(b + rest, room) /\ Least(b + rest, room) \in Int
    BY <1>13, <2>1, LeastMost
  <2>4. Max({1, Least(rest, room)}) = Most(1, Least(rest, room))
    BY <2>1, <2>2, LeastMost
  <2>5. Max({b, Least(b + rest, room)}) = Most(b, Least(b + rest, room))
    BY <1>2, <2>3, LeastMost
  <2> QED
    BY <1>14, <2>2, <2>3, <2>4, <2>5 DEF BaseOf
<1>16. PICK s : s = SubSeq(nb.lines, 1, len - pop)
  OBVIOUS
<1>17. PICK d : d = [nb EXCEPT !.lines = s, !.y = y + pop, !.ybase = first]
  OBVIOUS
<1>18. Adjusted(nb, n, m, r) = d
  BY <1>1, <1>10, <1>11, <1>12, <1>13, <1>14, <1>15, <1>16, <1>17 DEF Adjusted
<1>19. d.lines = s /\ d.y = y + pop /\ d.ybase = first /\ d.start = nb.start
  BY <1>17 DEF Buffers
<1>20. PICK z : z = Gone(b0, y0, m, r)
  OBVIOUS
<1>21. z = q + pop /\ z \in Nat /\ z <= r - 1 - y0 /\ q \in Int
  <2>1. /\ Gone(b0, y0, m, r) \in Nat /\ Gone(b0, y0, m, r) <= r - 1 - y0
        /\ Gone(b0, y0, p, r) \in Nat
    <3>1. m \in Nat
      BY <1>9
    <3> QED
      BY ONLY GoneIs, <3>1, b0 \in Nat, y0 \in Nat, p \in Nat, r \in Nat \ {0}, y0 <= r - 1
  <2> QED
    BY <1>1, <1>9, <1>20, <2>1
<1>22. len - pop = b0 + r - z /\ y + pop = y0 + z /\ len - pop \in Nat
  BY <1>2, <1>3, <1>9, <1>21
<1>23. Len(s) = len - pop
  <2>1. PICK k : k = len - pop
    OBVIOUS
  <2>2. k \in Nat /\ k \in Int /\ k <= len
    BY <1>2, <1>9, <1>22, <2>1
  <2>3. Len(SubSeq(nb.lines, 1, k)) = IF k >= 0 THEN k ELSE 0
    BY <1>1, <2>2, BufferParts, FirstLines
  <2> QED
    BY <1>16, <2>1, <2>2, <2>3
<1>24. Counts(d, b0, y0, m, r)
  BY <1>9, <1>14, <1>19, <1>20, <1>22, <1>23 DEF Counts
<1> QED
  BY <1>8, <1>18, <1>19, <1>24

-----------------------------------------------------------------------------
(* The rows are put in.                                                    *)

(* Rows put in at any positions of a list: it gets as many more as there   *)
(* are of them.  The list is taken position by position, and of each the   *)
(* additions one by one.                                                   *)
Taken(t, at, size, n, j) ==
  /\ t \in [0..n -> Nat] /\ t[0] = 0
  /\ \A i \in 1..n : t[i] = t[i - 1] + (IF at[i] < j THEN size[i] ELSE 0)
Placing(put, at, size, n, k) ==
  /\ at \in [1..n -> 0..k] /\ size \in [1..n -> Nat] /\ put \in [0..k -> [0..n -> Nat]]
  /\ \A j \in 0..k : put[j][0] = 0
                      /\ \A i \in 1..n : put[j][i] = put[j][i - 1] + (IF at[i] = j THEN size[i] ELSE 0)
Listing(all, put, n, k) ==
  /\ all \in [0..(k + 1) -> Nat] /\ all[0] = 0
  /\ \A j \in 1..(k + 1) : all[j] = all[j - 1] + put[j - 1][n] + (IF j - 1 < k THEN 1 ELSE 0)
Remaining(left, size, n) ==
  /\ left \in [0..n -> Nat] /\ left[n] = 0
  /\ \A i \in 1..n : left[i - 1] = left[i] + size[i]
LEMMA TotalTaken ==
  ASSUME NEW n \in Nat, NEW k \in Nat, NEW at, NEW size, NEW put, Placing(put, at, size, n, k),
         NEW all, Listing(all, put, n, k), NEW left, Remaining(left, size, n)
  PROVE  all[k + 1] = k + left[0]
<1> USE DEF Placing, Listing, Remaining
<1> DEFINE D == {j \in 0..(k + 1) : \E t : Taken(t, at, size, n, j) /\ all[j] = t[n] + (IF j <= k THEN j ELSE k)}
<1>1. 0 \in D
  <2>1. PICK t : t = [i \in 0..n |-> 0]
    OBVIOUS
  <2>2. t[0] = 0 /\ t[n] = 0 /\ t \in [0..n -> Nat]
    BY <2>1
  <2>3. \A i \in 1..n : t[i] = 0 /\ t[i - 1] = 0 /\ ~(at[i] < 0)
    BY <2>1, FromZero, SMTT(30)
  <2>4. Taken(t, at, size, n, 0)
    BY <2>2, <2>3 DEF Taken
  <2> QED
    BY <2>2, <2>4
<1>2. ASSUME NEW j \in 1..(k + 1), j - 1 \in D PROVE j \in D
  <2>1. PICK i0 : i0 = j - 1
    OBVIOUS
  <2>2. i0 \in 0..k /\ i0 <= k /\ j = i0 + 1 /\ i0 \in Nat
    BY <2>1
  <2>3. PICK t : Taken(t, at, size, n, i0) /\ all[i0] = t[n] + i0
    BY <1>2, <2>1, <2>2
  <2>4. t \in [0..n -> Nat] /\ t[0] = 0 /\ \A i \in 1..n : t[i] = t[i - 1] + (IF at[i] < i0 THEN size[i] ELSE 0)
    BY <2>3 DEF Taken
  <2>5. PICK u : u = put[i0]
    OBVIOUS
  <2>6. u \in [0..n -> Nat] /\ u[0] = 0 /\ \A i \in 1..n : u[i] = u[i - 1] + (IF at[i] = i0 THEN size[i] ELSE 0)
    <3>1. put \in [0..k -> [0..n -> Nat]]
      BY Zenon
    <3>2. put[i0] \in [0..n -> Nat]
      BY ONLY <2>2, <3>1
    <3>3. put[i0][0] = 0 /\ \A i \in 1..n : put[i0][i] = put[i0][i - 1] + (IF at[i] = i0 THEN size[i] ELSE 0)
      BY <2>2, Zenon
    <3> QED
      BY <2>5, <3>2, <3>3, Zenon
  <2>7. PICK e : e = [i \in 0..n |-> t[i] + u[i]]
    OBVIOUS
  <2>8. e \in [0..n -> Nat] /\ e[0] = 0 /\ e[n] = t[n] + u[n]
    <3>1. 0 \in 0..n /\ n \in 0..n
      OBVIOUS
    <3>2. \A i \in 0..n : e[i] = t[i] + u[i]
      BY <2>7
    <3>3. \A i \in 0..n : t[i] \in Nat /\ u[i] \in Nat
      BY <2>4, <2>6
    <3>4. \A a, d \in Nat : a + d \in Nat
      OBVIOUS
    <3>5. \A i \in 0..n : t[i] + u[i] \in Nat
      BY ONLY <3>3, <3>4
    <3>6. e \in [0..n -> Nat]
      BY <2>7, <3>5
    <3>7. t[0] = 0 /\ u[0] = 0
      BY <2>4, <2>6
    <3> QED
      BY <3>1, <3>2, <3>6, <3>7, SMTT(30)
  <2>9. ASSUME NEW i \in 1..n PROVE e[i] = e[i - 1] + (IF at[i] < j THEN size[i] ELSE 0)
    <3>1. i \in 0..n /\ i - 1 \in 0..n
      BY FromZero
    <3>2. e[i] = t[i] + u[i] /\ e[i - 1] = t[i - 1] + u[i - 1]
      BY <2>7, <3>1
    <3>3. t[i] = t[i - 1] + (IF at[i] < i0 THEN size[i] ELSE 0) /\ u[i] = u[i - 1] + (IF at[i] = i0 THEN size[i] ELSE 0)
      BY <2>4, <2>6
    <3>4. PICK a, d, m, z : a = t[i - 1] /\ d = u[i - 1] /\ m = at[i] /\ z = size[i]
      OBVIOUS
    <3>5. a \in Nat /\ d \in Nat /\ m \in Int /\ z \in Nat
      BY <2>4, <2>6, <3>1, <3>4
    <3>6. a + (IF m < i0 THEN z ELSE 0) + (d + (IF m = i0 THEN z ELSE 0)) = a + d + (IF m < j THEN z ELSE 0)
      BY ONLY <2>2, <3>5
    <3> QED
      BY <3>2, <3>3, <3>4, <3>6
  <2>10. Taken(e, at, size, n, j)
    BY <2>8, <2>9 DEF Taken
  <2>11. all[j] = e[n] + (IF j <= k THEN j ELSE k)
    <3>1. all[j] = all[i0] + u[n] + (IF i0 < k THEN 1 ELSE 0)
      BY <2>1, <2>5
    <3>2. t[n] \in Nat /\ u[n] \in Nat
      BY <2>4, <2>6
    <3>3. all[j] = t[n] + i0 + u[n] + (IF i0 < k THEN 1 ELSE 0)
      BY <2>3, <3>1
    <3>4. PICK a, d, z : a = t[n] /\ d = u[n] /\ z = all[j]
      OBVIOUS
    <3>5. a \in Nat /\ d \in Nat /\ z = a + i0 + d + (IF i0 < k THEN 1 ELSE 0)
      BY <3>2, <3>3, <3>4
    <3>6. z = a + d + (IF j <= k THEN j ELSE k)
      BY ONLY <2>2, <3>5, k \in Nat
    <3> QED
      BY <2>8, <3>4, <3>6
  <2> QED
    BY <2>10, <2>11
<1>3. k + 1 \in D
  <2>1. k + 1 \in Nat
    OBVIOUS
  <2>2. \A j \in 1..(k + 1) : j - 1 \in D => j \in D
    BY <1>2
  <2> HIDE DEF D
  <2> QED
    BY <1>1, <2>1, <2>2, CountingUp
<1>4. PICK t : Taken(t, at, size, n, k + 1) /\ all[k + 1] = t[n] + k
  BY <1>3
<1>5. /\ t \in [0..n -> Nat] /\ t[0] = 0
      /\ \A i \in 1..n : t[i] = t[i - 1] + (IF at[i] < k + 1 THEN size[i] ELSE 0)
  BY <1>4 DEF Taken
<1>6. \A i \in 1..n : t[i] = t[i - 1] + size[i]
  <2>1. \A i \in 1..n : at[i] < k + 1
    OBVIOUS
  <2> QED
    BY <1>5, <2>1
<1> DEFINE E == {i \in 0..n : t[i] + left[i] = left[0]}
<1>7. 0 \in E
  BY <1>5
<1>8. \A i \in 1..n : i - 1 \in E => i \in E
  <2> SUFFICES ASSUME NEW i \in 1..n, i - 1 \in E PROVE i \in E
    OBVIOUS
  <2>1. i \in 0..n /\ i - 1 \in 0..n
    BY FromZero
  <2>2. t[i] = t[i - 1] + size[i] /\ left[i - 1] = left[i] + size[i] /\ t[i - 1] + left[i - 1] = left[0]
    BY <1>6
  <2>3. t[i - 1] \in Nat /\ left[i] \in Nat /\ size[i] \in Nat
    <3>1. t \in [0..n -> Nat]
      BY <1>5
    <3>2. left \in [0..n -> Nat] /\ size \in [1..n -> Nat]
      BY Zenon
    <3> QED
      BY ONLY <2>1, <3>1, <3>2, i \in 1..n
  <2>4. PICK a, d, z : a = t[i - 1] /\ d = left[i] /\ z = size[i]
    OBVIOUS
  <2>5. a + z + d = a + (d + z)
    <3>1. a \in Nat /\ d \in Nat /\ z \in Nat
      BY <2>3, <2>4
    <3> QED
      BY ONLY <3>1
  <2>6. t[i] + left[i] = left[0]
    BY <2>2, <2>4, <2>5
  <2> QED
    BY <2>1, <2>6
<1>9. n \in E
  <2> HIDE DEF E
  <2> QED
    BY <1>7, <1>8, CountingUp
<1>10. t[n] = left[0]
  <2>1. t[n] + left[n] = left[0] /\ t[n] \in Nat
    BY <1>5, <1>9
  <2> QED
    BY <2>1
<1>11. left[0] \in Nat
  OBVIOUS
<1> QED
  BY <1>4, <1>10, <1>11

(* The rows to be put in, p in all, each group at a row of the list.       *)
Counted(ins, p) ==
  \E f \in [0..Len(ins) -> Nat] :
    /\ f[Len(ins)] = 0 /\ f[0] = p
    /\ \A i \in 1..Len(ins) : ins[i].at \in Nat /\ f[i - 1] = f[i] + Len(ins[i].new)

(* A sequence of one element.                                              *)
LEMMA LengthOfOne == ASSUME NEW e PROVE Len(<<e>>) = 1
  OBVIOUS

(* The list with all rows put in has as many more as are counted.          *)
LEMMA AllInsertedLength ==
  ASSUME NEW w \in Nat, NEW ls \in Seq(Lines(w)), NEW ins \in Additions(w), NEW p \in Nat, Counted(ins, p)
  PROVE  Len(AllInserted(ls, ins)) = Len(ls) + p
<1> DEFINE tagged(e) == [i \in DOMAIN e.new |-> [line |-> e.new[i], of |-> e.at + 1]]
           own(j) == IF j < Len(ls) THEN <<[line |-> ls[j + 1], of |-> 0]>> ELSE <<>>
           parts(j) == [i \in DOMAIN ins |-> IF Min({ins[i].at, Len(ls)}) = j THEN tagged(ins[i]) ELSE <<>>]
           put(j) == Seqs!FlattenSeq(parts(j))
           all == [j \in 1..(Len(ls) + 1) |-> put(j - 1) \o own(j - 1)]
<1>1. PICK n, k : n = Len(ins) /\ k = Len(ls)
  OBVIOUS
<1>2. n \in Nat /\ k \in Nat /\ DOMAIN ins = 1..n /\ <<>> \in Seq(Tagged(w))
  BY <1>1 DEF Additions
<1>3. PICK left : /\ left \in [0..n -> Nat] /\ left[n] = 0 /\ left[0] = p
                  /\ \A i \in 1..n : ins[i].at \in Nat /\ left[i - 1] = left[i] + Len(ins[i].new)
  BY <1>1 DEF Counted
<1>4. \A i \in 1..n : ins[i] \in [at : Int, new : Seq(Lines(w))]
  <2>1. PICK E : E = [at : Int, new : Seq(Lines(w))]
    OBVIOUS
  <2>2. ins \in Seq(E)
    BY <2>1 DEF Additions
  <2>3. \A i \in 1..n : ins[i] \in E
    BY <1>1, <2>2
  <2> QED
    BY <2>1, <2>3
<1> DEFINE at == [i \in 1..n |-> Min({ins[i].at, k})]
           size == [i \in 1..n |-> Len(ins[i].new)]
<1>5. at \in [1..n -> 0..k] /\ size \in [1..n -> Nat]
  <2>1. ASSUME NEW i \in 1..n PROVE Min({ins[i].at, k}) \in 0..k /\ Len(ins[i].new) \in Nat
    <3>1. ins[i].at \in Nat /\ ins[i].at \in Int /\ k \in Int /\ Len(ins[i].new) \in Nat
      BY <1>2, <1>3, <1>4
    <3>2. PICK a : a = ins[i].at
      OBVIOUS
    <3>3. a \in Nat /\ a \in Int
      BY <3>1, <3>2
    <3>4. Min({a, k}) = IF a <= k THEN a ELSE k
      BY <3>1, <3>3, MinOfTwo
    <3>5. Min({a, k}) \in 0..k
      BY <1>2, <3>3, <3>4
    <3> QED
      BY <3>1, <3>2, <3>5
  <2> QED
    BY <2>1
<1>6. ASSUME NEW e \in [at : Int, new : Seq(Lines(w))]
      PROVE  tagged(e) \in Seq(Tagged(w)) /\ Len(tagged(e)) = Len(e.new)
  <2>1. PICK m : m = Len(e.new)
    OBVIOUS
  <2>2. m \in Nat /\ DOMAIN e.new = 1..m /\ (\A i \in 1..m : e.new[i] \in Lines(w)) /\ e.at + 1 \in Int
    BY <2>1
  <2>3. tagged(e) \in [1..m -> Tagged(w)]
    BY <2>2 DEF Tagged
  <2> HIDE DEF tagged
  <2>4. tagged(e) \in Seq(Tagged(w)) /\ DOMAIN tagged(e) = 1..m
    BY <2>2, <2>3, SeqDef
  <2> QED
    BY <2>1, <2>2, <2>4, LenProperties
<1> HIDE DEF tagged
<1>7. ASSUME NEW j
      PROVE  /\ parts(j) \in Seq(Seq(Tagged(w))) /\ Len(parts(j)) = n
             /\ \A i \in 1..n : Len(parts(j)[i]) = IF at[i] = j THEN size[i] ELSE 0
  <2>1. parts(j) \in [1..n -> Seq(Tagged(w))]
    BY <1>2, <1>4, <1>6
  <2>2. ASSUME NEW i \in 1..n PROVE Len(parts(j)[i]) = IF at[i] = j THEN size[i] ELSE 0
    <3>1. parts(j)[i] = IF at[i] = j THEN tagged(ins[i]) ELSE <<>>
      BY <1>1, <1>2
    <3>2. Len(tagged(ins[i])) = size[i]
      BY <1>4, <1>6
    <3> QED
      BY <3>1, <3>2, LengthOfNothing
  <2> HIDE DEF parts, at, size
  <2>3. parts(j) \in Seq(Seq(Tagged(w))) /\ DOMAIN parts(j) = 1..n
    BY <1>2, <2>1, SeqDef
  <2> QED
    BY <1>2, <2>2, <2>3, LenProperties
<1> HIDE DEF parts
<1>8. ASSUME NEW j PROVE \E a : Adding(a, parts(j)) /\ Len(put(j)) = a[n]
  <2>1. PICK ss, S : ss = parts(j) /\ S = Tagged(w)
    OBVIOUS
  <2>2. ss \in Seq(Seq(S)) /\ Len(ss) = n
    BY <1>7, <2>1
  <2>3. \E a : Adding(a, ss) /\ Len(Seqs!FlattenSeq(ss)) = a[Len(ss)]
    BY <2>2, FlattenLengths
  <2>4. put(j) = Seqs!FlattenSeq(ss)
    BY <2>1
  <2> QED
    BY <2>1, <2>2, <2>3, <2>4
<1> DEFINE B == [j \in 0..k |-> CHOOSE a : Adding(a, parts(j)) /\ Len(put(j)) = a[n]]
<1>9. \A j \in 0..k : Adding(B[j], parts(j)) /\ Len(put(j)) = B[j][n]
  BY <1>8
<1> HIDE DEF B
<1>10. ASSUME NEW j \in 0..k
       PROVE  /\ B[j] \in [0..n -> Nat] /\ B[j][0] = 0
              /\ \A i \in 1..n : B[j][i] = B[j][i - 1] + (IF at[i] = j THEN size[i] ELSE 0)
  <2>1. PICK t, ss : t = B[j] /\ ss = parts(j)
    OBVIOUS
  <2>2. Adding(t, ss) /\ Len(ss) = n /\ \A i \in 1..n : Len(ss[i]) = IF at[i] = j THEN size[i] ELSE 0
    BY <1>7, <1>9, <2>1
  <2>3. t \in [0..n -> Nat] /\ t[0] = 0 /\ \A i \in 1..n : t[i] = t[i - 1] + Len(ss[i])
    BY <2>2 DEF Adding
  <2>4. \A i \in 1..n : t[i] = t[i - 1] + (IF at[i] = j THEN size[i] ELSE 0)
    BY <2>2, <2>3
  <2> QED
    BY <2>1, <2>3, <2>4
<1>11. ASSUME NEW j PROVE put(j) \in Seq(Tagged(w))
  <2>1. PICK ss, S : ss = parts(j) /\ S = Tagged(w)
    OBVIOUS
  <2>2. ss \in Seq(Seq(S))
    BY <1>7, <2>1
  <2> QED
    BY <2>1, <2>2, FlattenIs
<1>12. ASSUME NEW j \in Nat PROVE own(j) \in Seq(Tagged(w)) /\ Len(own(j)) = IF j < k THEN 1 ELSE 0
  <2>1. CASE j < k
    <3>1. PICK e : e = [line |-> ls[j + 1], of |-> 0]
      OBVIOUS
    <3>2. j + 1 \in 1..Len(ls)
      BY <1>1, <1>2, <2>1
    <3>3. e \in Tagged(w)
      BY <3>1, <3>2 DEF Tagged
    <3>4. <<e>> \in Seq(Tagged(w)) /\ Len(<<e>>) = 1
      BY <3>3, LengthOfOne
    <3> QED
      BY <1>1, <2>1, <3>1, <3>4
  <2>2. CASE ~(j < k)
    BY <1>1, <1>2, <2>2, LengthOfNothing
  <2> QED
    BY <2>1, <2>2
<1>13. AllInserted(ls, ins) = Seqs!FlattenSeq(all)
  BY DEF AllInserted, parts, tagged
<1> HIDE DEF put, own
<1>14. ASSUME NEW j \in 1..(k + 1)
       PROVE  /\ all[j] \in Seq(Tagged(w))
              /\ Len(all[j]) = B[j - 1][n] + (IF j - 1 < k THEN 1 ELSE 0)
  <2>1. j - 1 \in Nat /\ j - 1 \in 0..k
    BY <1>2
  <2>2. put(j - 1) \in Seq(Tagged(w)) /\ own(j - 1) \in Seq(Tagged(w))
    BY <1>11, <1>12, <2>1
  <2>3. Len(put(j - 1)) = B[j - 1][n] /\ Len(own(j - 1)) = IF j - 1 < k THEN 1 ELSE 0
    BY <1>9, <1>12, <2>1
  <2>4. all[j] = put(j - 1) \o own(j - 1)
    BY <1>1
  <2>5. Len(put(j - 1) \o own(j - 1)) = Len(put(j - 1)) + Len(own(j - 1))
    BY <2>2, LengthOfBoth
  <2> QED
    BY <2>2, <2>3, <2>4, <2>5, ConcatProperties
<1>15. all \in Seq(Seq(Tagged(w))) /\ Len(all) = k + 1
  <2>1. DOMAIN all = 1..(k + 1) /\ k + 1 \in Nat
    BY <1>1, <1>2
  <2>2. all = [j \in 1..(k + 1) |-> all[j]]
    BY <1>1
  <2> HIDE DEF all
  <2>3. all \in [1..(k + 1) -> Seq(Tagged(w))]
    BY <1>14, <2>2
  <2>4. all \in Seq(Seq(Tagged(w)))
    BY <2>1, <2>3, SeqDef
  <2> QED
    BY <2>1, <2>4, LenProperties
<1> HIDE DEF all
<1>16. PICK a : Adding(a, all) /\ Len(Seqs!FlattenSeq(all)) = a[Len(all)]
  BY <1>15, FlattenLengths
<1>17. /\ a \in [0..(k + 1) -> Nat] /\ a[0] = 0
       /\ \A j \in 1..(k + 1) : a[j] = a[j - 1] + Len(all[j])
  BY <1>15, <1>16 DEF Adding
<1>18. \A j \in 1..(k + 1) : a[j] = a[j - 1] + B[j - 1][n] + (IF j - 1 < k THEN 1 ELSE 0)
  <2> SUFFICES ASSUME NEW j \in 1..(k + 1) PROVE a[j] = a[j - 1] + B[j - 1][n] + (IF j - 1 < k THEN 1 ELSE 0)
    OBVIOUS
  <2>1. k + 1 \in Nat /\ j - 1 \in 0..k
    BY <1>2
  <2>2. j - 1 \in 0..(k + 1) /\ n \in 0..n
    BY <1>2
  <2>3. PICK d, z, u : d = a[j - 1] /\ z = B[j - 1][n] /\ u = IF j - 1 < k THEN 1 ELSE 0
    OBVIOUS
  <2>4. d \in Nat /\ z \in Nat /\ u \in Nat
    BY <1>10, <1>17, <2>1, <2>2, <2>3
  <2>5. a[j] = d + (z + u)
    BY <1>14, <1>17, <2>3
  <2>6. d + (z + u) = d + z + u
    BY ONLY <2>4
  <2> QED
    BY <2>3, <2>5, <2>6
<1>19. \A i \in 1..n : left[i - 1] = left[i] + size[i]
  BY <1>3
<1>20. B \in [0..k -> [0..n -> Nat]]
  <2>1. B = [j \in 0..k |-> B[j]]
    BY DEF B
  <2> QED
    BY <1>10, <2>1
<1> HIDE DEF at, size
<1>21. a[k + 1] = k + left[0]
  <2>1. Placing(B, at, size, n, k)
    BY <1>5, <1>10, <1>20 DEF Placing
  <2>2. Listing(a, B, n, k)
    BY <1>17, <1>18 DEF Listing
  <2>3. Remaining(left, size, n)
    BY <1>3, <1>19 DEF Remaining
  <2> QED
    BY <1>2, <2>1, <2>2, <2>3, TotalTaken
<1> QED
  BY <1>1, <1>3, <1>13, <1>15, <1>16, <1>21

(* What the counts say, by cases.                                          *)
LEMMA CountsParts ==
  ASSUME NEW b, NEW b0 \in Nat, NEW y0 \in Nat, NEW p \in Nat, NEW r \in Nat \ {0}, y0 <= r - 1, b0 <= Scrollback,
         Counts(b, b0, y0, p, r)
  PROVE  \E q \in Nat, s \in Nat \ {0} :
           /\ q = Gone(b0, y0, p, r) /\ s = Scrollback /\ q <= p /\ q <= r - 1 - y0
           /\ Len(b.lines) = b0 + r - q /\ b.y = y0 + q
           /\ b.ybase = (IF s <= b0 + p - q THEN s ELSE b0 + p - q) /\ b.ybase \in 0..s
<1>1. PICK q, s : q = Gone(b0, y0, p, r) /\ s = Scrollback
  OBVIOUS
<1>2. q \in Nat /\ q <= p /\ q <= r - 1 - y0
  <2>1. Gone(b0, y0, p, r) \in Nat /\ Gone(b0, y0, p, r) <= p /\ Gone(b0, y0, p, r) <= r - 1 - y0
    BY ONLY GoneIs, b0 \in Nat, y0 \in Nat, p \in Nat, r \in Nat \ {0}, y0 <= r - 1
  <2> QED
    BY <1>1, <2>1
<1>3. s \in Nat \ {0} /\ s \in Nat
  BY <1>1, MaxLengthWhole
<1>4. /\ FirstThen(b0, y0, p, r) = (IF s <= b0 + p - q THEN s ELSE b0 + p - q)
      /\ FirstThen(b0, y0, p, r) \in Nat /\ FirstThen(b0, y0, p, r) <= s
  <2>1. s = Scrollback /\ q = Gone(b0, y0, p, r) /\ q <= p
    BY <1>1, <1>2
  <2> QED
    BY ONLY FirstThenIs, b0 \in Nat, p \in Nat, <1>2, <1>3, <2>1
<1>5. Len(b.lines) = b0 + r - q /\ b.y = y0 + q /\ b.ybase = FirstThen(b0, y0, p, r)
  BY <1>1 DEF Counts
<1>6. b.ybase \in 0..s
  BY <1>3, <1>4, <1>5
<1> QED
  BY <1>1, <1>2, <1>3, <1>4, <1>5, <1>6

(* With the rows put in the list holds the screen again.                   *)
LEMMA RelaidWhole ==
  ASSUME NEW w \in Nat, NEW r \in Nat \ {0}, NEW nb \in Buffers(w, r), NEW b0 \in Nat, NEW y0 \in Nat,
         y0 <= r - 1, b0 <= Scrollback, NEW p \in Nat, Counts(nb, b0, y0, p, r), NEW ins \in Additions(w), Counted(ins, p),
         nb.start \in 0..(MaxLength(r) - 1)
  PROVE  /\ Whole(Relaid(nb, ins, r), r) /\ Relaid(nb, ins, r).y = nb.y
         /\ Relaid(nb, ins, r).ybase = nb.ybase
<1> DEFINE all == AllInserted(nb.lines, ins)
           cut == Max({0, Len(all) - MaxLength(r)})
           kept == SubSeq(all, cut + 1, Len(all))
           over == {k \in 1..cut : /\ nb.start - k >= 0
                                   /\ \A j \in (cut + 1 - k)..(cut + 1) :
                                        all[j].of # 0 /\ all[j].of = all[cut + 1].of}
           lines == [i \in DOMAIN kept |-> IF Len(kept) + 1 - i \in over
                                           THEN all[cut + 1 - (Len(kept) + 1 - i)].line ELSE kept[i].line]
<1>1. PICK q \in Nat, s \in Nat \ {0} :
        /\ q = Gone(b0, y0, p, r) /\ s = Scrollback /\ q <= p /\ q <= r - 1 - y0
        /\ Len(nb.lines) = b0 + r - q /\ nb.y = y0 + q
        /\ nb.ybase = (IF s <= b0 + p - q THEN s ELSE b0 + p - q) /\ nb.ybase \in 0..s
  BY CountsParts
<1>2. nb.lines \in Seq(Lines(w)) /\ MaxLength(r) = r + s
  BY <1>1, BufferParts, MaxLengthWhole
<1>3. all \in Seq(Tagged(w)) /\ Len(all) = Len(nb.lines) + p
  BY <1>2, AllInsertedIs, AllInsertedLength
<1> HIDE DEF all
<1>4. PICK n : n = Len(all)
  OBVIOUS
<1>5. n \in Nat /\ n = b0 + r - q + p
  BY <1>1, <1>3, <1>4
<1>6. PICK e : e = cut
  OBVIOUS
<1>7. e = (IF 0 <= n - (r + s) THEN n - (r + s) ELSE 0) /\ e \in Nat /\ e <= n
  <2>1. n - (r + s) \in Int
    BY <1>1, <1>5
  <2>2. e = IF 0 <= n - (r + s) THEN n - (r + s) ELSE 0
    BY <1>2, <1>4, <1>6, <2>1, MaxOfTwo
  <2> QED
    BY ONLY <1>5, <2>2, r \in Nat \ {0}, s \in Nat \ {0}
<1> HIDE DEF cut
<1>8. Len(kept) = n - e /\ kept \in Seq(Tagged(w))
  <2>1. e + 1 \in 1..(Len(all) + 1) /\ Len(all) \in 0..Len(all) /\ e + 1 <= Len(all) + 1
    BY <1>4, <1>5, <1>7
  <2>2. SubSeq(all, e + 1, Len(all)) \in Seq(Tagged(w)) /\ Len(SubSeq(all, e + 1, Len(all))) = Len(all) - (e + 1) + 1
    BY <1>3, <2>1, SubSeqLength
  <2>3. n - (e + 1) + 1 = n - e
    BY <1>5, <1>7
  <2> QED
    BY <1>4, <1>6, <2>2, <2>3
<1> HIDE DEF kept, over
<1>9. DOMAIN lines = 1..(n - e) /\ n - e \in Nat
  <2>1. DOMAIN lines = DOMAIN kept
    OBVIOUS
  <2>2. DOMAIN kept = 1..Len(kept)
    BY <1>8
  <2> QED
    BY <1>5, <1>7, <1>8, <2>1, <2>2
<1>10. Relaid(nb, ins, r) = [nb EXCEPT !.lines = lines]
  BY DEF Relaid, lines, over, kept, cut, all
<1>11. lines \in Seq(Lines(w)) /\ Relaid(nb, ins, r).lines = lines
  <2>1. Relaid(nb, ins, r) \in Buffers(w, r)
    BY RelaidIs
  <2> HIDE DEF lines
  <2>2. [nb EXCEPT !.lines = lines].lines = lines
    BY DEF Buffers
  <2>3. Relaid(nb, ins, r).lines = lines
    BY <1>10, <2>2
  <2> QED
    BY <2>1, <2>3, BufferParts
<1> HIDE DEF lines
<1>12. Len(lines) = n - e
  BY <1>9, <1>11, LenProperties
<1>13. PICK d : d = [nb EXCEPT !.lines = lines]
  OBVIOUS
<1>14. d.lines = lines /\ d.ybase = nb.ybase /\ d.y = nb.y /\ d.start = nb.start
  BY <1>13 DEF Buffers
<1>15. PICK a : a = nb.ybase
  OBVIOUS
<1>16. n - e = a + r
  <2>1. a = (IF s <= b0 + p - q THEN s ELSE b0 + p - q) /\ q <= p
    BY <1>1, <1>15
  <2> QED
    BY ONLY <1>5, <1>7, <2>1, b0 \in Nat, p \in Nat, r \in Nat \ {0}, q \in Nat, s \in Nat \ {0}
<1>17. Len(d.lines) = d.ybase + r /\ d.ybase \in 0..Scrollback
  BY <1>1, <1>12, <1>14, <1>15, <1>16
<1>18. d.y \in 0..(r - 1)
  <2>1. d.y = y0 + q
    BY <1>1, <1>14
  <2>2. q <= r - 1 - y0
    BY <1>1
  <2>3. y0 + q \in 0..(r - 1)
    BY ONLY <2>2, y0 \in Nat, q \in Nat, r \in Nat \ {0}
  <2> QED
    BY <2>1, <2>3
<1>19. Whole(d, r)
  BY <1>14, <1>17, <1>18 DEF Whole
<1> QED
  BY <1>10, <1>13, <1>14, <1>19

-----------------------------------------------------------------------------
(* The rounds of reflowSmaller.                                            *)

(* A group put in front is counted too.                                    *)
LEMMA CountedMore ==
  ASSUME NEW w \in Nat, NEW ins \in Additions(w), NEW p \in Nat, NEW n \in Nat, Counted(ins, p),
         NEW e \in [at : Int, new : Seq(Lines(w))], e.at \in Nat, Len(e.new) = n
  PROVE  Counted(<<e>> \o ins, p + n)
<1>1. PICK m : m = Len(ins)
  OBVIOUS
<1>2. PICK E : E = [at : Int, new : Seq(Lines(w))]
  OBVIOUS
<1>3. ins \in Seq(E) /\ e \in E /\ m \in Nat
  BY <1>1, <1>2 DEF Additions
<1>4. PICK f : /\ f \in [0..m -> Nat] /\ f[m] = 0 /\ f[0] = p
               /\ \A i \in 1..m : ins[i].at \in Nat /\ f[i - 1] = f[i] + Len(ins[i].new)
  BY <1>1 DEF Counted
<1>5. PICK s : s = <<e>> \o ins
  OBVIOUS
<1>6. Len(s) = m + 1 /\ s[1] = e /\ \A i \in 2..(m + 1) : s[i] = ins[i - 1]
  <2>1. <<e>> \in Seq(E) /\ Len(<<e>>) = 1 /\ <<e>>[1] = e
    BY <1>3
  <2>2. PICK t : t = <<e>>
    OBVIOUS
  <2>3. t \in Seq(E) /\ Len(t) = 1 /\ t[1] = e /\ s = t \o ins
    BY <1>5, <2>1, <2>2
  <2>4. /\ Len(t \o ins) = 1 + m
        /\ \A i \in 1..(Len(t) + Len(ins)) : (t \o ins)[i] = IF i <= Len(t) THEN t[i] ELSE ins[i - Len(t)]
    <3>1. t \in Seq(E) /\ ins \in Seq(E) /\ Len(t) = 1 /\ Len(ins) = m
      BY <1>1, <1>3, <2>3
    <3>2. /\ Len(t \o ins) = Len(t) + Len(ins)
          /\ \A i \in 1..(Len(t) + Len(ins)) : (t \o ins)[i] = IF i <= Len(t) THEN t[i] ELSE ins[i - Len(t)]
      BY <3>1, ConcatProperties, ZenonT(20)
    <3> QED
      BY <3>1, <3>2
  <2>5. \A i \in 1..(1 + m) : (t \o ins)[i] = IF i <= 1 THEN t[i] ELSE ins[i - 1]
    BY <1>1, <2>3, <2>4
  <2>6. 1 + m = m + 1 /\ 1 \in 1..(m + 1) /\ \A i \in 2..(m + 1) : i \in 1..(1 + m) /\ ~(i <= 1)
    BY <1>3
  <2> QED
    BY <2>3, <2>4, <2>5, <2>6
<1>7. PICK h : h = [i \in 0..(m + 1) |-> IF i = 0 THEN p + n ELSE f[i - 1]]
  OBVIOUS
<1>8. p + n \in Nat /\ m + 1 # 0 /\ m + 1 - 1 = m
  BY <1>3
<1>9. \A i \in 0..(m + 1) : i # 0 => i - 1 \in 0..m
  BY <1>3
<1>10. h \in [0..(m + 1) -> Nat] /\ h[0] = p + n /\ h[m + 1] = 0
  <2>1. 0 \in 0..(m + 1) /\ m + 1 \in 0..(m + 1)
    BY <1>3
  <2>2. h \in [0..(m + 1) -> Nat]
    <3>1. \A i \in 0..(m + 1) : (IF i = 0 THEN p + n ELSE f[i - 1]) \in Nat
      BY <1>4, <1>8, <1>9
    <3> QED
      BY <1>7, <3>1
  <2>3. h[m + 1] = f[m]
    <3>1. PICK k : k = m + 1
      OBVIOUS
    <3>2. k \in 0..(m + 1) /\ k # 0 /\ k - 1 = m
      BY ONLY <1>3, <3>1
    <3>3. h[k] = f[k - 1]
      BY <1>7, <3>2
    <3> QED
      BY <3>1, <3>2, <3>3
  <2> QED
    BY <1>4, <1>7, <2>1, <2>2, <2>3
<1>11. ASSUME NEW i \in 1..(m + 1) PROVE s[i].at \in Nat /\ h[i - 1] = h[i] + Len(s[i].new)
  <2>1. i \in 0..(m + 1) /\ i - 1 \in 0..(m + 1) /\ i # 0 /\ h[i] = f[i - 1]
    BY <1>3, <1>7
  <2>2. CASE i = 1
    <3>1. h[0] = p + n /\ h[1] = p
      BY <1>4, <1>10, <2>1, <2>2
    <3> QED
      BY <1>6, <2>2, <3>1
  <2>3. CASE i # 1
    <3>1. i - 1 \in 1..m /\ i - 1 # 0 /\ i \in 2..(m + 1)
      BY <1>3, <2>3
    <3>2. h[i - 1] = f[i - 1 - 1]
      BY <1>7, <2>1, <3>1
    <3>3. f[i - 1 - 1] = f[i - 1] + Len(ins[i - 1].new) /\ ins[i - 1].at \in Nat
      BY <1>4, <3>1
    <3>4. s[i] = ins[i - 1]
      BY <1>6, <3>1
    <3> QED
      BY <2>1, <3>2, <3>3, <3>4
  <2> QED
    BY <2>2, <2>3
<1> QED
  BY <1>5, <1>6, <1>10, <1>11 DEF Counted

(* A group that is written again in its own rows leaves the list as long.  *)
LEMMA RewrappedLength ==
  ASSUME NEW w \in Nat, NEW r, NEW nb \in Buffers(w, r), NEW i \in Nat, NEW j \in Nat, i <= j, j < Len(nb.lines),
         NEW new \in Seq(Lines(w)), j - i + 1 <= Len(new)
  PROVE  /\ Len(Rewrapped(nb, i, j, new, j - i + 1).lines) = Len(nb.lines)
         /\ Rewrapped(nb, i, j, new, j - i + 1).ybase = nb.ybase /\ Rewrapped(nb, i, j, new, j - i + 1).y = nb.y
         /\ Rewrapped(nb, i, j, new, j - i + 1).start = nb.start
<1>1. PICK k, n, m : k = j - i + 1 /\ n = Len(nb.lines) /\ m = Len(new)
  OBVIOUS
<1>2. nb.lines \in Seq(Lines(w)) /\ n \in Nat /\ m \in Nat /\ k \in Nat /\ k <= m /\ i <= n /\ j < n
  BY <1>1, BufferParts
<1>3. PICK s, t, u : s = SubSeq(nb.lines, 1, i) /\ t = SubSeq(new, 1, k) /\ u = SubSeq(nb.lines, j + 2, Len(nb.lines))
  OBVIOUS
<1>4. s \in Seq(Lines(w)) /\ Len(s) = i
  <2>1. 1 \in 1..(n + 1) /\ i \in 0..n /\ 1 <= i + 1
    BY <1>2
  <2>2. Len(SubSeq(nb.lines, 1, i)) = i - 1 + 1 /\ SubSeq(nb.lines, 1, i) \in Seq(Lines(w))
    BY <1>1, <1>2, <2>1, SubSeqLength
  <2> QED
    BY <1>3, <2>2
<1>5. t \in Seq(Lines(w)) /\ Len(t) = k
  <2>1. 1 \in 1..(m + 1) /\ k \in 0..m /\ 1 <= k + 1
    BY <1>2
  <2>2. Len(SubSeq(new, 1, k)) = k - 1 + 1 /\ SubSeq(new, 1, k) \in Seq(Lines(w))
    BY <1>1, <2>1, SubSeqLength
  <2> QED
    BY <1>2, <1>3, <2>2
<1>6. u \in Seq(Lines(w)) /\ Len(u) = n - j - 1
  <2>1. j + 2 \in 1..(n + 1) /\ n \in 0..n /\ j + 2 <= n + 1
    BY <1>2
  <2>2. Len(SubSeq(nb.lines, j + 2, n)) = n - (j + 2) + 1 /\ SubSeq(nb.lines, j + 2, n) \in Seq(Lines(w))
    BY <1>1, <1>2, <2>1, SubSeqLength
  <2>3. n - (j + 2) + 1 = n - j - 1
    BY <1>2
  <2> QED
    BY <1>1, <1>3, <2>2, <2>3
<1>7. PICK a : a = s \o t
  OBVIOUS
<1>8. a \in Seq(Lines(w)) /\ Len(a) = i + k
  <2>1. Len(s \o t) = Len(s) + Len(t) /\ s \o t \in Seq(Lines(w))
    BY <1>4, <1>5, LengthOfBoth, ConcatProperties
  <2> QED
    BY <1>4, <1>5, <1>7, <2>1
<1>9. PICK v : v = a \o u
  OBVIOUS
<1>10. Len(v) = n
  <2>1. Len(a \o u) = Len(a) + Len(u)
    BY <1>6, <1>8, LengthOfBoth
  <2>2. Len(v) = (i + k) + (n - j - 1)
    BY <1>6, <1>8, <1>9, <2>1
  <2>3. (i + k) + (n - j - 1) = n
    <3>1. k = j - i + 1
      BY <1>1
    <3> QED
      BY ONLY <3>1, <1>2, i \in Nat, j \in Nat
  <2> QED
    BY <2>2, <2>3
<1>11. PICK d : d = [nb EXCEPT !.lines = v]
  OBVIOUS
<1>12. d.lines = v /\ d.ybase = nb.ybase /\ d.y = nb.y /\ d.start = nb.start
  BY <1>11 DEF Buffers
<1>13. Rewrapped(nb, i, j, new, k) = d
  BY <1>3, <1>7, <1>9, <1>11 DEF Rewrapped
<1> QED
  BY <1>1, <1>10, <1>12, <1>13

(* What the rounds keep: the view is that of the rows collected, the rows  *)
(* are as many as counted, and nothing has turned.                         *)
Standing(l, b0, y0, at, r) ==
  /\ l.pending \in Nat /\ l.bf.start = at
  /\ Counts(l.bf, b0, y0, l.pending, r) /\ Counted(l.ins, l.pending)

(* A round of reflowSmaller keeps that.                                    *)
LEMMA SmallerStands ==
  ASSUME Sized, NEW r \in Nat \ {0}, NEW x, NEW l \in Shrinking(cols, r, x), NEW c \in Nat \ {0, 1}, c < cols,
         NEW b0 \in Nat, NEW y0 \in Nat, y0 <= r - 1, b0 <= Scrollback, NEW at, Standing(l, b0, y0, at, r)
  PROVE  Standing(Smaller(l, c, r), b0, y0, at, r)
<1> DEFINE nb == l.bf
           first == FirstRow(nb.lines, l.last)
           g == SubSeq(nb.lines, first + 1, l.last + 1)
           lens == NewLengths(g, c)
           n == Len(lens) - Len(g)
           new == SmallerGroup(g, lens, c)
           moved == [nb EXCEPT !.lines = SubSeq(nb.lines, 1, first) \o SubSeq(new, 1, Len(g))
                                          \o SubSeq(nb.lines, l.last + 2, Len(nb.lines))]
           added == <<[at |-> l.last + 1, new |-> SubSeq(new, Len(g) + 1, Len(new))]>>
           after == Adjusted(moved, n, l.pending + n, r)
           kept == \/ ~At(nb, l.last).wrapped /\ TrimmedLength(At(nb, l.last)) <= c
                   \/ nb.ybase + nb.y \in first..l.last
           ins == IF n = 0 THEN l.ins ELSE added \o l.ins
           next == Min({first, Len(after.lines)}) - 1
<1>1. /\ nb \in Buffers(cols, r) /\ l.last \in Int /\ l.ins \in Additions(cols)
      /\ l.pending \in Nat /\ l.thrown \in BOOLEAN /\ l.last < Len(nb.lines) /\ nb.start = at
      /\ l \in [bf : {b \in Buffers(cols, r) : b.x = x}, last : Int, ins : Additions(cols),
                pending : Int, thrown : BOOLEAN]
  BY DEF Shrinking, Standing
<1>2. CASE l.last < 0 \/ l.thrown
  BY <1>2 DEF Smaller
<1>3. CASE ~(l.last < 0 \/ l.thrown)
  <2>1. nb.lines \in Seq(Lines(cols)) /\ Len(nb.lines) \in Nat
    <3>1. cols \in Nat
      BY DEF Sized
    <3> QED
      BY <1>1, <3>1, BufferParts
  <2>2. l.last \in 0..(Len(nb.lines) - 1)
    <3>1. PICK j, k : j = l.last /\ k = Len(nb.lines)
      OBVIOUS
    <3>2. j \in Int /\ ~(j < 0) /\ j < k /\ k \in Nat
      BY <1>1, <1>3, <2>1, <3>1
    <3>3. j \in 0..(k - 1)
      BY ONLY <3>2
    <3> QED
      BY <3>1, <3>3
  <2>3. first \in 0..l.last
    BY <2>1, <2>2, RowsAre
  <2> HIDE DEF first
  <2>4. CASE kept
    <3>1. PICK z : z = [l EXCEPT !.last = first - 1]
      OBVIOUS
    <3>2. Smaller(l, c, r) = z
      BY <1>3, <2>4, <3>1 DEF Smaller, first
    <3>3. z.pending = l.pending /\ z.bf = l.bf /\ z.ins = l.ins
      BY <1>1, <3>1
    <3> QED
      BY <3>2, <3>3 DEF Standing
  <2>5. CASE ~kept /\ lens = <<>>
    <3>1. PICK z : z = [l EXCEPT !.thrown = TRUE]
      OBVIOUS
    <3>2. Smaller(l, c, r) = z
      BY <1>3, <2>5, <3>1 DEF Smaller, first
    <3>3. z.pending = l.pending /\ z.bf = l.bf /\ z.ins = l.ins
      BY <1>1, <3>1
    <3> QED
      BY <3>2, <3>3 DEF Standing
  <2>6. CASE ~kept /\ lens # <<>>
    <3>1. first + 1 \in 1..Len(nb.lines) /\ l.last + 1 \in (first + 1)..Len(nb.lines)
      BY <2>1, <2>2, <2>3, FromOne, ZenonT(20)
    <3>2. g \in Groups(cols, (l.last + 1) - (first + 1) + 1)
      <4>1. cols \in Nat
        BY DEF Sized
      <4> QED
        BY <2>1, <3>1, <4>1, GroupFrom
    <3> HIDE DEF g
    <3>3. PICK m : m = (l.last + 1) - (first + 1) + 1
      OBVIOUS
    <3>4. m \in Nat \ {0} /\ m \in Nat /\ g \in Groups(cols, m) /\ m = l.last - first + 1
      BY <2>2, <2>3, <3>2, <3>3, SMTT(30)
    <3>5. Len(g) = m
      <4>1. cols \in Nat
        BY DEF Sized
      <4> QED
        BY <3>4, <4>1, GroupIs
    <3>6. lens \in Seq(Nat) /\ Len(lens) \in Nat /\ Len(lens) >= m
      <4>1. NewLengths(g, c) # <<>>
        BY <2>6
      <4>2. NewLengths(g, c) \in Seq(Nat) /\ Len(NewLengths(g, c)) \in Nat /\ Len(NewLengths(g, c)) >= m
        BY <3>4, <4>1, LengthsMany
      <4> QED
        BY <4>2
    <3> HIDE DEF lens
    <3>7. n \in Nat /\ Len(lens) = m + n
      BY <3>4, <3>5, <3>6
    <3>8. new \in Seq(Lines(cols)) /\ Len(new) = m + n
      <4>1. cols \in Nat \ {0} /\ c \in Nat
        BY DEF Sized
      <4>2. SmallerGroup(g, lens, c) \in Seq(Lines(cols)) /\ (Len(lens) >= m => Len(SmallerGroup(g, lens, c)) = Len(lens))
        BY <2>6, <3>4, <3>6, <4>1, SmallerGroupIs
      <4> QED
        BY <3>6, <3>7, <4>2
    <3> HIDE DEF new, n
    <3>9. /\ moved \in Buffers(cols, r) /\ Len(moved.lines) = Len(nb.lines)
          /\ moved.ybase = nb.ybase /\ moved.y = nb.y /\ moved.start = nb.start
      <4>1. PICK b, i, j : b = nb /\ i = first /\ j = l.last
        OBVIOUS
      <4>2. /\ b \in Buffers(cols, r) /\ i \in Nat /\ j \in Nat /\ i <= j /\ j < Len(b.lines) /\ i <= Len(b.lines)
            /\ m = j - i + 1 /\ m <= Len(new) /\ cols \in Nat
        <5>1. i <= j /\ i \in Nat /\ j \in Nat /\ j < Len(b.lines)
          BY <2>1, <2>2, <2>3, <4>1
        <5>2. i <= Len(b.lines)
          BY <2>1, <4>1, <5>1
        <5>3. m <= Len(new)
          BY <3>4, <3>7, <3>8
        <5>4. cols \in Nat
          BY DEF Sized
        <5> QED
          BY <1>1, <3>4, <4>1, <5>1, <5>2, <5>3, <5>4
      <4>3. moved = Rewrapped(b, i, j, new, m)
        BY <3>5, <4>1 DEF Rewrapped
      <4>4. Rewrapped(b, i, j, new, m) \in Buffers(cols, r)
        BY <3>4, <3>8, <4>2, RewrappedIs
      <4>5. /\ Len(Rewrapped(b, i, j, new, j - i + 1).lines) = Len(b.lines)
            /\ Rewrapped(b, i, j, new, j - i + 1).ybase = b.ybase /\ Rewrapped(b, i, j, new, j - i + 1).y = b.y
            /\ Rewrapped(b, i, j, new, j - i + 1).start = b.start
        <5>1. j - i + 1 <= Len(new)
          BY <4>2
        <5> QED
          BY <3>8, <4>2, <5>1, RewrappedLength
      <4> QED
        BY <4>1, <4>2, <4>3, <4>4, <4>5
    <3> HIDE DEF moved
    <3>10. Counts(moved, b0, y0, l.pending, r)
      BY <3>9 DEF Standing, Counts
    <3>11. PICK p : p = l.pending
      OBVIOUS
    <3>12. p \in Nat /\ p + n \in Nat /\ Counted(l.ins, p)
      BY <1>1, <3>7, <3>11 DEF Standing
    <3>13. Counts(after, b0, y0, p + n, r) /\ after.start = at
      <4>1. cols \in Nat
        BY DEF Sized
      <4>2. /\ Counts(Adjusted(moved, n, p + n, r), b0, y0, p + n, r)
            /\ Adjusted(moved, n, p + n, r).start = moved.start
        <5>1. PICK b, k : b = moved /\ k = n
          OBVIOUS
        <5>2. b \in Buffers(cols, r) /\ Counts(b, b0, y0, p, r) /\ k \in Nat
          BY <3>7, <3>9, <3>10, <3>11, <5>1
        <5>3. /\ Counts(Adjusted(b, k, p + k, r), b0, y0, p + k, r)
              /\ Adjusted(b, k, p + k, r).start = b.start
          BY ONLY AdjustedCounts, <3>12, <4>1, <5>2, r \in Nat \ {0}, b0 \in Nat, y0 \in Nat, y0 <= r - 1, b0 <= Scrollback
        <5> QED
          BY <5>1, <5>3
      <4> QED
        BY <1>1, <3>9, <3>11, <4>2
    <3> HIDE DEF after
    <3>14. Counted(ins, p + n)
      <4>1. PICK t : t = SubSeq(new, Len(g) + 1, Len(new))
        OBVIOUS
      <4>2. t \in Seq(Lines(cols)) /\ Len(t) = n
        <5>1. m + 1 \in 1..(Len(new) + 1) /\ Len(new) \in 0..Len(new) /\ m + 1 <= Len(new) + 1
          BY <3>4, <3>7, <3>8, SMTT(30)
        <5>2. SubSeq(new, m + 1, Len(new)) \in Seq(Lines(cols)) /\ Len(SubSeq(new, m + 1, Len(new))) = Len(new) - (m + 1) + 1
          BY <3>8, <5>1, SubSeqLength
        <5>3. Len(new) - (m + 1) + 1 = n
          BY <3>4, <3>7, <3>8
        <5> QED
          BY <3>5, <4>1, <5>2, <5>3
      <4>3. PICK e : e = [at |-> l.last + 1, new |-> t]
        OBVIOUS
      <4>4. e \in [at : Int, new : Seq(Lines(cols))] /\ e.at \in Nat /\ Len(e.new) = n
        <5>1. l.last + 1 \in Nat /\ l.last + 1 \in Int
          BY <2>2
        <5> QED
          BY <4>2, <4>3, <5>1
      <4>5. Counted(<<e>> \o l.ins, p + n)
        <5>1. cols \in Nat
          BY DEF Sized
        <5> QED
          BY <1>1, <3>7, <3>12, <4>4, <5>1, CountedMore
      <4>6. added = <<e>>
        BY <4>1, <4>3
      <4>7. n = 0 => p + n = p
        BY <3>12
      <4> QED
        BY <3>12, <4>5, <4>6, <4>7
    <3> HIDE DEF ins, next
    <3>15. PICK z : z = [bf |-> after, last |-> next, ins |-> ins, pending |-> l.pending + n, thrown |-> FALSE]
      OBVIOUS
    <3>16. Smaller(l, c, r) = z
      BY <1>3, <2>6, <3>15 DEF Smaller, ins, next, after, moved, n, new, lens, g, first
    <3>17. z.bf = after /\ z.ins = ins /\ z.pending = p + n
      BY <3>11, <3>15
    <3> QED
      BY <3>12, <3>13, <3>14, <3>16, <3>17 DEF Standing
  <2> QED
    BY <2>4, <2>5, <2>6
<1> QED
  BY <1>2, <1>3

(* It holds before the first round.                                        *)
LEMMA StandsAtFirst ==
  ASSUME NEW w \in Nat, NEW r \in Nat \ {0}, NEW nb \in Buffers(w, r), Whole(nb, r)
  PROVE  Counts(nb, nb.ybase, nb.y, 0, r) /\ Counted(<<>>, 0)
<1>1. PICK b, y, n : b = nb.ybase /\ y = nb.y /\ n = Len(nb.lines)
  OBVIOUS
<1>2. b \in Nat /\ b <= Scrollback /\ y \in Nat /\ y <= r - 1 /\ n = b + r /\ Scrollback \in Nat \ {0}
  BY <1>1, WholeParts
<1>3. PICK q, s : q = Gone(b, y, 0, r) /\ s = Scrollback
  OBVIOUS
<1>4. q = 0 /\ q \in Nat /\ q <= 0
  <2>1. Gone(b, y, 0, r) \in Nat /\ Gone(b, y, 0, r) <= 0
    <3>1. 0 \in Nat
      OBVIOUS
    <3> QED
      BY ONLY GoneIs, <1>2, <3>1, r \in Nat \ {0}
  <2> QED
    BY <1>3, <2>1
<1>5. FirstThen(b, y, 0, r) = b
  <2>1. s \in Nat /\ s = Scrollback /\ 0 \in Nat /\ b \in Nat /\ q = Gone(b, y, 0, r) /\ b <= s
    BY <1>2, <1>3
  <2>2. PICK p : p = 0
    OBVIOUS
  <2>3. p \in Nat /\ q = Gone(b, y, p, r) /\ q <= p /\ q \in Nat
    BY <1>3, <1>4, <2>2
  <2>4. FirstThen(b, y, p, r) = IF s <= b + p - q THEN s ELSE b + p - q
    BY ONLY FirstThenIs, <2>1, <2>3
  <2>5. (IF s <= b + p - q THEN s ELSE b + p - q) = b
    BY ONLY <1>4, <2>1, <2>2
  <2> QED
    BY <2>2, <2>4, <2>5
<1>6. n = b + r - q /\ y = y + q
  BY <1>2, <1>4
<1>7. Counts(nb, nb.ybase, nb.y, 0, r)
  BY <1>1, <1>3, <1>5, <1>6 DEF Counts
<1>8. Counted(<<>>, 0)
  <2>1. PICK s0 : s0 = <<>>
    OBVIOUS
  <2>2. Len(s0) = 0
    BY <2>1, LengthOfNothing
  <2>3. PICK f : f = [i \in 0..0 |-> 0]
    OBVIOUS
  <2>4. f \in [0..0 -> Nat] /\ f[0] = 0
    BY <2>3
  <2>5. Counted(s0, 0)
    BY <2>2, <2>4 DEF Counted
  <2> QED
    BY <2>1, <2>5
<1> QED
  BY <1>7, <1>8

(* So it holds after the last one.                                         *)
LEMMA SmallerLinesStand ==
  ASSUME Sized, NEW r \in Nat \ {0}, NEW nb \in Buffers(cols, r), Whole(nb, r), NEW c \in Nat \ {0, 1}, c < cols
  PROVE  /\ SmallerLines(nb, c, r) \in Shrinking(cols, r, nb.x)
         /\ Standing(SmallerLines(nb, c, r), nb.ybase, nb.y, nb.start, r)
<1> DEFINE start == [bf |-> nb, last |-> Len(nb.lines) - 1, ins |-> <<>>, pending |-> 0, thrown |-> FALSE]
           U == {l \in Shrinking(cols, r, nb.x) : Standing(l, nb.ybase, nb.y, nb.start, r)}
           m == Len(nb.lines)
           step == [k \in 1..m |-> [l \in U |-> Smaller(l, c, r)]]
<1>1. m \in Nat /\ cols \in Nat \ {0} /\ cols \in Nat /\ c \in Nat \ {0}
  <2>1. cols \in Nat \ {0} /\ cols \in Nat /\ c \in Nat \ {0}
    BY DEF Sized
  <2> QED
    BY <2>1, BufferParts
<1>2. start \in U
  <2>1. <<>> \in Additions(cols)
    BY DEF Additions
  <2>2. m - 1 \in Int /\ m - 1 < m
    BY <1>1
  <2>3. start \in [bf : {b \in Buffers(cols, r) : b.x = nb.x}, last : Int, ins : Additions(cols), pending : Int, thrown : BOOLEAN]
    BY <2>1, <2>2
  <2>4. start.last = m - 1 /\ start.bf = nb /\ start.pending = 0 /\ start.ins = <<>>
    OBVIOUS
  <2> HIDE DEF start
  <2>5. Counts(nb, nb.ybase, nb.y, 0, r) /\ Counted(<<>>, 0)
    BY <1>1, StandsAtFirst
  <2>6. start \in Shrinking(cols, r, nb.x)
    BY <2>2, <2>3, <2>4 DEF Shrinking
  <2>7. Standing(start, nb.ybase, nb.y, nb.start, r)
    BY <2>4, <2>5 DEF Standing
  <2> QED
    BY <2>6, <2>7
<1>3. \A l \in U : Smaller(l, c, r) \in U
  <2> SUFFICES ASSUME NEW l \in Shrinking(cols, r, nb.x), Standing(l, nb.ybase, nb.y, nb.start, r)
               PROVE  Smaller(l, c, r) \in U
    OBVIOUS
  <2>1. Smaller(l, c, r) \in Shrinking(cols, r, nb.x)
    BY <1>1, SmallerIs
  <2>2. PICK b, y, at, x : b = nb.ybase /\ y = nb.y /\ at = nb.start /\ x = nb.x
    OBVIOUS
  <2>3. b \in Nat /\ y \in Nat /\ y <= r - 1 /\ b <= Scrollback
    BY <1>1, <2>2, WholeParts
  <2>4. l \in Shrinking(cols, r, x) /\ Standing(l, b, y, at, r)
    BY <2>2
  <2>5. Standing(Smaller(l, c, r), b, y, at, r)
    BY <2>3, <2>4, SmallerStands
  <2> QED
    BY <2>1, <2>2, <2>5
<1>4. step \in [1..m -> [U -> U]] /\ \A k \in 1..m, l \in U : step[k][l] = Smaller(l, c, r)
  BY <1>3
<1> HIDE DEF step, m, U, start
<1>5. PICK f : Rounds(f, start, step, m) /\ \A i \in 0..m : f[i] \in U
  BY <1>1, <1>2, <1>4, RoundsExist
<1>6. f = [k \in 0..m |-> IF k = 0 THEN start ELSE step[k][f[k - 1]]]
  BY <1>5 DEF Rounds
<1>7. \A k \in 0..m : k # 0 => k \in 1..m /\ k - 1 \in 0..m
  BY <1>1
<1>8. \A k \in 0..m : k # 0 => step[k][f[k - 1]] = Smaller(f[k - 1], c, r)
  BY <1>4, <1>5, <1>7
<1>9. f = [k \in 0..m |-> IF k = 0 THEN start ELSE Smaller(f[k - 1], c, r)]
  BY <1>6, <1>8
<1>10. PICK e : e = CHOOSE h : h = [k \in 0..m |-> IF k = 0 THEN start ELSE Smaller(h[k - 1], c, r)]
  OBVIOUS
<1>11. e = [k \in 0..m |-> IF k = 0 THEN start ELSE Smaller(e[k - 1], c, r)]
  BY <1>9, <1>10
<1>12. e[0] = start /\ \A k \in 1..m : e[k] = Smaller(e[k - 1], c, r)
  <2>1. \A k \in 0..m : e[k] = IF k = 0 THEN start ELSE Smaller(e[k - 1], c, r)
    BY <1>11
  <2>2. 0 \in 0..m /\ \A k \in 1..m : k \in 0..m /\ k # 0
    BY <1>1
  <2> QED
    BY <2>1, <2>2
<1>13. e[m] \in U
  <2>1. e[0] \in U /\ \A k \in 1..m : e[k - 1] \in U => e[k] \in U
    BY <1>2, <1>3, <1>12
  <2>2. m \in 0..m
    BY <1>1
  <2> QED
    BY <1>1, <2>1, <2>2, RoundsStay
<1>14. SmallerLines(nb, c, r) = e[m]
  BY <1>10 DEF SmallerLines, m, start
<1> QED
  BY <1>13, <1>14 DEF U

(* Fewer columns: a list that holds the screen, moved as by p rows.        *)
LEMMA ReflowedSmallerWhole ==
  ASSUME Sized, NEW r \in Nat \ {0}, NEW nb \in Buffers(cols, r), Whole(nb, r), NEW c \in Nat \ {0, 1}, c < cols
  PROVE  /\ Whole(ReflowedSmaller(nb, c, r).bf, r) /\ ReflowedSmaller(nb, c, r).bf.x = nb.x
         /\ \E p \in Nat : /\ ReflowedSmaller(nb, c, r).bf.y = nb.y + Gone(nb.ybase, nb.y, p, r)
                           /\ ReflowedSmaller(nb, c, r).bf.ybase = FirstThen(nb.ybase, nb.y, p, r)
<1>1. PICK s : s = SmallerLines(nb, c, r)
  OBVIOUS
<1>2. s \in Shrinking(cols, r, nb.x) /\ Standing(s, nb.ybase, nb.y, nb.start, r) /\ cols \in Nat /\ c \in Nat
  <2>1. cols \in Nat /\ c \in Nat
    BY DEF Sized
  <2> QED
    BY <1>1, <2>1, SmallerLinesStand
<1>3. PICK b0, y0, p : b0 = nb.ybase /\ y0 = nb.y /\ p = s.pending
  OBVIOUS
<1>4. s.bf \in Buffers(cols, r) /\ s.bf.x = nb.x /\ s.ins \in Additions(cols)
  BY <1>2 DEF Shrinking
<1>5. p \in Nat /\ Counts(s.bf, b0, y0, p, r) /\ Counted(s.ins, p) /\ s.bf.start = nb.start
  BY <1>2, <1>3 DEF Standing
<1>6. b0 \in Nat /\ y0 \in Nat /\ y0 <= r - 1 /\ b0 <= Scrollback /\ nb.start \in 0..(MaxLength(r) - 1)
  BY <1>2, <1>3, WholeParts
<1>7. PICK l : l = Relaid(s.bf, s.ins, r)
  OBVIOUS
<1>8. l \in Buffers(cols, r) /\ l.x = nb.x
  BY <1>2, <1>4, <1>7, RelaidIs
<1>9. Whole(l, r) /\ l.y = s.bf.y /\ l.ybase = s.bf.ybase
  <2>1. PICK b, ins : b = s.bf /\ ins = s.ins
    OBVIOUS
  <2>2. b \in Buffers(cols, r) /\ ins \in Additions(cols) /\ Counts(b, b0, y0, p, r) /\ Counted(ins, p)
        /\ b.start \in 0..(MaxLength(r) - 1)
    BY <1>4, <1>5, <1>6, <2>1
  <2>3. Whole(Relaid(b, ins, r), r) /\ Relaid(b, ins, r).y = b.y /\ Relaid(b, ins, r).ybase = b.ybase
    BY ONLY RelaidWhole, <1>2, <1>5, <1>6, <2>2, r \in Nat \ {0}
  <2> QED
    BY <1>7, <2>1, <2>3
<1>10. PICK ls : ls = AllOf(l.lines, c)
  OBVIOUS
<1>11. ls \in Seq(Lines(c)) /\ Len(ls) = Len(l.lines)
  <2>1. l.lines \in Seq(Lines(cols))
    BY <1>2, <1>8, BufferParts
  <2> QED
    BY <1>2, <1>10, <2>1, AllOfIs
<1>12. PICK b : b = [l EXCEPT !.lines = ls]
  OBVIOUS
<1>13. b.lines = ls /\ b.ybase = l.ybase /\ b.y = l.y /\ b.start = l.start /\ b.x = l.x
  BY <1>8, <1>12 DEF Buffers
<1>14. ReflowedSmaller(nb, c, r).bf = b
  BY <1>1, <1>7, <1>10, <1>12 DEF ReflowedSmaller
<1>15. Whole(b, r)
  BY <1>9, <1>11, <1>13, WholeKept
<1>16. b.y = nb.y + Gone(nb.ybase, nb.y, p, r) /\ b.ybase = FirstThen(nb.ybase, nb.y, p, r)
  BY <1>3, <1>5, <1>9, <1>13 DEF Counts
<1> QED
  BY <1>5, <1>8, <1>13, <1>14, <1>15, <1>16

-----------------------------------------------------------------------------
(* Module Screen's reflow.                                                 *)

(* More rows than the list has room for change nothing more.               *)
LEMMA RoomIsEnough ==
  ASSUME NEW b \in Nat, NEW y \in Nat, NEW p \in Nat, NEW r \in Nat \ {0}, y <= r - 1, b <= Scrollback
  PROVE  \E n \in 0..(r + Scrollback) :
           Gone(b, y, n, r) = Gone(b, y, p, r) /\ FirstThen(b, y, n, r) = FirstThen(b, y, p, r)
<1>1. PICK s : s = Scrollback
  OBVIOUS
<1>2. s \in Nat \ {0} /\ s \in Nat /\ b <= s /\ s = Scrollback
  BY <1>1, MaxLengthWhole
<1>3. PICK n : n = IF p <= r + s THEN p ELSE r + s
  OBVIOUS
<1>4. n \in Nat /\ n \in 0..(r + s)
  BY ONLY <1>2, <1>3, p \in Nat, r \in Nat \ {0}
<1>5. PICK g, h : g = Gone(b, y, n, r) /\ h = Gone(b, y, p, r)
  OBVIOUS
<1>6. g \in Nat /\ g <= n /\ (b > 0 => g = 0) /\ (b = 0 => g = IF n <= r - 1 - y THEN n ELSE r - 1 - y)
  <2>1. /\ Gone(b, y, n, r) \in Nat /\ Gone(b, y, n, r) <= n /\ (b > 0 => Gone(b, y, n, r) = 0)
        /\ b = 0 => Gone(b, y, n, r) = IF n <= r - 1 - y THEN n ELSE r - 1 - y
    BY ONLY GoneIs, <1>4, b \in Nat, y \in Nat, r \in Nat \ {0}, y <= r - 1
  <2> QED
    BY <1>5, <2>1
<1>7. h \in Nat /\ h <= p /\ (b > 0 => h = 0) /\ (b = 0 => h = IF p <= r - 1 - y THEN p ELSE r - 1 - y)
  <2>1. /\ Gone(b, y, p, r) \in Nat /\ Gone(b, y, p, r) <= p /\ (b > 0 => Gone(b, y, p, r) = 0)
        /\ b = 0 => Gone(b, y, p, r) = IF p <= r - 1 - y THEN p ELSE r - 1 - y
    BY ONLY GoneIs, b \in Nat, y \in Nat, p \in Nat, r \in Nat \ {0}, y <= r - 1
  <2> QED
    BY <1>5, <2>1
<1>8. g = h
  BY ONLY <1>2, <1>3, <1>4, <1>6, <1>7, b \in Nat, y \in Nat, p \in Nat, r \in Nat \ {0}
<1>9. FirstThen(b, y, n, r) = IF s <= b + n - g THEN s ELSE b + n - g
  <2>1. g = Gone(b, y, n, r)
    BY <1>5
  <2> QED
    BY ONLY FirstThenIs, <1>2, <1>4, <1>6, <2>1, b \in Nat
<1>10. FirstThen(b, y, p, r) = IF s <= b + p - h THEN s ELSE b + p - h
  <2>1. h = Gone(b, y, p, r)
    BY <1>5
  <2> QED
    BY ONLY FirstThenIs, <1>2, <1>7, <2>1, b \in Nat, p \in Nat
<1>11. (IF s <= b + n - g THEN s ELSE b + n - g) = IF s <= b + p - h THEN s ELSE b + p - h
  BY ONLY <1>2, <1>3, <1>4, <1>6, <1>7, <1>8, b \in Nat, y \in Nat, p \in Nat, r \in Nat \ {0}, y <= r - 1
<1> QED
  BY <1>2, <1>4, <1>5, <1>8, <1>9, <1>10, <1>11

(* CountsAdd for named numbers.                                            *)
Round(b0, y0, p, r, n, q, b, y, len, max, trimmed, todo, pop, room) ==
  /\ b0 \in Nat /\ y0 \in Nat /\ p \in Nat /\ r \in Nat \ {0} /\ y0 <= r - 1 /\ b0 <= Scrollback /\ n \in Nat
  /\ q = Gone(b0, y0, p, r) /\ b = FirstThen(b0, y0, p, r) /\ y = y0 + q /\ len = b0 + r - q
  /\ max = r + Scrollback /\ trimmed = Trim(b, y, len, n, max) /\ todo = Most(0, n - trimmed)
  /\ pop = (IF b = 0 THEN Least(todo, Most(0, r - 1 - y)) ELSE 0)
  /\ room = Least(max, len - pop + (p + n)) - r
LEMMA RoundAdds ==
  ASSUME NEW b0, NEW y0, NEW p, NEW r, NEW n, NEW q, NEW b, NEW y, NEW len, NEW max, NEW trimmed, NEW todo, NEW pop, NEW room,
         Round(b0, y0, p, r, n, q, b, y, len, max, trimmed, todo, pop, room)
  PROVE  /\ q + pop = Gone(b0, y0, p + n, r)
         /\ BaseOf(b, todo - pop, room) = FirstThen(b0, y0, p + n, r)
         /\ pop \in Nat /\ trimmed \in Nat /\ trimmed <= n
  BY CountsAdd DEF Round

(* The rows of a reflow counted all at once, as module Screen does.        *)
Once(b, y, r, n, len, max, trimmed, todo, pop, room) ==
  /\ b \in Nat /\ y \in Nat /\ r \in Nat \ {0} /\ y <= r - 1 /\ b <= Scrollback /\ n \in Nat
  /\ len = b + r /\ max = r + Scrollback /\ trimmed = Trim(b, y, len, n, max) /\ todo = Most(0, n - trimmed)
  /\ pop = (IF b = 0 THEN Least(todo, Most(0, r - 1 - y)) ELSE 0)
  /\ room = Least(max, len - pop + n) - r
LEMMA OnceAdds ==
  ASSUME NEW b, NEW y, NEW r, NEW n, NEW len, NEW max, NEW trimmed, NEW todo, NEW pop, NEW room,
         Once(b, y, r, n, len, max, trimmed, todo, pop, room)
  PROVE  /\ pop = Gone(b, y, n, r) /\ BaseOf(b, todo - pop, room) = FirstThen(b, y, n, r)
         /\ pop \in Nat /\ trimmed \in Nat /\ trimmed <= n
<1>1. PICK p, q, b0, y0 : p = 0 /\ q = 0 /\ b0 = b /\ y0 = y
  OBVIOUS
<1>2. /\ b0 \in Nat /\ y0 \in Nat /\ p \in Nat /\ y0 <= r - 1 /\ b0 <= Scrollback /\ r \in Nat \ {0} /\ n \in Nat
      /\ len = b0 + r
  BY <1>1 DEF Once
<1>3. p + n = n /\ y = y0 + q /\ len = b0 + r - q
  BY <1>1, <1>2
<1>4. PICK k : k = Gone(b0, y0, p, r)
  OBVIOUS
<1>5. q = k
  <2>1. Gone(b0, y0, p, r) \in Nat /\ Gone(b0, y0, p, r) <= p
    BY ONLY GoneIs, <1>2
  <2> QED
    BY <1>1, <1>4, <2>1
<1>6. q = Gone(b0, y0, p, r)
  BY <1>4, <1>5
<1>7. b = FirstThen(b0, y0, p, r)
  <2>1. PICK s : s = Scrollback
    OBVIOUS
  <2>2. s \in Nat /\ s = Scrollback /\ q \in Nat /\ q <= p
    BY <1>1, <2>1, MaxLengthWhole
  <2>3. FirstThen(b0, y0, p, r) = IF s <= b0 + p - q THEN s ELSE b0 + p - q
    BY ONLY FirstThenIs, <1>2, <1>6, <2>2
  <2>4. b0 <= s
    BY <1>2, <2>1
  <2>5. b0 = IF s <= b0 + p - q THEN s ELSE b0 + p - q
    BY ONLY <1>1, <1>2, <2>2, <2>4
  <2> QED
    BY <1>1, <2>3, <2>5
<1>8. room = Least(max, len - pop + (p + n)) - r
  BY <1>3 DEF Once
<1>9. /\ q + pop = Gone(b0, y0, p + n, r) /\ BaseOf(b, todo - pop, room) = FirstThen(b0, y0, p + n, r)
      /\ pop \in Nat /\ trimmed \in Nat /\ trimmed <= n
  <2>1. Round(b0, y0, p, r, n, q, b, y, len, max, trimmed, todo, pop, room)
    BY <1>2, <1>3, <1>6, <1>7, <1>8 DEF Round, Once
  <2> QED
    BY <2>1, RoundAdds
<1> QED
  BY <1>1, <1>3, <1>9

(* The helpers of module Screen, in either order.                          *)
LEMMA LeastGreatest ==
  \A a, d \in Int : Rows!Lesser(a, d) = Least(a, d) /\ Rows!Greater(a, d) = Most(a, d)
                    /\ Most(a, d) = Most(d, a) /\ Least(a, d) = Least(d, a)
                    /\ Least(a, d) \in Int /\ Most(a, d) \in Int
<1> SUFFICES ASSUME NEW a \in Int, NEW d \in Int
             PROVE  /\ Rows!Lesser(a, d) = Least(a, d) /\ Rows!Greater(a, d) = Most(a, d)
                    /\ Most(a, d) = Most(d, a) /\ Least(a, d) = Least(d, a)
                    /\ Least(a, d) \in Int /\ Most(a, d) \in Int
  OBVIOUS
<1>1. Rows!Lesser(a, d) = Least(a, d) /\ Least(a, d) = Least(d, a) /\ Least(a, d) \in Int
  BY DEF Rows!Lesser, Least
<1>2. Rows!Greater(a, d) = Most(a, d) /\ Most(a, d) = Most(d, a) /\ Most(a, d) \in Int
  BY DEF Rows!Greater, Most
<1> QED
  BY <1>1, <1>2

(* Fewer columns: module Screen sees as many rows put in as make no        *)
(* difference when there were more.                                        *)
LEMMA SmallerSeen ==
  ASSUME Sized, NEW r \in Nat \ {0}, NEW nb \in Buffers(cols, r), Whole(nb, r), NEW c \in Nat \ {0, 1}, c < cols,
         NEW v \in Views, ViewOf(v, nb), v.max = MaxLength(r)
  PROVE  \E n \in 0..v.max : \E z \in Rows!ReflowedSmaller(v, n, r) :
           z \in Views /\ ViewOf(z, ReflowedSmaller(nb, c, r).bf) /\ SameRest(z, v)
<1>1. PICK d : d = ReflowedSmaller(nb, c, r).bf
  OBVIOUS
<1>2. PICK b, y, len, max, s : b = nb.ybase /\ y = nb.y /\ len = Len(nb.lines) /\ max = MaxLength(r) /\ s = Scrollback
  OBVIOUS
<1>3. /\ b \in Nat /\ b <= s /\ y \in Nat /\ y <= r - 1 /\ len = b + r /\ len \in Nat /\ s \in Nat \ {0} /\ max = r + s
      /\ max \in Nat
  <2>1. cols \in Nat
    BY DEF Sized
  <2>2. /\ b \in Nat /\ b <= s /\ y \in Nat /\ y <= r - 1 /\ len = b + r /\ len \in Nat /\ s \in Nat \ {0} /\ max = r + s
    BY <1>2, <2>1, WholeParts
  <2> QED
    BY <2>2
<1>4. PICK p \in Nat : d.y = y + Gone(b, y, p, r) /\ d.ybase = FirstThen(b, y, p, r)
  BY <1>1, <1>2, ReflowedSmallerWhole
<1>5. Whole(d, r)
  BY <1>1, ReflowedSmallerWhole
<1>6. PICK n \in 0..max : d.y = y + Gone(b, y, n, r) /\ d.ybase = FirstThen(b, y, n, r)
  <2>1. b <= Scrollback
    BY <1>2, <1>3
  <2>2. \E n \in 0..(r + Scrollback) :
           Gone(b, y, n, r) = Gone(b, y, p, r) /\ FirstThen(b, y, n, r) = FirstThen(b, y, p, r)
    BY ONLY RoomIsEnough, <1>3, <2>1, p \in Nat, r \in Nat \ {0}
  <2>3. max = r + Scrollback
    BY <1>2, <1>3
  <2> QED
    BY <1>4, <2>2, <2>3
<1>7. n \in Nat
  BY <1>3
<1>8. PICK g, a : g = Gone(b, y, n, r) /\ a = FirstThen(b, y, n, r)
  OBVIOUS
<1>9. g \in Nat /\ g <= n /\ g <= r - 1 - y /\ (b > 0 => g = 0) /\ (b = 0 => g = IF n <= r - 1 - y THEN n ELSE r - 1 - y)
  <2>1. /\ Gone(b, y, n, r) \in Nat /\ Gone(b, y, n, r) <= n /\ Gone(b, y, n, r) <= r - 1 - y
        /\ (b > 0 => Gone(b, y, n, r) = 0)
        /\ b = 0 => Gone(b, y, n, r) = IF n <= r - 1 - y THEN n ELSE r - 1 - y
    BY ONLY GoneIs, <1>3, <1>7, r \in Nat \ {0}
  <2> QED
    BY <1>8, <2>1
<1>10. a = (IF s <= b + n - g THEN s ELSE b + n - g) /\ a \in Nat
  <2>1. g = Gone(b, y, n, r) /\ s = Scrollback /\ s \in Nat
    BY <1>2, <1>3, <1>8
  <2>2. FirstThen(b, y, n, r) = (IF s <= b + n - g THEN s ELSE b + n - g) /\ FirstThen(b, y, n, r) \in Nat
    BY ONLY FirstThenIs, <1>3, <1>7, <1>9, <2>1
  <2> QED
    BY <1>8, <2>2
<1>11. PICK trimmed, todo, pop, room :
         /\ trimmed = Trim(b, y, len, n, max) /\ todo = Most(0, n - trimmed)
         /\ pop = IF b = 0 THEN Least(todo, Most(0, r - 1 - y)) ELSE 0
         /\ room = Least(max, len - pop + n) - r
  OBVIOUS
<1>12. pop = g /\ BaseOf(b, todo - pop, room) = a /\ pop \in Nat /\ trimmed \in Nat /\ trimmed <= n
  <2>1. b <= Scrollback /\ max = r + Scrollback
    BY <1>2, <1>3
  <2>2. Once(b, y, r, n, len, max, trimmed, todo, pop, room)
    BY <1>3, <1>7, <1>11, <2>1 DEF Once
  <2> QED
    BY <1>8, <2>2, OnceAdds
<1>13. pop = g /\ todo = n - trimmed /\ todo - pop = n - trimmed - g
  <2>1. pop = g
    BY <1>12
  <2>2. todo = n - trimmed
    BY <1>7, <1>11, <1>12 DEF Most
  <2> QED
    BY <2>1, <2>2
<1>14. v.len = len /\ v.ybase = b /\ v.ydisp = b /\ v.y = y /\ v.max = max
  BY <1>2 DEF ViewOf
<1>15. (IF v.ybase = 0 /\ v.y # v.len - 1 THEN Rows!Greater(0, v.y - v.max + n) ELSE Rows!Greater(0, v.len - v.max + n)) = trimmed
  <2>1. y - max + n \in Int /\ len - max + n \in Int /\ 0 \in Int
    BY <1>3, <1>7
  <2>2. Rows!Greater(0, y - max + n) = Most(0, y - max + n) /\ Rows!Greater(0, len - max + n) = Most(0, len - max + n)
    BY <2>1, LeastGreatest
  <2> QED
    BY <1>11, <1>14, <2>2 DEF Trim
<1>16. (IF v.ybase = 0 THEN Rows!Lesser(n, Rows!Greater(r - 1 - v.y, 0)) ELSE 0) = g
  <2>1. r - 1 - y \in Int /\ 0 \in Int /\ n \in Int /\ r - 1 - y >= 0
    BY <1>3, <1>7
  <2>2. Rows!Greater(r - 1 - y, 0) = r - 1 - y
    <3>1. Rows!Greater(r - 1 - y, 0) = IF r - 1 - y > 0 THEN r - 1 - y ELSE 0
      BY <2>1, LessGreater
    <3> QED
      BY <2>1, <3>1
  <2>3. Rows!Lesser(n, r - 1 - y) = IF n < r - 1 - y THEN n ELSE r - 1 - y
    BY <2>1, LessGreater
  <2>4. (IF n < r - 1 - y THEN n ELSE r - 1 - y) = IF n <= r - 1 - y THEN n ELSE r - 1 - y
    BY <2>1
  <2>5. b = 0 \/ b > 0
    BY <1>3
  <2> QED
    BY <1>9, <1>14, <2>2, <2>3, <2>4, <2>5
<1>17. PICK e : e = a + r
  OBVIOUS
<1>18. Rows!Lesser(v.max, v.len - g + n) = e /\ e \in Int /\ room = e - r
  <2>1. len - g + n \in Int /\ max \in Int
    BY <1>3, <1>7, <1>9
  <2>2. Rows!Lesser(max, len - g + n) = Least(max, len - g + n)
    BY <2>1, LeastGreatest
  <2>3. Least(max, len - g + n) = e
    <3>1. (IF max <= len - g + n THEN max ELSE len - g + n) = e
      BY ONLY <1>3, <1>7, <1>9, <1>10, <1>17, r \in Nat \ {0}
    <3> QED
      BY <3>1 DEF Least
  <2> QED
    BY <1>10, <1>11, <1>13, <1>14, <1>17, <2>2, <2>3
<1>19. (IF v.ybase = 0 THEN IF n - trimmed - g = 0 THEN 0 ELSE Rows!Greater(1, Rows!Lesser(n - trimmed - g, e - r))
        ELSE Rows!Greater(v.ybase, Rows!Lesser(v.ybase + (n - trimmed - g), e - r))) = a
  <2>1. PICK rest : rest = n - trimmed - g
    OBVIOUS
  <2>2. rest \in Int /\ b + rest \in Int /\ room \in Int /\ 1 \in Int /\ b \in Int
    BY <1>3, <1>7, <1>9, <1>12, <1>18, <2>1
  <2>3. Rows!Lesser(rest, room) = Least(rest, room) /\ Least(rest, room) \in Int
    BY <2>2, LeastGreatest
  <2>4. Rows!Lesser(b + rest, room) = Least(b + rest, room) /\ Least(b + rest, room) \in Int
    BY <2>2, LeastGreatest
  <2>5. Rows!Greater(1, Least(rest, room)) = Most(1, Least(rest, room))
    BY <2>2, <2>3, LeastGreatest
  <2>6. Rows!Greater(b, Least(b + rest, room)) = Most(b, Least(b + rest, room))
    BY <2>2, <2>4, LeastGreatest
  <2>7. BaseOf(b, rest, room) = a
    BY <1>12, <1>13, <2>1
  <2> QED
    BY <1>14, <1>18, <2>1, <2>3, <2>4, <2>5, <2>6, <2>7 DEF BaseOf
<1>20. v.len = v.ybase + r /\ (v.ybase > 0 \/ v.y < r)
  BY <1>3, <1>14
<1>21. PICK k : k = y + g
  OBVIOUS
<1>22. PICK z : z = [v EXCEPT !.ybase = a, !.ydisp = a, !.y = k, !.len = e]
  OBVIOUS
<1>23. z \in Rows!ReflowedSmaller(v, n, r)
  BY <1>14, <1>15, <1>16, <1>18, <1>19, <1>20, <1>21, <1>22 DEF Rows!ReflowedSmaller
<1>24. a \in Int /\ k \in Int /\ e \in Int
  BY <1>3, <1>9, <1>10, <1>18, <1>21
<1>25. z \in Views /\ z.len = e /\ z.ybase = a /\ z.ydisp = a /\ z.y = k /\ SameRest(z, v)
  BY <1>22, <1>24 DEF Views, SameRest
<1>26. d.y = k /\ d.ybase = a /\ Len(d.lines) = e
  <2>1. d.y = k /\ d.ybase = a
    BY <1>6, <1>8, <1>21
  <2>2. Len(d.lines) = d.ybase + r
    BY <1>5 DEF Whole
  <2> QED
    BY <1>17, <2>1, <2>2
<1>27. ViewOf(z, d)
  BY <1>25, <1>26 DEF ViewOf
<1>28. n \in 0..v.max
  BY <1>14
<1> QED
  BY <1>1, <1>23, <1>25, <1>27, <1>28

-----------------------------------------------------------------------------
(* The invariant, and the theorems.                                        *)

(* The inductive invariant: the lines are lines of the window and the list *)
(* holds the screen.                                                       *)
ScreenInv == ReflowInv /\ Whole(bf, rows)

(* The list holds the screen when it is created.                           *)
LEMMA InitWhole == Init => Whole(bf, rows)
<1> SUFFICES ASSUME Init PROVE Whole(bf, rows)
  OBVIOUS
<1>1. cols \in Nat /\ rows \in Nat \ {0} /\ rows \in Nat
  BY SizesAre DEF Init
<1>2. PICK ls : ls = Blanks(rows, cols)
  OBVIOUS
<1>3. Len(ls) = rows
  BY <1>1, <1>2, BlanksLength
<1>4. bf = [lines |-> ls, start |-> 0, ybase |-> 0, x |-> 0, y |-> 0]
  BY <1>2 DEF Init
<1>5. bf.lines = ls /\ bf.start = 0 /\ bf.ybase = 0 /\ bf.y = 0
  BY <1>4
<1>6. 0 \in 0..Scrollback /\ 0 \in 0..(rows - 1) /\ 0 \in 0..(MaxLength(rows) - 1) /\ 0 + rows = rows
  <2>1. MaxLength(rows) = rows + Scrollback /\ Scrollback \in Nat \ {0}
    BY <1>1, MaxLengthWhole
  <2>2. MaxLength(rows) - 1 \in Nat
    BY <1>1, <2>1
  <2> QED
    BY <1>1, <2>1, <2>2
<1> QED
  BY <1>3, <1>5, <1>6 DEF Whole

(* Each action keeps the list one that holds the screen: characters,       *)
LEMMA PrintWhole ==
  ASSUME ScreenInv, NEW word \in Words, PrintText(word) \/ PrintInserting(word)
  PROVE  Whole(bf', rows')
<1>1. word \in Seq({0, 1, 2}) /\ count + 1 \in Nat \ {0} /\ Sized /\ bf \in Screens
  BY SizesAre DEF ScreenInv, ReflowInv, Screens
<1>2. rows' = rows
  BY DEF PrintText, PrintInserting
<1>3. bf' = PrintedFrom(bf, count + 1, word, FALSE) \/ bf' = PrintedFrom(bf, count + 1, word, TRUE)
  BY DEF PrintText, PrintInserting
<1>4. bf' \in Screens
  BY <1>1, <1>3, PrintedFromWhole
<1> QED
  BY <1>2, <1>4 DEF Screens

(* a line feed,                                                            *)
LEMMA LineFeedWhole == ASSUME ScreenInv, LineFeed PROVE Whole(bf', rows')
<1>1. PICK x : x = IF bf.x >= cols THEN bf.x - 1 ELSE bf.x
  OBVIOUS
<1>2. PICK at : at = [bf EXCEPT !.x = x]
  OBVIOUS
<1>3. Sized /\ bf \in Buffers(cols, rows) /\ cols \in Nat \ {0, 1} /\ Whole(bf, rows) /\ rows \in Nat \ {0}
  BY DEF ScreenInv, ReflowInv, Sized
<1>4. x \in 0..cols
  BY <1>1, <1>3, BufferParts
<1>5. at \in Buffers(cols, rows)
  BY <1>2, <1>3, <1>4 DEF Buffers
<1>6. at.lines = bf.lines /\ at.ybase = bf.ybase /\ at.y = bf.y /\ at.start = bf.start
  BY <1>2, <1>3 DEF Buffers
<1>7. at \in Screens
  BY <1>3, <1>5, <1>6, WholeKept DEF Screens
<1>8. bf' = IF bf.y + 1 > rows - 1 THEN Scrolled(at, FALSE) ELSE [at EXCEPT !.y = bf.y + 1]
  BY <1>1, <1>2 DEF LineFeed
<1>9. rows' = rows
  BY DEF LineFeed
<1>10. CASE bf.y + 1 > rows - 1
  <2>1. bf' \in Screens
    BY <1>3, <1>7, <1>8, <1>10, ScrolledScreen
  <2> QED
    BY <1>9, <2>1 DEF Screens
<1>11. CASE ~(bf.y + 1 > rows - 1)
  <2>1. PICK y : y = bf.y + 1
    OBVIOUS
  <2>2. bf' = [at EXCEPT !.y = y]
    BY <1>8, <1>11, <2>1
  <2>3. bf'.lines = bf.lines /\ bf'.ybase = bf.ybase /\ bf'.y = y /\ bf'.start = bf.start
    BY <1>5, <1>6, <2>2 DEF Buffers
  <2>4. y \in 0..(rows - 1)
    BY <1>3, <1>11, <2>1 DEF Whole
  <2> QED
    BY <1>3, <1>9, <2>3, <2>4 DEF Whole
<1> QED
  BY <1>10, <1>11

(* the moves of the cursor,                                                *)
LEMMA MoveWhole ==
  ASSUME ScreenInv, CarriageReturn \/ \E c \in 1..cols, r \in 1..rows : CursorPosition(r, c)
  PROVE  Whole(bf', rows')
<1>1. bf \in Buffers(cols, rows) /\ cols \in Nat /\ rows \in Nat \ {0} /\ Whole(bf, rows)
  BY DEF ScreenInv, ReflowInv, Sized
<1>2. rows' = rows
  BY DEF CarriageReturn, CursorPosition
<1>3. CASE CarriageReturn
  <2>1. bf' = [bf EXCEPT !.x = 0]
    BY <1>3 DEF CarriageReturn
  <2>2. bf'.lines = bf.lines /\ bf'.ybase = bf.ybase /\ bf'.y = bf.y /\ bf'.start = bf.start
    BY <1>1, <2>1 DEF Buffers
  <2> QED
    BY <1>1, <1>2, <2>2 DEF Whole
<1>4. ASSUME NEW c \in 1..cols, NEW r \in 1..rows, CursorPosition(r, c) PROVE Whole(bf', rows')
  <2>1. PICK y : y = Min({r, rows}) - 1
    OBVIOUS
  <2>2. PICK x : x = Min({c, cols}) - 1
    OBVIOUS
  <2>3. y \in 0..(rows - 1)
    <3>1. r \in Int /\ rows \in Int
      BY <1>1
    <3>2. Min({r, rows}) = IF r <= rows THEN r ELSE rows
      BY <3>1, MinOfTwo
    <3> QED
      BY <1>1, <2>1, <3>2
  <2>4. bf' = [bf EXCEPT !.y = y, !.x = x]
    BY <1>4, <2>1, <2>2 DEF CursorPosition
  <2>5. bf'.lines = bf.lines /\ bf'.ybase = bf.ybase /\ bf'.y = y /\ bf'.start = bf.start
    BY <1>1, <2>4 DEF Buffers
  <2> QED
    BY <1>1, <1>2, <2>3, <2>5 DEF Whole
<1> QED
  BY <1>3, <1>4

(* the edits of its line.                                                  *)
LEMMA EditWhole ==
  ASSUME ScreenInv, NEW l, EditsLine(l)
  PROVE  Whole(bf', rows')
<1>1. bf \in Buffers(cols, rows) /\ cols \in Nat /\ Whole(bf, rows)
  BY DEF ScreenInv, ReflowInv, Sized
<1>2. rows' = rows
  BY DEF EditsLine
<1>3. PICK i : i = row + 1
  OBVIOUS
<1>4. bf' = [bf EXCEPT !.lines[i] = l]
  BY <1>3 DEF EditsLine
<1>5. Whole([bf EXCEPT !.lines[i] = l], rows)
  BY <1>1, PutWhole
<1> QED
  BY <1>2, <1>4, <1>5

(* More columns leave the column.                                          *)
LEMMA LargerKeepsX ==
  ASSUME NEW w, NEW h, NEW nb \in Buffers(w, h), NEW c, NEW r PROVE ReflowedLarger(nb, c, r).x = nb.x
  BY DEF Buffers, ReflowedLarger

(* The view after a reflow is what is seen then.                           *)
LEMMA SeenAfter ==
  ASSUME NEW w \in Nat, NEW r \in Nat \ {0}, NEW nb \in Buffers(w, r), NEW e \in Nat, NEW d \in Buffers(e, r), d.x = nb.x,
         NEW z \in Views, ViewOf(z, d), SameRest(z, Seen(nb, r))
  PROVE  z = Seen(d, r)
<1>1. PICK v, u : v = Seen(nb, r) /\ u = Seen(d, r)
  OBVIOUS
<1>2. /\ v.max = MaxLength(r) /\ v.x = nb.x /\ v.top = 0 /\ v.bottom = r - 1 /\ v.savedY = 0
  BY <1>1, SeenParts
<1>3. /\ u \in Views /\ u.len = Len(d.lines) /\ u.max = MaxLength(r) /\ u.ybase = d.ybase /\ u.ydisp = d.ybase
      /\ u.x = d.x /\ u.y = d.y /\ u.top = 0 /\ u.bottom = r - 1 /\ u.savedY = 0
  BY <1>1, SeenParts
<1>4. z.len = u.len /\ z.ybase = u.ybase /\ z.ydisp = u.ydisp /\ z.y = u.y
  BY <1>3 DEF ViewOf
<1>5. z.max = u.max /\ z.x = u.x /\ z.top = u.top /\ z.bottom = u.bottom /\ z.savedY = u.savedY
  BY <1>1, <1>2, <1>3 DEF SameRest
<1>6. z = u
  BY <1>3, <1>4, <1>5, SameViews
<1> QED
  BY <1>1, <1>6

(* A change of size leaves a list that holds the screen, and module Screen *)
(* sees one of its own, for some number of rows.                           *)
LEMMA ReflowedSeen ==
  ASSUME ScreenInv, NEW c \in Nat \ {0, 1}, NEW r \in Nat \ {0}, NEW nb, nb = ResizedRows(bf, c, r),
         NEW d, d = IF c > cols THEN ReflowedLarger(nb, c, r) ELSE IF c < cols THEN ReflowedSmaller(nb, c, r).bf ELSE nb
  PROVE  /\ Whole(d, r)
         /\ Rows!ResizedRows(Seen(bf, rows), "normal", c, r) = Seen(nb, r)
         /\ \E n \in 0..(IF c > cols THEN Seen(nb, r).len - 1 ELSE Seen(nb, r).max) :
              Seen(d, r) \in Rows!Reflowed(Seen(nb, r), n, c, r)
<1>1. Sized /\ bf \in Screens /\ cols \in Nat \ {0, 1} /\ cols \in Nat /\ cols \in Int /\ c \in Nat /\ rows \in Nat
  BY DEF ScreenInv, ReflowInv, Screens, Sized
<1>2. /\ Whole(nb, r) /\ nb \in Buffers(IF c > cols THEN c ELSE cols, r)
      /\ Rows!ResizedRows(Seen(bf, rows), "normal", c, r) = Seen(nb, r)
  BY <1>1, ResizedRowsSeen
<1>3. PICK v : v = Seen(nb, r)
  OBVIOUS
<1>4. CASE c > cols
  <2>1. nb \in Buffers(c, r) /\ d = ReflowedLarger(nb, c, r)
    BY <1>2, <1>4
  <2>2. v \in Views /\ ViewOf(v, nb)
    BY <1>1, <1>3, <2>1, SeenParts DEF ViewOf
  <2>3. /\ Whole(d, r)
        /\ \E n \in 0..(v.len - 1) : /\ Rows!ReflowedLarger(v, n, r) \in Views
                                     /\ ViewOf(Rows!ReflowedLarger(v, n, r), d)
                                     /\ SameRest(Rows!ReflowedLarger(v, n, r), v)
    BY <1>1, <1>2, <2>1, <2>2, LargerSeen
  <2>4. PICK n \in 0..(v.len - 1) : /\ Rows!ReflowedLarger(v, n, r) \in Views
                                    /\ ViewOf(Rows!ReflowedLarger(v, n, r), d)
                                    /\ SameRest(Rows!ReflowedLarger(v, n, r), v)
    BY <2>3
  <2>5. PICK z : z = Rows!ReflowedLarger(v, n, r)
    OBVIOUS
  <2>6. d \in Buffers(c, r) /\ d.x = nb.x
    BY <1>1, <2>1, ReflowedLargerIs, LargerKeepsX
  <2>7. z = Seen(d, r)
    <3>1. z \in Views /\ ViewOf(z, d) /\ SameRest(z, Seen(nb, r))
      BY <1>3, <2>4, <2>5
    <3> QED
      BY <1>1, <2>1, <2>6, <3>1, SeenAfter
  <2>8. Seen(d, r) \in Rows!Reflowed(v, n, c, r)
    BY <1>4, <2>5, <2>7 DEF Rows!Reflowed
  <2> QED
    BY <1>2, <1>3, <1>4, <2>3, <2>8
<1>5. CASE c < cols
  <2>1. ~(c > cols)
    BY <1>1, <1>5
  <2>2. nb \in Buffers(cols, r) /\ d = ReflowedSmaller(nb, c, r).bf
    BY <1>2, <1>5, <2>1
  <2>3. v \in Views /\ ViewOf(v, nb) /\ v.max = MaxLength(r)
    BY <1>1, <1>3, <2>2, SeenParts DEF ViewOf
  <2>4. Whole(d, r) /\ d.x = nb.x
    BY <1>1, <1>2, <1>5, <2>2, ReflowedSmallerWhole
  <2>5. \E n \in 0..v.max : \E z \in Rows!ReflowedSmaller(v, n, r) :
           z \in Views /\ ViewOf(z, d) /\ SameRest(z, v)
    BY <1>1, <1>2, <1>5, <2>2, <2>3, SmallerSeen
  <2>10. PICK n \in 0..v.max : \E z \in Rows!ReflowedSmaller(v, n, r) :
           z \in Views /\ ViewOf(z, d) /\ SameRest(z, v)
    BY <2>5
  <2>6. PICK z \in Rows!ReflowedSmaller(v, n, r) :
          z \in Views /\ ViewOf(z, d) /\ SameRest(z, v)
    BY <2>10
  <2>7. d \in Buffers(c, r)
    <3>1. cols \in Nat \ {0} /\ c \in Nat \ {0} /\ nb.x \in 0..c
      <4>1. (c <= cols => ResizedRows(bf, c, r) \in Buffers(cols, r) /\ ResizedRows(bf, c, r).x \in 0..c)
        BY <1>1, ResizedRowsIs DEF Screens
      <4> QED
        BY <1>1, <1>5, <4>1
    <3> QED
      BY <2>2, <3>1, ReflowedSmallerIs
  <2>8. z = Seen(d, r)
    <3>1. z \in Views /\ ViewOf(z, d) /\ SameRest(z, Seen(nb, r))
      BY <1>3, <2>6
    <3> QED
      BY <1>1, <2>2, <2>4, <2>7, <3>1, SeenAfter
  <2>9. Seen(d, r) \in Rows!Reflowed(v, n, c, r)
    BY <1>5, <2>1, <2>6, <2>8 DEF Rows!Reflowed
  <2> QED
    BY <1>2, <1>3, <2>1, <2>4, <2>9
<1>6. CASE c = cols
  <2>1. ~(c > cols) /\ ~(c < cols)
    BY <1>1, <1>6
  <2>2. d = nb
    BY <2>1
  <2>3. Seen(d, r) \in Rows!Reflowed(v, 0, c, r)
    BY <1>3, <2>1, <2>2 DEF Rows!Reflowed
  <2>4. v.max = MaxLength(r) /\ MaxLength(r) \in Nat
    BY <1>3, MaxLengthIs DEF Seen
  <2>5. 0 \in 0..v.max
    BY <2>4
  <2> QED
    BY <1>2, <1>3, <2>1, <2>2, <2>3, <2>5
<1> QED
  BY <1>1, <1>4, <1>5, <1>6

(* A change of size, also one that fails.                                  *)
LEMMA ResizeWhole ==
  ASSUME ScreenInv, NEW s \in Sizes, Resize(s.cols, s.rows)
  PROVE  Whole(bf', rows')
<1>1. PICK c, r : c = s.cols /\ r = s.rows
  OBVIOUS
<1>2. c \in Nat \ {0, 1} /\ r \in Nat \ {0} /\ Resize(c, r)
  BY <1>1, SizesAre
<1>3. PICK nb : nb = ResizedRows(bf, c, r)
  OBVIOUS
<1>4. PICK d : d = IF c > cols THEN ReflowedLarger(nb, c, r) ELSE IF c < cols THEN ReflowedSmaller(nb, c, r).bf ELSE nb
  OBVIOUS
<1>5. Whole(d, r)
  BY <1>2, <1>3, <1>4, ReflowedSeen
<1>6. UNCHANGED <<rows, bf>> \/ (bf' = d /\ rows' = r)
  BY <1>2, <1>3, <1>4 DEF Resize
<1>7. CASE UNCHANGED <<rows, bf>>
  BY <1>7 DEF ScreenInv
<1> QED
  BY <1>5, <1>6, <1>7

(* Every step keeps the list one that holds the screen.                    *)
LEMMA NextWhole == ASSUME ScreenInv, [Next]_vars PROVE Whole(bf', rows')
<1>1. ASSUME NEW word \in Words, PrintText(word) \/ PrintInserting(word) PROVE Whole(bf', rows')
  BY <1>1, PrintWhole
<1>2. CASE LineFeed
  BY <1>2, LineFeedWhole
<1>3. CASE CarriageReturn \/ \E c \in 1..cols, r \in 1..rows : CursorPosition(r, c)
  BY <1>3, MoveWhole
<1>4. CASE \/ \E n \in 1..2 : InsertChars(n) \/ DeleteChars(n) \/ EraseChars(n)
           \/ \E k \in 0..2 : EraseInLine(k)
           \/ RepeatPrecedingCharacter
  <2>1. \E l : EditsLine(l)
    BY <1>4 DEF InsertChars, DeleteChars, EraseChars, EraseInLine, RepeatPrecedingCharacter
  <2> QED
    BY <2>1, EditWhole
<1>5. ASSUME NEW s \in Sizes, Resize(s.cols, s.rows) PROVE Whole(bf', rows')
  BY <1>5, ResizeWhole
<1>6. CASE UNCHANGED vars
  BY <1>6 DEF vars, ScreenInv
<1> QED
  BY <1>1, <1>2, <1>3, <1>4, <1>5, <1>6 DEF Next

(* So the invariant always holds.                                          *)
LEMMA ScreenKept == Spec => []ScreenInv
<1>1. Init => ScreenInv
  BY InitInv, InitWhole DEF ScreenInv
<1>2. ScreenInv /\ [Next]_vars => ScreenInv'
  <2> SUFFICES ASSUME ScreenInv, [Next]_vars PROVE ScreenInv'
    OBVIOUS
  <2>1. ReflowInv'
    BY NextInv DEF ScreenInv
  <2>2. Whole(bf', rows')
    BY NextWhole
  <2> QED
    BY <2>1, <2>2 DEF ScreenInv, Whole, MaxLength
<1> QED
  BY <1>1, <1>2, PTL DEF Spec

(* It says what the type invariant says.                                   *)
LEMMA ScreenTyped == ScreenInv => TypeOK
<1> SUFFICES ASSUME ScreenInv PROVE TypeOK
  OBVIOUS
<1>1. cols \in Nat /\ rows \in Nat \ {0} /\ bf \in Buffers(cols, rows) /\ Whole(bf, rows)
  BY DEF ScreenInv, ReflowInv, Sized
<1>2. \A i \in DOMAIN bf.lines : DOMAIN bf.lines[i].cells = 0..(cols - 1)
  <2> SUFFICES ASSUME NEW i \in DOMAIN bf.lines PROVE DOMAIN bf.lines[i].cells = 0..(cols - 1)
    OBVIOUS
  <2>1. bf.lines[i] \in Lines(cols)
    BY <1>1, BufferParts
  <2> QED
    BY <1>1, <2>1, LineParts
<1>3. bf.x \in 0..cols
  BY <1>1, BufferParts
<1> QED
  BY <1>1, <1>2, <1>3 DEF TypeOK, Whole

(* Every line has the columns of the window, and the rows of the screen    *)
(* are the last ones of the list, within its capacity: for every window,   *)
(* text, edit and sequence of resizes, whatever rows a reflow takes away   *)
(* or puts in and wherever it puts them.                                   *)
THEOREM LinesAlwaysFit == Spec => []TypeOK
  BY ScreenKept, ScreenTyped, PTL

(* A change of size that does not fail is one of module Screen.            *)
LEMMA ResizeSeen ==
  ASSUME ScreenInv, NEW s \in Sizes, Resize(s.cols, s.rows), ~thrown'
  PROVE  Rows!ResizeTo(s.cols, s.rows)
<1>1. PICK c, r : c = s.cols /\ r = s.rows
  OBVIOUS
<1>2. c \in Nat \ {0, 1} /\ r \in Nat \ {0} /\ Resize(c, r)
  BY <1>1, SizesAre
<1>3. PICK nb : nb = ResizedRows(bf, c, r)
  OBVIOUS
<1>4. PICK d : d = IF c > cols THEN ReflowedLarger(nb, c, r) ELSE IF c < cols THEN ReflowedSmaller(nb, c, r).bf ELSE nb
  OBVIOUS
<1>5. bf' = d /\ rows' = r /\ cols' = c /\ <<c, r>> # <<cols, rows>> /\ resizes < MaxResizes /\ resizes' = resizes + 1
  BY <1>2, <1>3, <1>4 DEF Resize
<1>6. PICK v : v = Seen(nb, r)
  OBVIOUS
<1>7. /\ Rows!ResizedRows(Seen(bf, rows), "normal", c, r) = v
      /\ \E n \in 0..(IF c > cols THEN v.len - 1 ELSE v.max) : Seen(d, r) \in Rows!Reflowed(v, n, c, r)
  BY <1>2, <1>3, <1>4, <1>6, ReflowedSeen
<1>8. View("normal") = Seen(bf, rows) /\ View("normal")' = Seen(d, r)
  BY <1>5 DEF View, Seen, MaxLength
<1>9. View("alt")' = Rows!ResizedRows(View("alt"), "alt", c, r)
  BY <1>5 DEF View, Rows!ResizedRows, Rows!MaxLength
<1>10. [w \in {"normal", "alt"} |-> View(w)]' =
         [normal |-> Seen(d, r), alt |-> Rows!ResizedRows(View("alt"), "alt", c, r)]
  BY <1>8, <1>9
<1> QED
  BY <1>1, <1>5, <1>7, <1>8, <1>10 DEF Rows!ResizeTo, Rows!Change

(* Only a change of size counts one.                                       *)
LEMMA NextSeen == ASSUME ScreenInv, Next, Resized PROVE Rows!Resize
<1>1. \E s \in Sizes : Resize(s.cols, s.rows)
  BY DEF Next, Resized, PrintText, PrintInserting, LineFeed, CarriageReturn, CursorPosition, EditsLine,
         InsertChars, DeleteChars, EraseChars, EraseInLine, RepeatPrecedingCharacter
<1>2. PICK s \in Sizes : Resize(s.cols, s.rows)
  BY <1>1
<1>3. Rows!ResizeTo(s.cols, s.rows)
  BY <1>2, ResizeSeen DEF Resized
<1> QED
  BY <1>3 DEF Rows!Resize

(* Every change of size that does not fail is a resize of module Screen:   *)
(* the columns, the rows, the first row, the cursor and the length of the  *)
(* list, of which Screen knows the number of rows a reflow takes away or   *)
(* puts in, are what it says, for every window, text, edit and sequence of *)
(* resizes.                                                                *)
THEOREM ResizesFollowScreen == Spec => ResizesAsScreen
<1>1. ScreenInv /\ [Next]_vars => [Resized => Rows!Resize]_vars
  <2> SUFFICES ASSUME ScreenInv, Next PROVE Resized => Rows!Resize
    OBVIOUS
  <2> QED
    BY NextSeen
<1> QED
  BY <1>1, ScreenKept, PTL DEF Spec, ResizesAsScreen
=============================================================================
