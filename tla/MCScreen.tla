------------------------------ MODULE MCScreen ------------------------------
(* A small window: two sizes of columns and rows, two lines of history. The *)
(* margins are well formed, of one row, or below the screen.                *)
EXTENDS Screen

MCSizes == {[cols |-> 2, rows |-> 3], [cols |-> 3, rows |-> 2]}
MCMargins == {<<1, 2>>, <<2, 0>>, <<4, 1>>}

(* The cursor leaves the screen, and the output stops for good, only in    *)
(* the named ways (CursorLeaves, FreezeCause).                             *)
LostAsNamed == CursorLeaves /\ FreezeCause
(* A line stays where its reader sees it: in the history while output      *)
(* arrives, and in its row outside the margins (HistoryStays, MarginsHold).*)
LinesStay == HistoryStays /\ MarginsHold
=============================================================================
