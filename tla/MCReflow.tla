------------------------------ MODULE MCReflow ------------------------------
(* Two rows and one of history.  The runs: a wide character, a letter with  *)
(* an accent, a full row, and one of three rows that a wide character has   *)
(* to be wrapped in.  The size goes down to the least there is.             *)
EXTENDS Reflow

MCSizes == {[cols |-> 5, rows |-> 2], [cols |-> 4, rows |-> 2],
            [cols |-> 2, rows |-> 2], [cols |-> 3, rows |-> 3]}
MCFirst == [cols |-> 5, rows |-> 2]
MCWords == {<<2>>, <<1, 0>>, <<1, 1, 1, 1, 1>>, <<1, 1, 1, 1, 2, 1, 1, 1, 1>>}
=============================================================================
