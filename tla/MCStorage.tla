----------------------------- MODULE MCStorage -----------------------------
(* Storage on two sessions: two containers and a client of the first, one  *)
(* container of the second, and one Windows machine either may be given.   *)
EXTENDS Storage

CONSTANTS s1, s2, i1, i2, i3, c1, w1

MCSessionIds == {s1, s2}
MCInstanceNames == {i1, i2, i3}
MCClientIds == {c1}
MCWindowsIds == {w1}
MCOwner == (i1 :> s1) @@ (i2 :> s1) @@ (i3 :> s2) @@ (c1 :> s1)
=============================================================================
