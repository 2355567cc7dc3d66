----------------------------- MODULE MCSockets -----------------------------
(* Two sockets of one session; a page sends one resize.                     *)
EXTENDS Sockets
CONSTANTS u1, u2, m1
MCClients == {u1, u2}
MCOneClient == {u1}
MCResizes == {m1}
=============================================================================
