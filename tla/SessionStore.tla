---------------------------- MODULE SessionStore ----------------------------
(***************************************************************************)
(* What package storage promises to its callers, with the by-session       *)
(* indexes, the file format and the two halves of a save left out: a set   *)
(* of live sessions, the session each stored instance or client belongs    *)
(* to, and a durable copy that is the current state, an earlier one, or    *)
(* unreadable.                                                             *)
(***************************************************************************)
CONSTANTS Sessions,   \* session identifiers
          Children,   \* names of the instances and clients of sessions
          None,       \* owner of a child that is not stored
          Lost        \* a durable copy that cannot be read back

VARIABLES up,         \* is the process running?
          live,       \* the stored sessions
          owner,      \* the session of each child, or None
          durable     \* what a restart would read

vars == <<up, live, owner, durable>>

NoChildren == [c \in Children |-> None]

Current == [live |-> live, owner |-> owner]

Empty == [live |-> {}, owner |-> NoChildren]

Init == /\ up = FALSE
        /\ live = {}
        /\ owner = NoChildren
        /\ durable = Empty

(* A write makes the durable copy unreadable until it ends, or leaves it   *)
(* behind when the file cannot even be opened.                             *)
StartsWrite == durable' \in {durable, Lost}

CreateSession(s) == /\ live' = live \cup {s}
                    /\ UNCHANGED owner

(* Dropping a session drops exactly its own children.                      *)
DropSession(s) == /\ live' = live \ {s}
                  /\ owner' = [c \in Children |->
                                 IF owner[c] = s THEN None ELSE owner[c]]

Attach(c, s) == /\ s \in live
                /\ owner' = [owner EXCEPT ![c] = s]
                /\ UNCHANGED live

Detach(c) == /\ owner' = [owner EXCEPT ![c] = None]
             /\ UNCHANGED live

Write == /\ up
         /\ \/ \E s \in Sessions : CreateSession(s) \/ DropSession(s)
            \/ \E c \in Children, s \in Sessions : Attach(c, s)
            \/ \E c \in Children : Detach(c)
            \/ UNCHANGED <<live, owner>>
         /\ StartsWrite
         /\ UNCHANGED up

Saved == /\ up
         /\ durable' = Current
         /\ UNCHANGED <<up, live, owner>>

Crash == /\ up
         /\ up' = FALSE
         /\ live' = {}
         /\ owner' = NoChildren
         /\ UNCHANGED durable

Restart == /\ ~up
           /\ durable # Lost
           /\ up' = TRUE
           /\ live' = durable.live
           /\ owner' = durable.owner
           /\ UNCHANGED durable

Next == Write \/ Saved \/ Crash \/ Restart

Spec == Init /\ [][Next]_vars
=============================================================================
