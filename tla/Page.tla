---------------------------------- MODULE Page ----------------------------------
(***************************************************************************)
(* What the two pages of a session share (handlers/www/assets/             *)
(* app-simplified.js and app.js): the reconnecting WebSocket on which the  *)
(* server's events arrive in order while it is open, and the objects the   *)
(* page makes for instances, each with its terminal and the buffer that    *)
(* collects output until the terminal exists.  The answers of HTTP         *)
(* requests travel apart from the events and may overtake them or be       *)
(* overtaken.                                                              *)
(*                                                                         *)
(* The server is external: instances come and go, each once, and every     *)
(* piece of output has a number of its own; 0 stands for the text          *)
(* "undefined" that a missing buffer contributes.                          *)
(***************************************************************************)
EXTENDS Integers, Sequences, FiniteSets

CONSTANTS Names, MaxEvents, MaxLosses, MaxOutput
ASSUME PageAssumption == IsFiniteSet(Names)

VARIABLES
    live, removed,  \* the instances the session has, and had
    events,         \* the number of events so far, which bounds them
    outputs,        \* the number of pieces of output among them
    wire,           \* the events on their way through the socket
    socket,         \* "absent", "connecting", "joining", "open" or, for good, "closed"
    losses,         \* losses of the connection used up (a bound)
    isAlive,        \* no `session end' was handled
    told,           \* history: the deletions the page was told of
    objects         \* the instance objects of the page, in the order they were made

server == <<live, removed, events, outputs>>
link == <<socket, losses, isAlive>>
pageVars == <<server, link, wire, told, objects>>

(* The page may be loaded late in the life of the session.                 *)
PageInit(first) ==
    /\ live = first /\ removed \in SUBSET (Names \ first) /\ events = 0 /\ outputs = 0 /\ wire = <<>>
    /\ losses \in 0..MaxLosses /\ isAlive = TRUE /\ told = {} /\ objects = <<>>

-----------------------------------------------------------------------------
(* The page's end of the socket is open before the server has joined it to *)
(* the session's events: those in between are not sent to it.              *)
Connected == socket \in {"joining", "open"}
Joined ==
    /\ socket = "joining" /\ socket' = "open"
    /\ UNCHANGED <<server, losses, isAlive, wire, told, objects>>

(* The server sends an event to the sockets that have joined.              *)
Sent(event) ==
    /\ events < MaxEvents /\ events' = events + 1
    /\ wire' = IF socket = "open" THEN Append(wire, event) ELSE wire

Created(name) ==
    /\ name \in Names \ (live \cup removed)
    /\ live' = live \cup {name} /\ Sent(<<"new", name>>) /\ UNCHANGED <<removed, outputs>>

Deleted(name) ==
    /\ name \in live
    /\ live' = live \ {name} /\ removed' = removed \cup {name}
    /\ Sent(<<"delete", name>>) /\ UNCHANGED outputs

Printed(name) ==
    /\ name \in live /\ socket = "open" /\ outputs < MaxOutput
    /\ outputs' = outputs + 1 /\ Sent(<<"out", name, outputs + 1>>)
    /\ UNCHANGED <<live, removed>>

Expired ==
    /\ isAlive /\ live' = {} /\ removed' = removed \cup live
    /\ Sent(<<"end">>) /\ UNCHANGED outputs

(* emit of a resize: the server answers with the smallest viewport.  An    *)
(* emit on a socket that is not open throws.                               *)
AskResize == wire' = IF Connected THEN Append(wire, <<"resize">>) ELSE wire

(* The connection breaks: what is on its way is lost.                      *)
Broken ==
    /\ Connected /\ losses < MaxLosses
    /\ socket' = "connecting" /\ losses' = losses + 1 /\ wire' = <<>>
    /\ UNCHANGED <<isAlive, server, told>>

Arrives(kind) == socket = "open" /\ wire # <<>> /\ Head(wire)[1] = kind /\ wire' = Tail(wire)

(* `session end': the page closes the socket, which stays closed.          *)
Ended ==
    /\ socket = "open" /\ wire # <<>> /\ Head(wire)[1] = "end" /\ wire' = <<>>
    /\ isAlive' = FALSE /\ socket' = "closed" /\ UNCHANGED <<losses, server, told>>

-----------------------------------------------------------------------------
(* An object made from an answer has no buffer, one made for an event has  *)
(* an empty one.  given and early are history: the output the object was   *)
(* given, and what went to the terminal before older buffered output.      *)
NewObject(name, hasBuffer) ==
    [name |-> name, hasBuffer |-> hasBuffer, term |-> FALSE, buffer |-> <<>>, screen |-> <<>>,
     given |-> <<>>, early |-> {}]

(* instance terminal out: instance.buffer += data, or instance.term.write. *)
Heard(object, piece) ==
    IF object.term
    THEN [object EXCEPT !.given = Append(@, piece), !.screen = Append(@, piece),
                        !.early = IF object.buffer = <<>> THEN @ ELSE @ \cup {piece}]
    ELSE [object EXCEPT !.given = Append(@, piece), !.hasBuffer = TRUE,
                        !.buffer = (IF object.hasBuffer THEN @ ELSE <<0>>) \o <<piece>>]

(* instance.term.write(instance.buffer); instance.buffer = ''.             *)
FlushedAgain(object) == [object EXCEPT !.screen = @ \o object.buffer]
Flushed(object) == [object EXCEPT !.screen = @ \o object.buffer, !.buffer = <<>>]

-----------------------------------------------------------------------------
(* Every piece of output an object was given is on its screen or in its    *)
(* buffer, once, and in the order it came in, except what went straight to *)
(* the terminal while older output was waiting in the buffer.              *)
OutputKept ==
    \A o \in DOMAIN objects :
        LET all == objects[o].screen \o objects[o].buffer
            pieces == SelectSeq(all, LAMBDA p : p # 0)
        IN  /\ Len(pieces) = Len(objects[o].given)
            /\ {pieces[k] : k \in DOMAIN pieces} = {objects[o].given[k] : k \in DOMAIN objects[o].given}
            /\ \A j \in DOMAIN all : \A k \in 1..(j - 1) : all[k] < all[j] \/ all[k] \in objects[o].early
=============================================================================
