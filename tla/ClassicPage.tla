------------------------------ MODULE ClassicPage ------------------------------
(***************************************************************************)
(* The page of a session with any number of instances (handlers/www/       *)
(* assets/app.js).  It asks for the session once, when it is loaded; the   *)
(* list of instances is then kept up to date by events and by the answers  *)
(* to the page's own requests.  Keys are collected for each terminal and   *)
(* sent every 70 ms.                                                       *)
(***************************************************************************)
EXTENDS Page

CONSTANTS MaxKeys

VARIABLES
    session,    \* getSession: <<"asked">>, <<"lists", names>>, <<"handled">> or <<"failed">>
    post,       \* newInstance, once: <<"none">>, <<"asked">>, <<"made", name>>, <<"refused">>, <<"over">>
    deletion,   \* deleteInstance, once: <<"none">>, <<"asked", name>>, <<"done", name>>, <<"failed">>, ...
    list,       \* $rootScope.instances: numbers of objects
    idx,        \* $scope.idx: for each name the number of its object, 0 without one
    selected,   \* $rootScope.selectedInstance
    shows,      \* objects with a timer of showInstance that makes their terminal
    asks,       \* timers that are to send a new terminal's geometry
    ticking,    \* objects whose terminalBufferInterval runs
    disabled,   \* objects whose terminal takes no input
    typed,      \* keystrokes used up, in all terminals (a bound)
    keys,       \* for each object: keys typed, in terminalBuffer, and sent
    unflushed,  \* history: a geometry could not be sent, or its answer was lost
    early,      \* history: an instance was made on request before the session was known
    late        \* history: names made known after their deletion

requestVars == <<session, post, deletion, early, late>>
listVars == <<list, idx, selected, shows>>
terminalVars == <<asks, ticking, disabled, typed, keys, unflushed>>
vars == <<pageVars, requestVars, listVars, terminalVars>>

Listed(o) == \E k \in DOMAIN list : list[k] = o
NoKeys == [typed |-> 0, buffer |-> <<>>, sent |-> <<>>]

Init ==
    /\ \E first \in SUBSET Names : PageInit(first)
    /\ socket = "absent" /\ session = <<"asked">> /\ post = <<"none">> /\ deletion = <<"none">>
    /\ list = <<>> /\ idx = [name \in Names |-> 0] /\ selected = 0 /\ shows = {}
    /\ asks = 0 /\ ticking = {} /\ disabled = {} /\ typed \in 0..MaxKeys /\ keys = <<>>
    /\ unflushed = FALSE /\ early = FALSE /\ late = {}

-----------------------------------------------------------------------------
(* The server: instances made from a template or from another page, the    *)
(* page's own requests, and output.                                        *)
Server ==
    /\ \/ \E name \in Names : Created(name) \/ Deleted(name) \/ Printed(name)
       \/ Expired
    /\ UNCHANGED <<link, told, objects, requestVars, listVars, terminalVars>>

Join == Joined /\ UNCHANGED <<requestVars, listVars, terminalVars>>

AnswerSession ==
    /\ session = <<"asked">>
    /\ session' \in {<<"lists", live>>, <<"failed">>}
    /\ UNCHANGED <<pageVars, post, deletion, early, late, listVars, terminalVars>>

AnswerPost ==
    /\ post = <<"asked">>
    /\ \/ \E name \in Names : Created(name) /\ post' = <<"made", name>>
       \/ post' = <<"refused">> /\ UNCHANGED <<server, wire>>
    /\ UNCHANGED <<link, told, objects, session, deletion, early, late, listVars, terminalVars>>

AnswerDelete ==
    /\ deletion[1] = "asked"
    /\ \/ Deleted(deletion[2]) /\ deletion' = <<"done", deletion[2]>>
       \/ deletion' = <<"failed">> /\ UNCHANGED <<server, wire>>
    /\ UNCHANGED <<link, told, objects, session, post, early, late, listVars, terminalVars>>

-----------------------------------------------------------------------------
(* showInstance: the terminal of an instance is made in a timer.           *)
ShowIn(o, made) ==
    /\ selected' = o
    /\ shows' = IF made[o].term THEN shows ELSE shows \cup {o}

(* upsertInstance.                                                         *)
Upserted(name) ==
    IF idx[name] = 0
    THEN /\ objects' = Append(objects, NewObject(name, TRUE))
         /\ keys' = Append(keys, NoKeys)
         /\ list' = Append(list, Len(objects) + 1)
         /\ idx' = [idx EXCEPT ![name] = Len(objects) + 1]
         /\ late' = late \cup ({name} \cap removed)
    ELSE UNCHANGED <<objects, keys, list, idx, late>>

RemovedFromIndex(name) ==
    /\ idx' = [idx EXCEPT ![name] = 0] /\ ticking' = ticking \ {idx[name]}
    /\ UNCHANGED <<list, selected, shows>>

(* removeInstance: the first instance left is shown.                       *)
TakenOut(name) ==
    LET others == {k \in DOMAIN list : objects[list[k]].name # name}
    IN  \E place \in [1..Cardinality(others) -> others] :
            /\ \A j, k \in DOMAIN place : j < k => place[j] < place[k]
            /\ others = {place[k] : k \in DOMAIN place}
            /\ list' = [k \in DOMAIN place |-> list[place[k]]]
Removed(name) ==
    /\ idx' = [idx EXCEPT ![name] = 0]
    /\ ticking' = ticking \ {idx[name]}
    /\ IF idx[name] = 0 THEN UNCHANGED list ELSE TakenOut(name)
    /\ IF idx[name] # 0 /\ list' # <<>> THEN ShowIn(list'[1], objects) ELSE UNCHANGED <<selected, shows>>

(* getSession is answered: every instance is added, without a look at idx, *)
(* the socket is made, and the first instance, or the one the page's       *)
(* address names, is shown.                                                *)
GotSession ==
    /\ session[1] = "lists" /\ session' = <<"handled">>
    /\ \E order \in [1..Cardinality(session[2]) -> session[2]] :
        /\ {order[k] : k \in DOMAIN order} = session[2]
        /\ objects' = objects \o [k \in DOMAIN order |-> NewObject(order[k], FALSE)]
        /\ keys' = keys \o [k \in DOMAIN order |-> NoKeys]
        /\ list' = list \o [k \in DOMAIN order |-> Len(objects) + k]
        /\ idx' = [name \in Names |-> IF name \in session[2]
                        THEN Len(objects) + CHOOSE k \in DOMAIN order : order[k] = name ELSE idx[name]]
    /\ IF list' = <<>> THEN UNCHANGED <<selected, shows>>
       ELSE \E o \in {list'[1]} \cup {idx'[name] : name \in {n \in Names : idx'[n] # 0}} : ShowIn(o, objects')
    /\ socket' = "connecting"
    /\ late' = late \cup (session[2] \cap removed)
    /\ UNCHANGED <<server, losses, isAlive, wire, told, post, deletion, early,
                   asks, ticking, disabled, typed, unflushed>>

-----------------------------------------------------------------------------
(* newInstance and its answer.  The page makes one request in a behaviour, *)
(* of this kind or a deletion (a bound).                                   *)
NewInstance ==
    /\ post = <<"none">> /\ deletion = <<"none">> /\ isAlive /\ post' = <<"asked">>
    /\ UNCHANGED <<pageVars, session, deletion, early, late, listVars, terminalVars>>

GotPost ==
    /\ post[1] \in {"made", "refused"} /\ post' = <<"over">>
    /\ IF post[1] = "made" THEN Upserted(post[2]) ELSE UNCHANGED <<objects, keys, list, idx, late>>
    /\ early' = (early \/ (post[1] = "made" /\ session # <<"handled">>))
    /\ UNCHANGED <<server, link, wire, told, session, deletion, selected, shows,
                   asks, ticking, disabled, typed, unflushed>>

(* deleteInstance and its answer.                                          *)
DeleteInstance ==
    /\ deletion = <<"none">> /\ post = <<"none">> /\ isAlive
    /\ \E k \in DOMAIN list : list[k] = selected /\ deletion' = <<"asked", objects[selected].name>>
    /\ UNCHANGED <<pageVars, session, post, early, late, listVars, terminalVars>>

GotDelete ==
    /\ deletion[1] \in {"done", "failed"} /\ deletion' = <<"over">>
    /\ IF deletion[1] = "done" THEN Removed(deletion[2]) ELSE UNCHANGED <<listVars, ticking>>
    /\ told' = told \cup {deletion[k] : k \in (DOMAIN deletion) \ {1}}
    /\ UNCHANGED <<server, link, wire, objects, session, post, early, late, asks, disabled, typed, keys, unflushed>>

-----------------------------------------------------------------------------
(* The socket's open and close events turn every terminal on and off.      *)
WithTerm == {o \in DOMAIN objects : Listed(o) /\ objects[o].term}

Open ==
    /\ socket = "connecting" /\ socket' = "joining" /\ disabled' = disabled \ WithTerm
    /\ UNCHANGED <<server, losses, isAlive, wire, told, objects, requestVars, listVars,
                   asks, ticking, typed, keys, unflushed>>

Lost ==
    /\ Broken /\ disabled' = disabled \cup WithTerm
    /\ unflushed' = (unflushed \/ \E k \in DOMAIN wire : wire[k][1] = "resize")
    /\ UNCHANGED <<objects, requestVars, listVars, asks, ticking, typed, keys>>

OnNew ==
    /\ Arrives("new") /\ Upserted(Head(wire)[2]) /\ ShowIn(idx'[Head(wire)[2]], objects')
    /\ UNCHANGED <<server, link, told, session, post, deletion, early, asks, ticking, disabled, typed, unflushed>>

OnDelete ==
    /\ Arrives("delete") /\ told' = told \cup {Head(wire)[2]} /\ Removed(Head(wire)[2])
    /\ UNCHANGED <<server, link, objects, requestVars, asks, disabled, typed, keys, unflushed>>

OnOutput ==
    /\ Arrives("out")
    /\ LET o == idx[Head(wire)[2]]
       IN  objects' = IF o = 0 THEN objects ELSE [objects EXCEPT ![o] = Heard(@, Head(wire)[3])]
    /\ UNCHANGED <<server, link, told, requestVars, listVars, terminalVars>>

(* instance viewport resize: every terminal is resized and what waits in   *)
(* its buffer is written.                                                  *)
OnResize ==
    /\ Arrives("resize")
    /\ objects' = [o \in DOMAIN objects |-> IF o \in WithTerm THEN Flushed(objects[o]) ELSE objects[o]]
    /\ UNCHANGED <<server, link, told, requestVars, listVars, terminalVars>>

OnEnd ==
    /\ Ended /\ disabled' = disabled \cup WithTerm
    /\ UNCHANGED <<objects, requestVars, listVars, asks, ticking, typed, keys, unflushed>>

-----------------------------------------------------------------------------
(* The timer of showInstance makes the terminal, unless it exists; without *)
(* a place in the page it throws.                                          *)
MakeTerminal(o) ==
    /\ o \in shows /\ shows' = shows \ {o}
    /\ IF ~objects[o].term /\ \E k \in DOMAIN list : objects[list[k]].name = objects[o].name
       THEN /\ objects' = [objects EXCEPT ![o].term = TRUE]
            /\ keys' = [keys EXCEPT ![o].buffer = <<>>]
            /\ ticking' = ticking \cup {o} /\ asks' = asks + 1
       ELSE UNCHANGED <<objects, keys, ticking, asks>>
    /\ UNCHANGED <<server, link, wire, told, requestVars, list, idx, selected, disabled, typed, unflushed>>

(* In the next tick its geometry is sent.                                  *)
SendGeometry ==
    /\ asks > 0 /\ asks' = asks - 1 /\ AskResize
    /\ unflushed' = (unflushed \/ ~Connected)
    /\ UNCHANGED <<server, link, told, objects, requestVars, listVars, ticking, disabled, typed, keys>>

(* A key in the terminal that is shown.                                    *)
Type(o) ==
    /\ o = selected /\ Listed(o) /\ objects[o].term /\ o \notin disabled
    /\ typed < MaxKeys /\ typed' = typed + 1
    /\ keys' = [keys EXCEPT ![o].typed = @ + 1, ![o].buffer = Append(@, keys[o].typed + 1)]
    /\ UNCHANGED <<pageVars, requestVars, listVars, asks, ticking, disabled, unflushed>>

TickSentTwice(o) ==
    /\ o \in ticking /\ keys[o].buffer # <<>> /\ Connected
    /\ keys' = [keys EXCEPT ![o].sent = @ \o keys[o].buffer]
    /\ UNCHANGED <<pageVars, requestVars, listVars, asks, ticking, disabled, typed, unflushed>>

(* terminalBufferInterval: an emit on a socket that is not open throws,    *)
(* and the buffer stays as it is.                                          *)
Tick(o) ==
    /\ o \in ticking /\ keys[o].buffer # <<>> /\ Connected
    /\ keys' = [keys EXCEPT ![o].sent = @ \o keys[o].buffer, ![o].buffer = <<>>]
    /\ UNCHANGED <<pageVars, requestVars, listVars, asks, ticking, disabled, typed, unflushed>>

(* A click in the list of instances.                                       *)
Select ==
    /\ \E k \in DOMAIN list : list[k] # selected /\ ShowIn(list[k], objects)
    /\ UNCHANGED <<pageVars, requestVars, list, idx, terminalVars>>

Handlers == OnNew \/ OnDelete \/ OnOutput \/ OnResize \/ OnEnd
Answers == AnswerSession \/ AnswerPost \/ AnswerDelete
Got == GotSession \/ GotPost \/ GotDelete

Next ==
    \/ Server \/ Answers \/ Got \/ NewInstance \/ DeleteInstance \/ Open \/ Join \/ Lost \/ Handlers
    \/ SendGeometry \/ Select
    \/ \E o \in DOMAIN objects : MakeTerminal(o) \/ Type(o) \/ Tick(o)

-----------------------------------------------------------------------------
(* The list and the index agree, each name once, unless an instance was    *)
(* made on request before the session was known, which lists it twice; and *)
(* an instance is listed after its deletion only by late news of it.       *)
ListMatchesIndex ==
    /\ early \/ /\ \A j, k \in DOMAIN list : objects[list[j]].name = objects[list[k]].name => j = k
                /\ \A name \in Names : idx[name] # 0 <=> \E k \in DOMAIN list : list[k] = idx[name]
    /\ \A name \in told \ late : idx[name] = 0

(* Keys are sent once, in the order they were typed, ...                   *)
KeysInOrder ==
    \A o \in DOMAIN keys : keys[o].sent \o keys[o].buffer = [k \in 1..keys[o].typed |-> k]

(* ... and in the end, while the instance is listed and the page connected.*)
KeysWait == \E o \in DOMAIN keys : Listed(o) /\ keys[o].buffer # <<>>
KeysAreSent == KeysWait ~> (~KeysWait \/ ~Connected)

(* Output that waits for a terminal is written to it in the end, unless    *)
(* the geometry could not be sent or its answer was lost: a connection     *)
(* made again does not ask for it.                                         *)
OutputWaits == \E o \in WithTerm : objects[o].buffer # <<>>
BufferIsFlushed == OutputWaits ~> (~OutputWaits \/ unflushed \/ ~Connected)
=============================================================================
