------------------------------- MODULE SimplePage -------------------------------
(***************************************************************************)
(* The page of a session with one instance (handlers/www/assets/           *)
(* app-simplified.js, served by handlers/www/default/index.html).  On each *)
(* connection it asks for the session; an answer with an instance, and the *)
(* event `instance new', both replace the instance the page shows by a new *)
(* object, whose terminal is made at once or 50 ms later and opened        *)
(* another 100 ms later, if the page then has a place for it.              *)
(***************************************************************************)
EXTENDS Page

VARIABLES
    connected,
    instance,   \* the number of the object shown, 0 for null
    requests,   \* GETs of the session: [id, saw], saw = <<>> until the server answers
    polls,      \* 2 s timers of getSession that are set
    setups,     \* objects with a 50 ms timer of setupInstance
    attaches,   \* objects with the 100 ms timer of attachTerminal
    placed,     \* objects whose terminal is in the page as it is now
    opened,     \* objects whose terminal was ever opened
    resizing,   \* resizeHandler is set
    failed,     \* history: an answer failed
    stale       \* history: an answer was used that was no longer true, or was not when the page joined

simpleVars == <<connected, instance, requests, polls, setups, attaches, placed, opened, resizing, failed, stale>>
vars == <<pageVars, simpleVars>>

timers == <<setups, attaches, opened, resizing>>
asking == <<requests, polls, failed, stale>>

Init ==
    /\ (PageInit({}) \/ \E first \in Names : PageInit({first}))
    /\ socket = "connecting" /\ connected = FALSE /\ instance = 0
    /\ requests = {} /\ polls = 0 /\ setups = {} /\ attaches = {} /\ placed = {} /\ opened = {}
    /\ resizing = FALSE /\ failed = FALSE /\ stale = FALSE

(* The element terminal-<name>, inside ng-if's on the connection and on    *)
(* the instance.                                                           *)
HasPlace(name) == connected /\ isAlive /\ instance # 0 /\ objects[instance].name = name

(* getSession, with the smallest number that is free.                      *)
Asked ==
    LET id == CHOOSE n \in 1..(Cardinality(requests) + 1) : \A r \in requests : r.id # n
    IN  requests' = requests \cup {[id |-> id, saw |-> <<>>]}

-----------------------------------------------------------------------------
(* The session's one instance.                                             *)
Server ==
    /\ \/ live = {} /\ \E name \in Names : Created(name)
       \/ \E name \in Names : Deleted(name) \/ Printed(name)
       \/ Expired
    /\ UNCHANGED <<link, told, objects, simpleVars>>

Join ==
    /\ Joined /\ stale' = (stale \/ (instance # 0 /\ objects[instance].name \notin live))
    /\ UNCHANGED <<connected, instance, requests, polls, timers, placed, failed>>

Answer(r) ==
    /\ r.saw = <<>>
    /\ requests' = (requests \ {r}) \cup {[r EXCEPT !.saw = <<live>>]}
    /\ UNCHANGED <<pageVars, connected, instance, polls, timers, placed, failed, stale>>

FailedAnswer(r) ==
    /\ r.saw = <<>> /\ failed' = TRUE /\ events < MaxEvents /\ events' = events + 1
    /\ requests' = requests \ {r}
    /\ UNCHANGED <<live, removed, outputs, link, wire, told, objects, connected, instance, polls, timers, placed, stale>>

(* The socket's open event, and the listeners of `connect'.                *)
Open ==
    /\ socket = "connecting" /\ socket' = "joining" /\ connected' = TRUE /\ Asked
    /\ UNCHANGED <<server, losses, isAlive, wire, told, objects, instance, polls, timers, placed, failed, stale>>

(* The close event: what was shown is taken out of the page.               *)
Lost ==
    /\ Broken /\ connected' = FALSE /\ placed' = {}
    /\ UNCHANGED <<objects, instance, asking, timers>>

-----------------------------------------------------------------------------
(* GET /sessions/<id> is answered: the instance is replaced, and attached; *)
(* without an instance it is asked again after two seconds.                *)
Replaced(name) ==
    /\ objects' = Append(objects, [NewObject(name, FALSE) EXCEPT !.term = TRUE])
    /\ instance' = Len(objects) + 1 /\ attaches' = attaches \cup {Len(objects) + 1}
    /\ UNCHANGED polls

RetriedNever == UNCHANGED <<polls, objects, instance, attaches>>
Retried == polls' = polls + 1 /\ UNCHANGED <<objects, instance, attaches>>

GotSession(r) ==
    /\ r.saw # <<>> /\ requests' = requests \ {r}
    /\ \/ \E name \in r.saw[1] : Replaced(name)
       \/ r.saw[1] = {} /\ Retried
    /\ stale' = (stale \/ r.saw[1] \notin {{}, live})
    /\ UNCHANGED <<server, link, wire, told, connected, setups, placed, opened, resizing, failed>>

Poll ==
    /\ polls > 0 /\ polls' = polls - 1 /\ Asked
    /\ UNCHANGED <<pageVars, connected, instance, timers, placed, failed, stale>>

-----------------------------------------------------------------------------
(* instance new.                                                           *)
OnNew ==
    /\ Arrives("new")
    /\ objects' = Append(objects, NewObject(Head(wire)[2], TRUE))
    /\ instance' = Len(objects) + 1 /\ setups' = setups \cup {Len(objects) + 1}
    /\ UNCHANGED <<server, link, told, connected, asking, attaches, opened, resizing, placed>>

(* instance delete, which also empties the page.                           *)
OnDelete ==
    /\ Arrives("delete") /\ told' = told \cup {Head(wire)[2]}
    /\ IF instance # 0 /\ objects[instance].name = Head(wire)[2]
       THEN instance' = 0 /\ placed' = {}
       ELSE UNCHANGED <<instance, placed>>
    /\ UNCHANGED <<server, link, objects, connected, asking, timers>>

(* instance terminal out.                                                  *)
OnOutput ==
    /\ Arrives("out")
    /\ objects' = IF instance # 0 /\ objects[instance].name = Head(wire)[2]
                  THEN [objects EXCEPT ![instance] = Heard(@, Head(wire)[3])] ELSE objects
    /\ UNCHANGED <<server, link, told, simpleVars>>

(* instance viewport resize: the buffer goes to the terminal, if any.      *)
OnResize ==
    /\ Arrives("resize")
    /\ objects' = IF instance # 0 /\ objects[instance].term
                  THEN [objects EXCEPT ![instance] = Flushed(@)] ELSE objects
    /\ UNCHANGED <<server, link, told, simpleVars>>

OnEnd ==
    /\ Ended /\ connected' = FALSE /\ placed' = {}
    /\ UNCHANGED <<objects, instance, asking, timers>>

-----------------------------------------------------------------------------
(* setupInstance, 50 ms after the event.                                   *)
Setup(o) ==
    /\ o \in setups /\ setups' = setups \ {o}
    /\ objects' = [objects EXCEPT ![o].term = TRUE]
    /\ attaches' = attaches \cup {o}
    /\ UNCHANGED <<server, link, wire, told, connected, instance, asking, opened, resizing, placed>>

(* 100 ms after that the terminal is opened in its place and the buffer    *)
(* written; without a place it never is.                                   *)
Attach(o) ==
    /\ o \in attaches /\ attaches' = attaches \ {o}
    /\ IF HasPlace(objects[o].name)
       THEN /\ placed' = placed \cup {o} /\ opened' = opened \cup {o}
            /\ objects' = [objects EXCEPT ![o] = Flushed(@)]
       ELSE UNCHANGED <<placed, opened, objects>>
    /\ UNCHANGED <<server, link, wire, told, connected, instance, asking, setups, resizing>>

(* The window's resize event, and its handler a second later, which throws *)
(* when the instance has gone.                                             *)
WindowResized ==
    /\ instance # 0 /\ objects[instance].term /\ ~resizing /\ resizing' = TRUE
    /\ events < MaxEvents /\ events' = events + 1
    /\ UNCHANGED <<live, removed, outputs, link, wire, told, objects, connected, instance, asking, setups, attaches, opened, placed>>

HandleResize ==
    /\ resizing /\ resizing' = FALSE
    /\ IF instance # 0 /\ objects[instance].term THEN AskResize ELSE UNCHANGED wire
    /\ UNCHANGED <<server, link, told, objects, connected, instance, asking, setups, attaches, opened,
                   placed>>

Timers == Poll \/ (\E o \in DOMAIN objects : Setup(o) \/ Attach(o)) \/ HandleResize
Handlers == OnNew \/ OnDelete \/ OnOutput \/ OnResize \/ OnEnd

Next ==
    \/ Server \/ (\E r \in requests : Answer(r) \/ FailedAnswer(r) \/ GotSession(r))
    \/ Open \/ Join \/ Lost \/ Handlers \/ Timers \/ WindowResized

-----------------------------------------------------------------------------
(* An instance the page was told is deleted is shown again only by an      *)
(* answer that was older than the deletion.                                *)
GhostsAreStale == instance # 0 /\ objects[instance].name \in told => stale

(* In the end the page shows the session's instance, with a terminal in    *)
(* the page, unless an answer failed or an old one was used: an instance   *)
(* replaced between the answer and the page's joining is never noticed.    *)
Shows == instance # 0 /\ objects[instance].name \in live /\ instance \in placed
ShowsInstance == <>[](live # {} /\ isAlive) => <>[](Shows \/ stale \/ failed)

(* No output waits behind a terminal that is open.                         *)
NothingWaits == \A o \in opened : objects[o].buffer = <<>>
=============================================================================
