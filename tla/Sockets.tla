------------------------------ MODULE Sockets ------------------------------
(***************************************************************************)
(* The websockets of one session (handlers/ws.go): how each one joins the  *)
(* session, listens, is written to and closes, with the broker that calls  *)
(* its handler under the broker's lock (event/local_broker.go) and the     *)
(* client it stands for in the storage (pwd/client.go). As long as it is   *)
(* stored, the size of its page limits the session's terminals; the sizes  *)
(* themselves are left out. The terminals (handlers/terms.go) appear as a  *)
(* goroutine that has output to write.                                     *)
(***************************************************************************)
EXTENDS Naturals, Sequences

CONSTANTS Clients,   \* websockets, each with the client it creates
          Senders,   \* bound: clients whose page sends messages
          Resizes,   \* bound: the resize messages it sends
          MaxNews    \* bound: events the core emits for the session

ASSUME SocketsAssumption ==
  /\ Senders \subseteq Clients
  /\ "close" \notin Resizes
  /\ MaxNews \in Nat

Callbacks == Resizes \cup {"close"}

VARIABLES
  live,      \* the session is stored
  stored,    \* clients in the storage
  peer,      \* the page of each socket: "none", "there" or "gone"
  phase,     \* where the goroutine of each socket is
  closed,    \* socket.closed
  mx,        \* who holds socket.mx
  cb,        \* the goroutine of each message, and of "close"
  subs,      \* the broker's anyHandlers
  pending,   \* emitted events not yet delivered
  delivering,\* the broker's lock is held by a delivery
  turn,      \* the sockets it has still to call
  news       \* events of the core so far

client == <<live, stored>>
socket == <<peer, phase, closed>>
broker == <<subs, pending, delivering, turn, news>>
vars   == <<client, socket, mx, cb, broker>>

Init == /\ live = TRUE /\ stored = {}
        /\ peer = [u \in Clients |-> "none"]
        /\ phase = [u \in Clients |-> "off"]
        /\ closed = [u \in Clients |-> FALSE]
        /\ mx = [u \in Clients |-> "free"]
        /\ cb = [u \in Clients |-> [k \in Callbacks |-> "none"]]
        /\ subs = <<>> /\ pending = 0 /\ delivering = FALSE /\ turn = <<>>
        /\ news = 0

At(u, p) == phase[u] = p
Goto(u, p) == phase' = [phase EXCEPT ![u] = p]
Free(u) == mx[u] = "free"
-----------------------------------------------------------------------------
(* ws: the socket joins.                                                   *)

(* The page connects, and the session is found.                            *)
Connect(u) ==
  /\ At(u, "off")
  /\ live
  /\ peer' = [peer EXCEPT ![u] = "there"]
  /\ Goto(u, "client")
  /\ UNCHANGED <<client, closed, mx, cb, broker>>

(* ClientNew. An error (the session has ended meanwhile) is only logged.   *)
ClientNew(u) ==
  /\ At(u, "client")
  /\ stored' = IF live THEN stored \cup {u} ELSE stored
  /\ Goto(u, "listen")
  /\ UNCHANGED <<live, peer, closed, mx, cb, broker>>

(* NewManager registers with the broker, and takes its lock for it; then   *)
(* the terminals start and the four listeners are added.                   *)
Listen(u) ==
  /\ At(u, "listen")
  /\ ~delivering
  /\ Free(u)
  /\ Goto(u, "subscribe")
  /\ UNCHANGED <<client, peer, closed, mx, cb, broker>>

(* OnAny. Nothing ever takes the handler out again.                        *)
Subscribe(u) ==
  /\ At(u, "subscribe")
  /\ ~delivering
  /\ subs' = Append(subs, u)
  /\ Goto(u, "read")
  /\ UNCHANGED <<client, peer, closed, mx, cb, pending, delivering, turn, news>>
-----------------------------------------------------------------------------
(* process: the reader.                                                    *)

(* A resize message is read and handed to a goroutine of its own.          *)
ReadMessage(u, k) ==
  /\ At(u, "read")
  /\ peer[u] = "there"
  /\ u \in Senders /\ cb[u][k] = "none"
  /\ cb' = [cb EXCEPT ![u][k] = "sent"]
  /\ UNCHANGED <<client, socket, mx, broker>>

(* Nothing more is read; the deferred Close sets closed, without the mutex.*)
ReadFails(u) ==
  /\ At(u, "read")
  /\ peer[u] = "gone"
  /\ closed' = [closed EXCEPT ![u] = TRUE]
  /\ Goto(u, "close")
  /\ UNCHANGED <<client, peer, mx, cb, broker>>

(* Variant: a Close that tells nobody.                                     *)
CloseSilently(u) ==
  /\ At(u, "close")
  /\ Goto(u, "over")
  /\ UNCHANGED <<client, peer, closed, mx, cb, broker>>

(* onMessage("close"), under the mutex: a goroutine per listener.          *)
CloseDispatch(u) ==
  /\ At(u, "close")
  /\ Free(u)
  /\ cb' = [cb EXCEPT ![u]["close"] = "store"]
  /\ Goto(u, "over")
  /\ UNCHANGED <<client, peer, closed, mx, broker>>

(* onMessage of a resize. It does not ask whether the socket is closed.    *)
Dispatch(u, k) ==
  /\ cb[u][k] = "sent"
  /\ Free(u)
  /\ cb' = [cb EXCEPT ![u][k] = "store"]
  /\ UNCHANGED <<client, socket, mx, broker>>
-----------------------------------------------------------------------------
(* ClientResizeViewPort and ClientClose.                                   *)

Store(u, k) ==
  /\ k \in Resizes
  /\ cb[u][k] = "store"
  /\ IF live THEN /\ stored' = stored \cup {u}
                  /\ cb' = [cb EXCEPT ![u][k] = "notify"]
             ELSE /\ cb' = [cb EXCEPT ![u][k] = "done"]
                  /\ UNCHANGED stored
  /\ UNCHANGED <<live, socket, mx, broker>>

(* Deleting a client that is not there is no error.                        *)
ClientClose(u) ==
  /\ cb[u]["close"] = "store"
  /\ stored' = stored \ {u}
  /\ cb' = [cb EXCEPT ![u]["close"] = "notify"]
  /\ UNCHANGED <<live, socket, mx, broker>>

(* notifyClientSmallestViewPort resizes the terminals to the smallest of   *)
(* the stored viewports and publishes it.                                  *)
Notify(u, k) ==
  /\ cb[u][k] = "notify"
  /\ pending' = pending + 1
  /\ cb' = [cb EXCEPT ![u][k] = "done"]
  /\ UNCHANGED <<client, socket, mx, subs, delivering, turn, news>>
-----------------------------------------------------------------------------
(* The broker.                                                             *)

StartDelivery ==
  /\ ~delivering
  /\ pending > 0
  /\ pending' = pending - 1
  /\ delivering' = TRUE
  /\ turn' = subs
  /\ UNCHANGED <<client, socket, mx, cb, subs, news>>

(* The socket's handler: Emit passes a closed socket over, or begins to    *)
(* write.                                                                  *)
Call ==
  /\ turn # <<>>
  /\ LET u == Head(turn) IN
       /\ Free(u)
       /\ IF closed[u] THEN turn' = Tail(turn) /\ UNCHANGED mx
                       ELSE mx' = [mx EXCEPT ![u] = "broker"] /\ UNCHANGED turn
  /\ UNCHANGED <<client, socket, cb, subs, pending, delivering, news>>

(* Variants: handlers that are not waited for; a missing Unlock.           *)
EndDeliveryEarly ==
  /\ delivering
  /\ delivering' = FALSE
  /\ UNCHANGED <<client, socket, mx, cb, subs, pending, turn, news>>

EndDeliveryLocked ==
  /\ delivering
  /\ turn = <<>>
  /\ UNCHANGED vars

EndDelivery ==
  /\ delivering
  /\ turn = <<>>
  /\ delivering' = FALSE
  /\ UNCHANGED <<client, socket, mx, cb, subs, pending, turn, news>>

(* A write ends. To a page that is gone it may succeed or fail.            *)
Written(u, who) ==
  /\ mx[u] = who
  /\ mx' = [mx EXCEPT ![u] = "free"]
  /\ turn' = IF who = "broker" THEN Tail(turn) ELSE turn
  /\ UNCHANGED <<client, socket, cb, subs, pending, delivering, news>>

(* Variant: the failed write unlocks and dispatches the close itself.      *)
WriteFailsAndCloses(u, who) ==
  /\ mx[u] = who
  /\ peer[u] = "gone"
  /\ closed' = [closed EXCEPT ![u] = TRUE]
  /\ mx' = [mx EXCEPT ![u] = "free"]
  /\ turn' = IF who = "broker" THEN Tail(turn) ELSE turn
  /\ cb' = [cb EXCEPT ![u]["close"] = "store"]
  /\ UNCHANGED <<client, peer, phase, subs, pending, delivering, news>>

(* When it fails, Emit calls Close, whose onMessage waits for the mutex    *)
(* Emit holds: for ever, and with the broker's lock if the broker called.  *)
WriteFails(u, who) ==
  /\ mx[u] = who
  /\ peer[u] = "gone"
  /\ closed' = [closed EXCEPT ![u] = TRUE]
  /\ mx' = [mx EXCEPT ![u] = "stuck"]
  /\ UNCHANGED <<client, peer, phase, cb, broker>>

(* Output of a terminal, or its status, is written by Emit too.            *)
Output(u) ==
  /\ phase[u] \in {"subscribe", "read", "close", "over"}
  /\ Free(u)
  /\ ~closed[u]
  /\ mx' = [mx EXCEPT ![u] = "output"]
  /\ UNCHANGED <<client, socket, cb, broker>>
-----------------------------------------------------------------------------
(* Around the sockets.                                                     *)

PageLeaves(u) ==
  /\ peer[u] = "there"
  /\ peer' = [peer EXCEPT ![u] = "gone"]
  /\ UNCHANGED <<client, phase, closed, mx, cb, broker>>

(* An event of the session is emitted.                                     *)
News == /\ news < MaxNews
        /\ news' = news + 1
        /\ pending' = pending + 1

(* An instance, its statistics, the timer.                                 *)
InstanceNews ==
  /\ News
  /\ UNCHANGED <<client, socket, mx, cb, subs, delivering, turn>>

(* SessionDelete takes the session's clients with it.                      *)
SessionEnds ==
  /\ News
  /\ live
  /\ live' = FALSE
  /\ stored' = {}
  /\ UNCHANGED <<socket, mx, cb, subs, delivering, turn>>

Writers == {"broker", "output"}

Join(u) == ClientNew(u) \/ Listen(u) \/ Subscribe(u)
Close(u) == ReadFails(u) \/ CloseDispatch(u)
Callback(u) == \/ \E k \in Callbacks : Store(u, k) \/ Notify(u, k)
               \/ ClientClose(u)
EndWrite(u) == \E who \in Writers : Written(u, who) \/ WriteFails(u, who)
Deliver == StartDelivery \/ EndDelivery

Next ==
  \/ \E u \in Clients :
       \/ Connect(u) \/ Join(u) \/ Close(u) \/ Callback(u)
       \/ EndWrite(u) \/ Output(u) \/ PageLeaves(u)
       \/ \E k \in Resizes : ReadMessage(u, k) \/ Dispatch(u, k)
  \/ Deliver \/ Call \/ InstanceNews \/ SessionEnds

Spec == Init /\ [][Next]_vars

(* Goroutines run, storage and Docker answer, and a write ends: the page   *)
(* reads, or the connection breaks. Go's mutexes are handed to who has     *)
(* waited long, so who waits for one that is free again and again gets it. *)
(* Nothing obliges a page to come, to go or to send.                       *)
Fairness ==
  /\ WF_vars(Deliver) /\ SF_vars(Call)
  /\ \A u \in Clients : /\ SF_vars(Join(u)) /\ SF_vars(Close(u))
                        /\ WF_vars(Callback(u)) /\ WF_vars(EndWrite(u))
                        /\ SF_vars(\E k \in Resizes : Dispatch(u, k))

FairSpec == Spec /\ Fairness
-----------------------------------------------------------------------------
(* Properties.                                                             *)

Phases == {"off", "client", "listen", "subscribe", "read", "close", "over"}

TypeOK ==
  /\ live \in BOOLEAN /\ stored \subseteq Clients
  /\ peer \in [Clients -> {"none", "there", "gone"}]
  /\ phase \in [Clients -> Phases]
  /\ closed \in [Clients -> BOOLEAN]
  /\ mx \in [Clients -> Writers \cup {"free", "stuck"}]
  /\ cb \in [Clients -> [Callbacks -> {"none", "sent", "store", "notify", "done"}]]
  /\ subs \in Seq(Clients) /\ turn \in Seq(Clients)
  /\ pending \in Nat /\ delivering \in BOOLEAN /\ news \in 0..MaxNews

(* A client whose socket is being read counts for the viewport as long as  *)
(* its session is stored, whatever the callbacks of its own and of other   *)
(* sockets do: only the close of that very socket takes it out.            *)
OpenIsCounted ==
  live => \A u \in Clients : phase[u] \in {"listen", "subscribe", "read"} => u \in stored

(* One event is delivered to one socket at a time: whoever writes for the  *)
(* broker is the socket whose turn it is, and the lock is held meanwhile.  *)
BrokerWritesInTurn ==
  \A u \in Clients : mx[u] = "broker" => delivering /\ turn # <<>> /\ Head(turn) = u

Stuck == \E u \in Clients : mx[u] = "stuck"

(* The broker comes to the end of every event, however sockets join, leave *)
(* and are written to by others, unless a write has failed. That exception *)
(* is real: Emit then waits for its own mutex with the broker's lock held. *)
EventsDelivered == pending > 0 ~> Stuck \/ (pending = 0 /\ ~delivering)

(* A page that goes, at whatever point of its joining, is one day taken    *)
(* out of the storage and the sizes are computed again, with the same      *)
(* exception. (It does not stay out: see DisconnectedIsRemoved.)           *)
Leaving(u) == peer[u] = "gone" /\ cb[u]["close"] # "done"

LeaversAreDropped ==
  (\E u \in Clients : Leaving(u)) ~> Stuck \/ (\A u \in Clients : ~Leaving(u))

Quiet == /\ pending = 0 /\ ~delivering
         /\ \A u \in Clients : /\ phase[u] \in {"off", "read", "over"}
                               /\ peer[u] = "gone" => phase[u] = "over"
                               /\ \A k \in Callbacks : cb[u][k] \in {"none", "done"}

(* pwd/client.go: "Client has disconnected. Remove from session and        *)
(* recheck terminal sizes.": when everything has settled no client is      *)
(* stored whose socket is over.                                            *)
DisconnectedIsRemoved == Quiet => \A u \in Clients : phase[u] = "over" => u \notin stored
=============================================================================
