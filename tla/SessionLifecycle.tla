-------------------------- MODULE SessionLifecycle --------------------------
(***************************************************************************)
(* The session core (pwd/session.go, pwd/instance.go) with the overlay and *)
(* DinD provisioners it drives, the Docker daemon as far as they use it,   *)
(* and the HTTP handlers that start each operation.                        *)
(*                                                                         *)
(* A worker is one goroutine: an HTTP request or, for a session id, that   *)
(* session's expiry goroutine (module Scheduler). Each of its steps is one *)
(* call to the storage, which is atomic (module Storage), or to the Docker *)
(* daemon; steps of different workers interleave.                          *)
(***************************************************************************)
EXTENDS Naturals, FiniteSets

CONSTANTS Requests,    \* goroutines that serve HTTP requests
          Sessions,    \* session ids the generator will hand out
          Containers,  \* container names the generator will hand out
          SessionOf,   \* the session whose id a container name starts with
          Stacked,     \* sessions created with a stack to deploy
          MaxFaults,   \* bound: Docker calls or saves that fail
          None

ASSUME LifecycleAssumption ==
  /\ SessionOf \in [Containers -> Sessions]
  /\ Stacked \subseteq Sessions
  /\ Requests \cap Sessions = {}
  /\ MaxFaults \in Nat
  /\ None \notin Sessions \cup Containers

Workers == Requests \cup Sessions

VARIABLES
  sessions,   \* stored session ids
  rows,       \* stored instances
  ready,      \* sessions whose shared Session.Ready is set
  networks,   \* Docker: overlay networks, named by session id
  l2,         \* Docker: networks the L2 router is attached to
  running,    \* Docker: running containers, attached to their network
  created,    \* session ids handed out by the generator
  minted,     \* container names handed out by the generator
  announced,  \* sessions whose SessionNew has returned without error
  ended,      \* sessions whose record a SessionClose has deleted
  events,     \* emitted events whose goroutine has not delivered them
  job,        \* what each worker is doing
  faults,     \* calls that have failed so far
  unsaved     \* the last save failed: the file is not what is in memory

store  == <<sessions, rows, ready>>
docker == <<networks, l2, running>>
names  == <<created, minted, announced, ended>>
calls  == <<faults, unsaved>>
vars   == <<store, docker, names, events, job, calls>>

Idle == [op |-> "none", pc |-> "idle", s |-> None, c |-> None,
         todo |-> {}, done |-> {}, bad |-> FALSE]

Init == /\ sessions = {} /\ rows = {} /\ ready = {}
        /\ networks = {} /\ l2 = {} /\ running = {}
        /\ created = {} /\ minted = {} /\ announced = {} /\ ended = {}
        /\ events = {}
        /\ job = [w \in Workers |-> Idle]
        /\ faults = 0 /\ unsaved = FALSE

RowsOf(s) == {c \in rows : SessionOf[c] = s}
RunningIn(s) == {c \in running : SessionOf[c] = s}

At(w, pc) == job[w].pc = pc
Goto(w, pc) == job' = [job EXCEPT ![w].pc = pc]

(* Returning, an expiry goroutine still has a deferred call to make.       *)
Return(w) ==
  job' = [job EXCEPT ![w] = IF w \in Sessions THEN [Idle EXCEPT !.pc = "leaving"]
                                              ELSE Idle]
Begin(w, op, pc, s) ==
  job' = [job EXCEPT ![w] = [Idle EXCEPT !.op = op, !.pc = pc, !.s = s]]

(* A call to Docker that works or fails; a save that does.                 *)
Ok        == UNCHANGED calls
Fault     == faults < MaxFaults /\ faults' = faults + 1 /\ UNCHANGED unsaved
Saved     == unsaved' = FALSE /\ UNCHANGED faults
SaveFault == faults < MaxFaults /\ faults' = faults + 1 /\ unsaved' = TRUE

(* broker.Emit starts a goroutine per event; nothing orders them.          *)
(* (Pending events that are equal are one: handling one twice changes      *)
(* nothing more.)                                                          *)
Event(type, s, c) == [type |-> type, s |-> s, c |-> c]
Emit(type, s, c) == events' = events \cup {Event(type, s, c)}
-----------------------------------------------------------------------------
(* SessionNew.                                                             *)

(* The id is drawn and GetForSession answers. (When it does not, the       *)
(* request ends "out of capacity" with nothing done.)                      *)
SessionNew(w, s) ==
  /\ At(w, "idle")
  /\ s \notin created
  /\ created' = created \cup {s}
  /\ ready' = IF s \in Stacked THEN ready ELSE ready \cup {s}
  /\ Begin(w, "new", "network", s)
  /\ UNCHANGED <<sessions, rows, docker, minted, announced, ended, events, calls>>

NetworkCreate(w) ==
  LET s == job[w].s IN
  /\ At(w, "network")
  /\ \/ Ok /\ networks' = networks \cup {s} /\ Goto(w, "connect")
     \/ Fault /\ Return(w) /\ UNCHANGED networks
  /\ UNCHANGED <<store, l2, running, names, events>>

(* NetworkConnect also inspects the router for its address: it can fail    *)
(* before or after the router is attached. The network stays.              *)
NetworkConnect(w) ==
  LET s == job[w].s IN
  /\ At(w, "connect")
  /\ \/ Ok /\ l2' = l2 \cup {s} /\ Goto(w, "sessionput")
     \/ Fault /\ l2' \in {l2, l2 \cup {s}} /\ Return(w)
  /\ UNCHANGED <<store, networks, running, names, events>>

(* A save that fails has changed memory all the same.                      *)
SessionPut(w) ==
  /\ At(w, "sessionput")
  /\ sessions' = sessions \cup {job[w].s}
  /\ \/ Saved /\ Goto(w, "create")
     \/ SaveFault /\ Return(w)
  /\ UNCHANGED <<rows, ready, docker, names, events>>

(* What an error of InstanceNew leads to: SessionNew takes its session     *)
(* down again, NewInstance answers with an error.                          *)
InstanceFailed(w) == IF job[w].op = "new" THEN Goto(w, "undo") ELSE Return(w)

AnnounceSilently(w) ==
  /\ At(w, "announce")
  /\ announced' = announced \cup {job[w].s}
  /\ Return(w)
  /\ UNCHANGED <<store, docker, events, created, minted, ended, calls>>

Announce(w) ==
  LET s == job[w].s IN
  /\ At(w, "announce")
  /\ announced' = announced \cup {s}
  /\ Emit("SESSION_NEW", s, None)
  /\ Return(w)
  /\ UNCHANGED <<store, docker, created, minted, ended, calls>>

(* Cleaning up after a failed InstanceNew ignores every error.             *)
UndoDisconnect(w) ==
  LET s == job[w].s IN
  /\ At(w, "undo")
  /\ \/ Ok /\ l2' = l2 \ {s} /\ Goto(w, "undonet")
     \/ Fault /\ Goto(w, "undosess") /\ UNCHANGED l2
  /\ UNCHANGED <<store, networks, running, names, events>>

UndoNetwork(w) ==
  LET s == job[w].s IN
  /\ At(w, "undonet")
  /\ Goto(w, "undosess")
  /\ \/ Ok /\ networks' = IF RunningIn(s) = {} THEN networks \ {s} ELSE networks
     \/ Fault /\ UNCHANGED networks
  /\ UNCHANGED <<store, l2, running, names, events>>

UndoSession(w) ==
  LET s == job[w].s IN
  /\ At(w, "undosess")
  /\ sessions' = sessions \ {s}
  /\ rows' = rows \ RowsOf(s)
  /\ Saved \/ SaveFault
  /\ Return(w)
  /\ UNCHANGED <<ready, docker, names, events>>
-----------------------------------------------------------------------------
(* InstanceNew, for SessionNew ("new") and for POST .../instances ("add"). *)

(* Bound: a request is let in while there is a name for its container.     *)
NamesLeft(s) ==
  Cardinality({w \in Requests : At(w, "check") \/ At(w, "create")})
    < Cardinality({c \in Containers \ minted : SessionOf[c] = s})

(* The handler has found the session.                                      *)
NewInstance(w, s) ==
  /\ At(w, "idle")
  /\ s \in announced \cap sessions
  /\ NamesLeft(s)
  /\ Begin(w, "add", "check", s)
  /\ UNCHANGED <<store, docker, names, events, calls>>

(* 409 when the session has an instance already.                           *)
CheckEmpty(w) ==
  /\ At(w, "check")
  /\ IF RowsOf(job[w].s) # {} THEN Return(w) ELSE Goto(w, "create")
  /\ UNCHANGED <<store, docker, names, events, calls>>

(* Without its network a container is not started. (What a create that     *)
(* fails midway leaves, never started, nothing looks at again.)            *)
ContainerCreate(w, c) ==
  LET s == job[w].s IN
  /\ At(w, "create")
  /\ SessionOf[c] = s
  /\ c \notin minted
  /\ minted' = minted \cup {c}
  /\ \/ /\ s \in networks
        /\ Ok
        /\ running' = running \cup {c}
        /\ job' = [job EXCEPT ![w].pc = "ips", ![w].c = c]
     \/ /\ IF s \in networks THEN Fault ELSE Ok
        /\ InstanceFailed(w)
        /\ UNCHANGED running
  /\ UNCHANGED <<store, networks, l2, created, announced, ended, events>>

ContainerIPs(w) ==
  /\ At(w, "ips")
  /\ \/ Ok /\ job[w].c \in running /\ Goto(w, "instanceput")
     \/ (IF job[w].c \in running THEN Fault ELSE Ok) /\ InstanceFailed(w)
  /\ UNCHANGED <<store, docker, names, events>>

(* storage.InstancePut, and the event that follows it at once.             *)
InstancePut(w) ==
  LET s == job[w].s
      c == job[w].c IN
  /\ At(w, "instanceput")
  /\ \/ /\ s \in sessions
        /\ Saved
        /\ rows' = rows \cup {c}
        /\ Emit("INSTANCE_NEW", s, c)
        /\ IF job[w].op = "new" THEN Goto(w, "announce") ELSE Return(w)
     \/ /\ s \in sessions
        /\ SaveFault
        /\ rows' = rows \cup {c}
        /\ InstanceFailed(w)
        /\ UNCHANGED events
     \/ /\ s \notin sessions
        /\ Ok
        /\ InstanceFailed(w)
        /\ UNCHANGED <<rows, events>>
  /\ UNCHANGED <<sessions, ready, docker, names>>
-----------------------------------------------------------------------------
(* SessionClose, for DELETE .../sessions/{id} and for an expired session.  *)

StartClose(w, s) ==
  /\ At(w, "idle")
  /\ s \in announced \cap sessions
  /\ Begin(w, "close", "find", s)
  /\ UNCHANGED <<store, docker, names, events, calls>>

FindInstances(w) ==
  /\ At(w, "find")
  /\ job' = [job EXCEPT ![w].pc = "kill", ![w].todo = RowsOf(job[w].s)]
  /\ UNCHANGED <<store, docker, names, events, calls>>

(* A removal without Force, whose refusal is mistaken for success.         *)
KillContainerGently(w, c) ==
  /\ At(w, "kill")
  /\ c \in job[w].todo
  /\ job' = [job EXCEPT ![w].todo = @ \ {c}, ![w].done = @ \cup {c}]
  /\ UNCHANGED <<store, docker, names, events, calls>>

(* InstanceDelete of c, one goroutine per instance. A container that is    *)
(* already gone is no error.                                               *)
KillContainer(w, c) ==
  /\ At(w, "kill")
  /\ c \in job[w].todo
  /\ \/ /\ Ok
        /\ running' = running \ {c}
        /\ job' = [job EXCEPT ![w].todo = @ \ {c}, ![w].done = @ \cup {c}]
     \/ /\ Fault
        /\ job' = [job EXCEPT ![w].todo = @ \ {c}, ![w].bad = TRUE]
        /\ UNCHANGED running
  /\ UNCHANGED <<store, networks, l2, names, events>>

(* Deleting a row that is not there writes nothing, so it cannot fail; it  *)
(* is announced like any other.                                            *)
DeleteRow(w, c) ==
  /\ At(w, "kill")
  /\ c \in job[w].done
  /\ rows' = rows \ {c}
  /\ \/ /\ IF c \in rows THEN Saved ELSE Ok
        /\ Emit("INSTANCE_DELETE", job[w].s, c)
        /\ job' = [job EXCEPT ![w].done = @ \ {c}]
     \/ /\ c \in rows
        /\ SaveFault
        /\ job' = [job EXCEPT ![w].done = @ \ {c}, ![w].bad = TRUE]
        /\ UNCHANGED events
  /\ UNCHANGED <<sessions, ready, docker, names>>

(* The goroutines have ended: DeleteInstance is done, SessionClose goes on *)
(* if none of them failed.                                                 *)
Waited(w) ==
  /\ At(w, "kill")
  /\ job[w].todo = {} /\ job[w].done = {}
  /\ IF job[w].op = "remove" \/ job[w].bad THEN Return(w) ELSE Goto(w, "disconnect")
  /\ UNCHANGED <<store, docker, names, events, calls>>

(* Not being attached is tolerated; a network that is not found is not.    *)
Disconnect(w) ==
  LET s == job[w].s IN
  /\ At(w, "disconnect")
  /\ \/ /\ s \in networks
        /\ Ok
        /\ l2' = l2 \ {s}
        /\ Goto(w, "netdel")
     \/ /\ IF s \in networks THEN Fault ELSE Ok
        /\ Return(w)
        /\ UNCHANGED l2
  /\ UNCHANGED <<store, networks, running, names, events>>

(* Every error of the deletion is tolerated, not only "not found".         *)
NetworkDeleteTolerant(w) ==
  LET s == job[w].s IN
  /\ At(w, "netdel")
  /\ Goto(w, "sessdel")
  /\ networks' = IF RunningIn(s) = {} THEN networks \ {s} ELSE networks
  /\ UNCHANGED <<store, l2, running, names, events, calls>>

(* Docker refuses to delete a network a container is attached to; here a   *)
(* network that is not found is tolerated.                                 *)
NetworkDelete(w) ==
  LET s == job[w].s IN
  /\ At(w, "netdel")
  /\ \/ /\ RunningIn(s) = {}
        /\ Ok
        /\ networks' = networks \ {s}
        /\ Goto(w, "sessdel")
     \/ /\ IF RunningIn(s) = {} THEN Fault ELSE Ok
        /\ Return(w)
        /\ UNCHANGED networks
  /\ UNCHANGED <<store, l2, running, names, events>>

SessionDelete(w) ==
  LET s == job[w].s IN
  /\ At(w, "sessdel")
  /\ sessions' = sessions \ {s}
  /\ rows' = rows \ RowsOf(s)
  /\ ended' = ended \cup {s}
  /\ \/ /\ IF s \in sessions THEN Saved ELSE Ok
        /\ Emit("SESSION_END", s, None)
     \/ /\ s \in sessions
        /\ SaveFault
        /\ UNCHANGED events
  /\ Return(w)
  /\ UNCHANGED <<ready, docker, created, minted, announced>>
-----------------------------------------------------------------------------
(* DELETE .../sessions/{id}/instances/{name}: any session will do, as the  *)
(* instance is found by its name alone.                                    *)
DeleteInstance(w, s, c) ==
  /\ At(w, "idle")
  /\ s \in announced \cap sessions
  /\ c \in rows
  /\ job' = [job EXCEPT ![w] =
               [Idle EXCEPT !.op = "remove", !.pc = "kill", !.s = s, !.todo = {c}]]
  /\ UNCHANGED <<store, docker, names, events, calls>>

(* SessionDeployStack, started by every load of the session's home page.   *)
DeployStack(w, s) ==
  /\ At(w, "idle")
  /\ s \in announced \cap sessions \cap Stacked
  /\ s \notin ready
  /\ Begin(w, "stack", "single", s)
  /\ UNCHANGED <<store, docker, names, events, calls>>

InstanceGetSingle(w) ==
  /\ At(w, "single")
  /\ \/ \E c \in RowsOf(job[w].s) :
          job' = [job EXCEPT ![w].pc = "exec", ![w].c = c]
     \/ RowsOf(job[w].s) = {} /\ Return(w)
  /\ UNCHANGED <<store, docker, names, events, calls>>

(* Uploading the file and running it take a running container.             *)
ExecAttach(w) ==
  /\ At(w, "exec")
  /\ \/ /\ job[w].c \in running
        /\ Ok
        /\ ready' = ready \cup {job[w].s}
        /\ Goto(w, "readyput")
     \/ /\ IF job[w].c \in running THEN Fault ELSE Ok
        /\ Return(w)
        /\ UNCHANGED ready
  /\ UNCHANGED <<sessions, rows, docker, names, events>>

(* Stores the session it was given, whether or not it has been deleted in  *)
(* the meantime.                                                           *)
ReadyPut(w) ==
  /\ At(w, "readyput")
  /\ sessions' = sessions \cup {job[w].s}
  /\ Saved \/ SaveFault
  /\ Return(w)
  /\ UNCHANGED <<rows, ready, docker, names, events>>

(* A container ends by itself; Docker removes it (AutoRemove).             *)
ContainerExits(c) ==
  /\ c \in running
  /\ running' = running \ {c}
  /\ UNCHANGED <<store, networks, l2, names, events, job, calls>>
-----------------------------------------------------------------------------
(* A request arrives, or a goroutine goes on.                              *)
Arrive(w) == \E s \in Sessions : \/ SessionNew(w, s) \/ NewInstance(w, s)
                                 \/ StartClose(w, s) \/ DeployStack(w, s)
                                 \/ \E c \in Containers : DeleteInstance(w, s, c)

Proceed(w) ==
  \/ NetworkCreate(w) \/ NetworkConnect(w) \/ SessionPut(w) \/ Announce(w)
  \/ UndoDisconnect(w) \/ UndoNetwork(w) \/ UndoSession(w)
  \/ CheckEmpty(w) \/ ContainerIPs(w) \/ InstancePut(w)
  \/ FindInstances(w) \/ Waited(w)
  \/ Disconnect(w) \/ NetworkDelete(w) \/ SessionDelete(w)
  \/ InstanceGetSingle(w) \/ ExecAttach(w) \/ ReadyPut(w)
  \/ \E c \in Containers : \/ ContainerCreate(w, c)
                            \/ KillContainer(w, c) \/ DeleteRow(w, c)
-----------------------------------------------------------------------------
(* Properties.                                                             *)

Ops == {"none", "new", "add", "close", "remove", "stack"}

RequestPcs == {"idle", "network", "connect", "sessionput", "announce", "undo",
               "undonet", "undosess", "check", "create", "ips", "instanceput",
               "find", "kill", "disconnect", "netdel", "sessdel",
               "single", "exec", "readyput"}

(* An expiry goroutine waits, closes its session, and leaves.              *)
WatcherPcs == {"idle", "waiting", "find", "kill", "disconnect", "netdel", "sessdel",
               "leaving"}

Job(pcs) == [op : Ops, pc : pcs, s : Sessions \cup {None}, c : Containers \cup {None},
             todo : SUBSET Containers, done : SUBSET Containers, bad : BOOLEAN]

Events == [type : {"SESSION_NEW", "SESSION_END"}, s : Sessions, c : {None}]
            \cup [type : {"INSTANCE_NEW", "INSTANCE_DELETE"}, s : Sessions, c : Containers]

LifecycleTypeOK ==
  /\ sessions \subseteq created
  /\ rows \subseteq minted /\ running \subseteq minted
  /\ ready \subseteq Sessions
  /\ networks \subseteq created /\ l2 \subseteq created
  /\ created \subseteq Sessions /\ minted \subseteq Containers
  /\ announced \subseteq created /\ ended \subseteq created
  /\ events \subseteq Events
  /\ DOMAIN job = Workers
  /\ \A w \in Requests : job[w] \in Job(RequestPcs)
  /\ \A s \in Sessions : job[s] \in Job(WatcherPcs)
  /\ faults \in 0..MaxFaults
  /\ unsaved \in BOOLEAN

(* The goroutine that started container c and has not stored it yet.       *)
InHand(c) == \E w \in Requests : /\ job[w].c = c
                                /\ job[w].pc \in {"ips", "instanceput"}

(* As long as no call has failed, every container that runs is in the      *)
(* storage or in the hands of the InstanceNew that started it: concurrent  *)
(* SessionClose, InstanceDelete and InstanceNew of one session lose none.  *)
NoLostContainer == faults = 0 => \A c \in running : c \in rows \/ InHand(c)

(* The record of what runs goes last. SessionClose and InstanceDelete drop *)
(* a row only when its container is gone, and a session only when its      *)
(* network is, whatever fails on the way and whoever else is at work.      *)
DropsRecordsLast ==
  /\ \A s \in announced : s \in sessions /\ s \notin sessions' => s \notin networks
  /\ \A c \in rows \ rows' : SessionOf[c] \in announced => c \notin running

ForgetsLast == [][DropsRecordsLast]_vars
=============================================================================
