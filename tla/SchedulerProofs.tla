-------------------------- MODULE SchedulerProofs --------------------------
(***************************************************************************)
(* Types, ForgetsLast, StoredIsWatched, NoGhosts and ContainersAreKnown of *)
(* the whole server, for any number of requests, sessions, containers,     *)
(* failing calls and restarts.                                             *)
(*                                                                         *)
(* A session is forgotten by SessionDelete, at the end of SessionClose, or *)
(* by a SessionNew that undoes itself. The first comes after the deletion  *)
(* of the network, and nobody makes that network again: only the           *)
(* SessionNew that drew the id does, and while it runs the session is not  *)
(* announced and nobody else works on it (Alone). The network, in turn, is *)
(* not deleted under a running container (Attached), and a row is deleted  *)
(* only by an InstanceDelete that has removed the container (done).        *)
(***************************************************************************)
EXTENDS Scheduler, TLAPS

JobTypes == /\ DOMAIN job = Workers
            /\ \A w \in Requests : job[w] \in Job(RequestPcs)
            /\ \A s \in Sessions : job[s] \in Job(WatcherPcs)

(* TypeOK without job.                                                     *)
StateTypes ==
  /\ sessions \subseteq created
  /\ rows \subseteq minted /\ running \subseteq minted
  /\ ready \subseteq Sessions
  /\ networks \subseteq created /\ l2 \subseteq created
  /\ created \subseteq Sessions /\ minted \subseteq Containers
  /\ announced \subseteq created /\ ended \subseteq created
  /\ events \subseteq Events
  /\ faults \in 0..MaxFaults
  /\ unsaved \in BOOLEAN
  /\ toSchedule \subseteq Sessions /\ reading \in Sessions \cup {None}
  /\ readRows \subseteq Containers /\ listening \in BOOLEAN
  /\ handling \in Events \cup {None}
  /\ scheduledSessions \subseteq Sessions /\ scheduledInstances \subseteq Containers
  /\ expired \subseteq Sessions
  /\ crashes \in 0..MaxCrashes

NewPcs == {"network", "connect", "sessionput", "announce", "undo", "undonet", "undosess"}

(* What a worker w whose job is j holds and has behind it.                 *)
Fits(w, j) ==
  /\ j.s \in created \cup {None}
  /\ j.pc \notin {"idle", "leaving"} => j.s \in created
  /\ j.pc \in NewPcs => j.op = "new"
  /\ j.pc \in {"ips", "instanceput"} => j.c \in minted
  /\ j.todo \subseteq minted /\ j.done \subseteq minted
  /\ j.done \cap running = {}
  /\ j.pc = "sessdel" => j.s \notin networks
  /\ j.op = "new" => w \in Requests /\ j.s \in created \ announced /\ listening
  /\ w \in Sessions => j.s \in {w, None}

Jobs == \A w \in Workers : Fits(w, job[w])

(* Nobody else works on the session a SessionNew is making.                *)
Alone == \A w \in Workers, v \in Workers :
           job[w].op = "new" /\ v # w => job[v].s # job[w].s

JobPart == JobTypes /\ Jobs /\ Alone

Attached == \A c \in running : SessionOf[c] \in networks

(* Events and Start name sessions that were given out.                     *)
News == /\ \A e \in events : /\ e.s \in created
                             /\ e.type = "SESSION_NEW" => e.s \in announced
        /\ handling # None => /\ handling.s \in created
                              /\ handling.type \in {"SESSION_NEW", "INSTANCE_NEW"}
        /\ handling # None /\ handling.type = "SESSION_NEW" => handling.s \in announced
        /\ listening => toSchedule = {}
        /\ toSchedule \subseteq created

IInv == StateTypes /\ JobPart /\ Attached /\ News
-----------------------------------------------------------------------------
(* The initial state satisfies the invariant.                              *)
LEMMA InitIInv == SchedInit => IInv
<1> SUFFICES ASSUME SchedInit PROVE IInv
  OBVIOUS
<1> USE LifecycleAssumption, SchedulerAssumption DEF SchedInit, Init
<1>1. Idle \in Job(RequestPcs) /\ Idle \in Job(WatcherPcs)
  BY DEF Idle, Job, RequestPcs, WatcherPcs, Ops
<1>2. JobTypes
  BY <1>1 DEF JobTypes, Workers
<1>3. Jobs /\ Alone
  BY DEF Jobs, Alone, Fits, Idle, NewPcs
<1>4. StateTypes
  <2>1. unsaved \in BOOLEAN /\ listening \in BOOLEAN
    OBVIOUS
  <2>2. faults \in 0..MaxFaults /\ crashes \in 0..MaxCrashes
    OBVIOUS
  <2> QED
    BY <2>1, <2>2 DEF StateTypes
<1>5. Attached /\ News
  BY DEF Attached, News
<1> QED
  BY <1>2, <1>3, <1>4, <1>5 DEF IInv, JobPart

(* A step that gives one worker a job of the right type gives every worker *)
(* one.                                                                    *)
LEMMA JobChanged ==
  ASSUME IInv, NEW w \in Workers, NEW j,
         job' = [job EXCEPT ![w] = j],
         w \in Requests => j \in Job(RequestPcs),
         w \in Sessions => j \in Job(WatcherPcs)
  PROVE  /\ job'[w] = j
         /\ \A v \in Workers : v # w => job'[v] = job[v]
         /\ JobTypes'
<1> USE DEF IInv, JobPart
<1>1. /\ job'[w] = j
      /\ \A v \in Workers : v # w => job'[v] = job[v]
      /\ DOMAIN job' = Workers
  BY DEF JobTypes
<1>2. JobTypes'
  BY <1>1 DEF JobTypes, Workers
<1> QED
  BY <1>1, <1>2

(* What steps that make, announce and attach nothing leave alone.          *)
Frame == /\ networks' \subseteq networks /\ running' \subseteq running
         /\ created' = created /\ minted \subseteq minted'
         /\ announced' = announced /\ listening' = listening

(* Such a step that gives one worker a new job disturbs no other worker.   *)
LEMMA Replaced ==
  ASSUME IInv, NEW w \in Workers, NEW j, Frame,
         job' = [job EXCEPT ![w] = j],
         w \in Requests => j \in Job(RequestPcs),
         w \in Sessions => j \in Job(WatcherPcs),
         Fits(w, job[w])',
         j.op = "new" => job[w].op = "new" /\ j.s = job[w].s,
         listening => j.s \in {job[w].s, None} \cup announced
  PROVE  JobPart'
<1> USE DEF IInv, JobPart
<1>1. /\ job'[w] = j
      /\ \A v \in Workers : v # w => job'[v] = job[v]
      /\ JobTypes'
  BY JobChanged
<1>3. ASSUME NEW v \in Workers, v # w PROVE Fits(v, job[v])'
  <2>1. job'[v] = job[v] /\ Fits(v, job[v])
    BY <1>1, <1>3 DEF Jobs
  <2> QED
    BY <2>1 DEF Fits, Frame
<1>4. Jobs'
  BY <1>1, <1>3 DEF Jobs
<1>5. Alone'
  <2> SUFFICES ASSUME NEW v \in Workers, NEW u \in Workers,
                      job'[v].op = "new", u # v
               PROVE  job'[u].s # job'[v].s
    BY DEF Alone
  <2>1. /\ job[v].op = "new"
        /\ job'[v].s = job[v].s
    BY <1>1
  <2>2. job[v].s \in created \ announced /\ listening
    BY <2>1 DEF Jobs, Fits
  <2>3. job[v].s # None
    BY <2>2, LifecycleAssumption DEF StateTypes
  <2>4. job[u].s # job[v].s
    BY <2>1 DEF Alone
  <2>5. job'[u].s \in {job[u].s, None} \cup announced
    BY <1>1, <2>2
  <2> QED
    BY <2>1, <2>2, <2>3, <2>4, <2>5
<1> QED
  BY <1>1, <1>4, <1>5

(* A job is a record; the fields of one that is changed in one field.      *)
LEMMA MovedRecord ==
  ASSUME NEW P, NEW Q, NEW j \in Job(P), NEW p \in Q
  PROVE  /\ [j EXCEPT !.pc = p] \in Job(Q)
         /\ [j EXCEPT !.pc = p].pc = p
         /\ [j EXCEPT !.pc = p].op = j.op
         /\ [j EXCEPT !.pc = p].s = j.s
         /\ [j EXCEPT !.pc = p].c = j.c
         /\ [j EXCEPT !.pc = p].todo = j.todo
         /\ [j EXCEPT !.pc = p].done = j.done
BY DEF Job

(* A worker that goes on keeps what it holds.                              *)
LEMMA GoneOn ==
  ASSUME IInv, NEW w \in Workers, NEW p, Goto(w, p),
         p \in RequestPcs, w \in Sessions => p \in WatcherPcs
  PROVE  /\ JobTypes'
         /\ \A v \in Workers : v # w => job'[v] = job[v]
         /\ job' = [job EXCEPT ![w] = job'[w]]
         /\ w \in Requests => job'[w] \in Job(RequestPcs)
         /\ w \in Sessions => job'[w] \in Job(WatcherPcs)
         /\ job'[w].pc = p /\ job'[w].op = job[w].op
         /\ job'[w].s = job[w].s /\ job'[w].c = job[w].c
         /\ job'[w].todo = job[w].todo /\ job'[w].done = job[w].done
<1> DEFINE j == [job[w] EXCEPT !.pc = p]
<1>1. job' = [job EXCEPT ![w] = j]
  BY DEF Goto
<1>2. /\ w \in Requests => job[w] \in Job(RequestPcs)
      /\ w \in Sessions => job[w] \in Job(WatcherPcs)
  BY DEF IInv, JobPart, JobTypes
<1>3. /\ w \in Requests => j \in Job(RequestPcs)
      /\ w \in Sessions => j \in Job(WatcherPcs)
      /\ j.pc = p /\ j.op = job[w].op /\ j.s = job[w].s /\ j.c = job[w].c
      /\ j.todo = job[w].todo /\ j.done = job[w].done
  BY <1>2, MovedRecord DEF Workers
<1> HIDE DEF j
<1>4. /\ job'[w] = j
      /\ \A v \in Workers : v # w => job'[v] = job[v]
      /\ JobTypes'
  BY <1>1, <1>3, JobChanged
<1> QED
  BY <1>1, <1>3, <1>4

(* Going on to another place keeps the worker's invariant if what that     *)
(* place promises holds.                                                   *)
LEMMA Moved ==
  ASSUME IInv, NEW w \in Workers, NEW p, Frame, Goto(w, p),
         job[w].pc \notin {"idle", "leaving"},
         p \in RequestPcs, w \in Sessions => p \in WatcherPcs,
         p \in NewPcs => job[w].op = "new",
         p \in {"ips", "instanceput"} => job[w].c \in minted,
         p = "sessdel" => job[w].s \notin networks'
  PROVE  JobPart'
<1> DEFINE j == job'[w]
<1>1. /\ job' = [job EXCEPT ![w] = j]
      /\ w \in Requests => j \in Job(RequestPcs)
      /\ w \in Sessions => j \in Job(WatcherPcs)
      /\ j.pc = p /\ j.op = job[w].op /\ j.s = job[w].s /\ j.c = job[w].c
      /\ j.todo = job[w].todo /\ j.done = job[w].done
  BY GoneOn
<1>2. Fits(w, job[w])
  BY DEF IInv, JobPart, Jobs
<1>3. Fits(w, job[w])'
  BY <1>1, <1>2 DEF Fits, Frame
<1> HIDE DEF j
<1> QED
  BY <1>1, <1>3, Replaced

(* A worker that returns holds nothing any more.                           *)
LEMMA Left ==
  ASSUME IInv, NEW w \in Workers, Frame, Return(w)
  PROVE  JobPart'
<1> DEFINE j == IF w \in Sessions THEN [Idle EXCEPT !.pc = "leaving"] ELSE Idle
<1>1. job' = [job EXCEPT ![w] = j]
  BY DEF Return
<1>2. /\ w \in Requests => j \in Job(RequestPcs)
      /\ w \in Sessions => j \in Job(WatcherPcs)
      /\ j.pc \in {"idle", "leaving"} /\ j.op = "none" /\ j.s = None
      /\ j.todo = {} /\ j.done = {}
  BY LifecycleAssumption DEF Idle, Job, RequestPcs, WatcherPcs, Ops
<1> HIDE DEF j
<1>3. job'[w] = j
  BY <1>1 DEF IInv, JobPart, JobTypes
<1>4. Fits(w, job[w])'
  BY <1>2, <1>3 DEF Fits, NewPcs
<1> QED
  BY <1>1, <1>2, <1>4, Replaced
(* A worker with something to do works on a session that was given out.    *)
LEMMA Working ==
  ASSUME IInv, NEW w \in Workers, job[w].pc \notin {"idle", "leaving"}
  PROVE  /\ job[w].s \in created /\ job[w].s \in Sessions
         /\ Fits(w, job[w])
         /\ w \in Sessions => job[w].pc \in WatcherPcs
         /\ job[w].c \in Containers \cup {None}
         /\ job[w] \in Job(RequestPcs \cup WatcherPcs)
<1>1. Fits(w, job[w])
  BY DEF IInv, JobPart, Jobs
<1>2. job[w] \in Job(RequestPcs \cup WatcherPcs)
  <2>1. CASE w \in Requests
    BY <2>1 DEF IInv, JobPart, JobTypes, Job
  <2>2. CASE w \in Sessions
    BY <2>2 DEF IInv, JobPart, JobTypes, Job
  <2> QED
    BY <2>1, <2>2 DEF Workers
<1>3. w \in Sessions => job[w].pc \in WatcherPcs
  BY DEF IInv, JobPart, JobTypes, Job
<1>4. job[w].c \in Containers \cup {None}
  BY <1>2 DEF Job
<1>5. job[w].s \in created /\ job[w].s \in Sessions
  BY <1>1 DEF Fits, IInv, StateTypes
<1> QED
  BY <1>1, <1>2, <1>3, <1>4, <1>5

(* A call counts its failure; a save says whether the file is behind.      *)
LEMMA CallTypes ==
  ASSUME IInv, Ok \/ Fault \/ Saved \/ SaveFault
  PROVE  faults' \in 0..MaxFaults /\ unsaved' \in BOOLEAN
<1>1. faults \in 0..MaxFaults /\ unsaved \in BOOLEAN
  BY DEF IInv, StateTypes
<1>2. faults' \in 0..MaxFaults
  BY <1>1, LifecycleAssumption DEF Ok, Fault, Saved, SaveFault, calls
<1>3. CASE Ok \/ Fault
  BY <1>1, <1>2, <1>3 DEF Ok, Fault, calls
<1>4. CASE Saved
  BY <1>2, <1>4 DEF Saved
<1>5. CASE SaveFault
  BY <1>2, <1>5 DEF SaveFault
<1> QED
  BY <1>2, <1>3, <1>4, <1>5

(* What an error of InstanceNew does to the worker's job.                  *)
LEMMA FailedInstance ==
  ASSUME IInv, NEW w \in Workers, Frame, InstanceFailed(w),
         job[w].pc \in {"create", "ips", "instanceput"}
  PROVE  JobPart'
<1>1. w \notin Sessions
  BY Working DEF WatcherPcs
<1>2. CASE job[w].op = "new"
  BY <1>1, <1>2, Moved DEF InstanceFailed, RequestPcs, NewPcs
<1>3. CASE job[w].op # "new"
  BY <1>3, Left DEF InstanceFailed
<1> QED
  BY <1>2, <1>3

(* Attaching the router keeps the invariant.                               *)
LEMMA NetworkConnectIInv ==
  ASSUME IInv, NEW w \in Workers, NetworkConnect(w), UNCHANGED schedVars
  PROVE  IInv'
<1> USE DEF NetworkConnect, At, Ok, Fault, vars, store, docker, names, calls, schedVars, starting, scheduled
<1>1. Frame /\ job[w].pc \notin {"idle", "leaving"}
  BY DEF Frame
<1>2. job[w].s \in created /\ job[w].s \in Sessions
  BY <1>1, Working
<1>3. JobPart'
  BY <1>1, Working, Moved, Left DEF RequestPcs, WatcherPcs, NewPcs, Fits
<1>4. StateTypes'
  BY <1>2, LifecycleAssumption DEF IInv, StateTypes, RowsOf
<1>5. Attached' /\ News'
  BY <1>2 DEF IInv, StateTypes, Attached, News, RunningIn
<1> QED
  BY <1>3, <1>4, <1>5 DEF IInv

(* So does storing the session.                                            *)
LEMMA SessionPutIInv ==
  ASSUME IInv, NEW w \in Workers, SessionPut(w), UNCHANGED schedVars
  PROVE  IInv'
<1> USE DEF SessionPut, At, vars, store, docker, names, calls, schedVars, starting, scheduled
<1>1. Frame /\ job[w].pc \notin {"idle", "leaving"}
  BY DEF Frame
<1>2. job[w].s \in created /\ job[w].s \in Sessions
  BY <1>1, Working
<1>3. JobPart'
  BY <1>1, Working, Moved, Left DEF RequestPcs, WatcherPcs, NewPcs, Fits
<1>4. StateTypes'
  <2>1. faults' \in 0..MaxFaults /\ unsaved' \in BOOLEAN
    BY CallTypes
  <2> QED
    BY <1>2, <2>1, LifecycleAssumption DEF IInv, StateTypes, RowsOf
<1>5. Attached' /\ News'
  BY <1>2 DEF IInv, StateTypes, Attached, News, RunningIn
<1> QED
  BY <1>3, <1>4, <1>5 DEF IInv

(* So do the steps that undo a SessionNew.                                 *)
LEMMA UndoDisconnectIInv ==
  ASSUME IInv, NEW w \in Workers, UndoDisconnect(w), UNCHANGED schedVars
  PROVE  IInv'
<1> USE DEF UndoDisconnect, At, Ok, Fault, vars, store, docker, names, calls, schedVars, starting, scheduled
<1>1. Frame /\ job[w].pc \notin {"idle", "leaving"}
  BY DEF Frame
<1>2. job[w].s \in created /\ job[w].s \in Sessions
  BY <1>1, Working
<1>3. JobPart'
  BY <1>1, Working, Moved, Left DEF RequestPcs, WatcherPcs, NewPcs, Fits
<1>4. StateTypes'
  BY <1>2, LifecycleAssumption DEF IInv, StateTypes, RowsOf
<1>5. Attached' /\ News'
  BY <1>2 DEF IInv, StateTypes, Attached, News, RunningIn
<1> QED
  BY <1>3, <1>4, <1>5 DEF IInv

(* The network goes only when nothing is attached to it.                   *)
LEMMA UndoNetworkIInv ==
  ASSUME IInv, NEW w \in Workers, UndoNetwork(w), UNCHANGED schedVars
  PROVE  IInv'
<1> USE DEF UndoNetwork, At, Ok, Fault, vars, store, docker, names, calls, schedVars, starting, scheduled
<1>1. Frame /\ job[w].pc \notin {"idle", "leaving"}
  BY DEF Frame
<1>2. job[w].s \in created /\ job[w].s \in Sessions
  BY <1>1, Working
<1>3. JobPart'
  BY <1>1, Working, Moved, Left DEF RequestPcs, WatcherPcs, NewPcs, Fits
<1>4. StateTypes'
  BY <1>2, LifecycleAssumption DEF IInv, StateTypes, RowsOf
<1>5. Attached' /\ News'
  BY <1>2 DEF IInv, StateTypes, Attached, News, RunningIn
<1> QED
  BY <1>3, <1>4, <1>5 DEF IInv

(* The session and its rows go.                                            *)
LEMMA UndoSessionIInv ==
  ASSUME IInv, NEW w \in Workers, UndoSession(w), UNCHANGED schedVars
  PROVE  IInv'
<1> USE DEF UndoSession, At, vars, store, docker, names, calls, schedVars, starting, scheduled
<1>1. Frame /\ job[w].pc \notin {"idle", "leaving"}
  BY DEF Frame
<1>2. job[w].s \in created /\ job[w].s \in Sessions
  BY <1>1, Working
<1>3. JobPart'
  BY <1>1, Working, Moved, Left DEF RequestPcs, WatcherPcs, NewPcs, Fits
<1>4. StateTypes'
  <2>1. faults' \in 0..MaxFaults /\ unsaved' \in BOOLEAN
    BY CallTypes
  <2> QED
    BY <1>2, <2>1, LifecycleAssumption DEF IInv, StateTypes, RowsOf
<1>5. Attached' /\ News'
  BY <1>2 DEF IInv, StateTypes, Attached, News, RunningIn
<1> QED
  BY <1>3, <1>4, <1>5 DEF IInv

(* The check for an instance of NewInstance changes nothing but the        *)
(* place.                                                                  *)
LEMMA CheckEmptyIInv ==
  ASSUME IInv, NEW w \in Workers, CheckEmpty(w), UNCHANGED schedVars
  PROVE  IInv'
<1> USE DEF CheckEmpty, At, Ok, Fault, vars, store, docker, names, calls, schedVars, starting, scheduled
<1>1. Frame /\ job[w].pc \notin {"idle", "leaving"}
  BY DEF Frame
<1>2. job[w].s \in created /\ job[w].s \in Sessions
  BY <1>1, Working
<1>3. JobPart'
  BY <1>1, Working, Moved, Left DEF RequestPcs, WatcherPcs, NewPcs, Fits
<1>4. StateTypes'
  BY <1>2, LifecycleAssumption DEF IInv, StateTypes, RowsOf
<1>5. Attached' /\ News'
  BY <1>2 DEF IInv, StateTypes, Attached, News, RunningIn
<1> QED
  BY <1>3, <1>4, <1>5 DEF IInv

(* Reading the addresses likewise.                                         *)
LEMMA ContainerIPsIInv ==
  ASSUME IInv, NEW w \in Workers, ContainerIPs(w), UNCHANGED schedVars
  PROVE  IInv'
<1> USE DEF ContainerIPs, At, Ok, Fault, vars, store, docker, names, calls, schedVars, starting, scheduled
<1>1. Frame /\ job[w].pc \notin {"idle", "leaving"}
  BY DEF Frame
<1>2. job[w].s \in created /\ job[w].s \in Sessions
  BY <1>1, Working
<1>3. JobPart'
  BY <1>1, Working, Moved, Left, FailedInstance DEF RequestPcs, WatcherPcs, NewPcs, Fits
<1>4. StateTypes'
  BY <1>2, LifecycleAssumption DEF IInv, StateTypes, RowsOf
<1>5. Attached' /\ News'
  BY <1>2 DEF IInv, StateTypes, Attached, News, RunningIn
<1> QED
  BY <1>3, <1>4, <1>5 DEF IInv

(* The new row belongs to a container that was named.                      *)
LEMMA InstancePutIInv ==
  ASSUME IInv, NEW w \in Workers, InstancePut(w), UNCHANGED schedVars
  PROVE  IInv'
<1> USE DEF InstancePut, At, vars, store, docker, names, calls, schedVars, starting, scheduled
<1>1. Frame /\ job[w].pc \notin {"idle", "leaving"}
  BY DEF Frame
<1>2. job[w].s \in created /\ job[w].s \in Sessions /\ job[w].c \in minted
  BY <1>1, Working DEF Fits
<1>3. JobPart'
  BY <1>1, Working, Moved, Left, FailedInstance DEF RequestPcs, WatcherPcs, NewPcs, Fits
<1>4. StateTypes'
  <2>1. faults' \in 0..MaxFaults /\ unsaved' \in BOOLEAN
    BY CallTypes
  <2> QED
    BY <1>2, <2>1, LifecycleAssumption DEF IInv, StateTypes, RowsOf, Emit, Event, Events
<1>5. Attached' /\ News'
  BY <1>2 DEF IInv, StateTypes, Attached, News, RunningIn, Emit, Event
<1> QED
  BY <1>3, <1>4, <1>5 DEF IInv

(* SessionClose and InstanceDelete go on when their goroutines have        *)
(* ended.                                                                  *)
LEMMA WaitedIInv ==
  ASSUME IInv, NEW w \in Workers, Waited(w), UNCHANGED schedVars
  PROVE  IInv'
<1> USE DEF Waited, At, Ok, Fault, vars, store, docker, names, calls, schedVars, starting, scheduled
<1>1. Frame /\ job[w].pc \notin {"idle", "leaving"}
  BY DEF Frame
<1>2. job[w].s \in created /\ job[w].s \in Sessions
  BY <1>1, Working
<1>3. JobPart'
  BY <1>1, Working, Moved, Left DEF RequestPcs, WatcherPcs, NewPcs, Fits
<1>4. StateTypes'
  BY <1>2, LifecycleAssumption DEF IInv, StateTypes, RowsOf
<1>5. Attached' /\ News'
  BY <1>2 DEF IInv, StateTypes, Attached, News, RunningIn
<1> QED
  BY <1>3, <1>4, <1>5 DEF IInv

(* The router leaves the network.                                          *)
LEMMA DisconnectIInv ==
  ASSUME IInv, NEW w \in Workers, Disconnect(w), UNCHANGED schedVars
  PROVE  IInv'
<1> USE DEF Disconnect, At, Ok, Fault, vars, store, docker, names, calls, schedVars, starting, scheduled
<1>1. Frame /\ job[w].pc \notin {"idle", "leaving"}
  BY DEF Frame
<1>2. job[w].s \in created /\ job[w].s \in Sessions
  BY <1>1, Working
<1>3. JobPart'
  BY <1>1, Working, Moved, Left DEF RequestPcs, WatcherPcs, NewPcs, Fits
<1>4. StateTypes'
  BY <1>2, LifecycleAssumption DEF IInv, StateTypes, RowsOf
<1>5. Attached' /\ News'
  BY <1>2 DEF IInv, StateTypes, Attached, News, RunningIn
<1> QED
  BY <1>3, <1>4, <1>5 DEF IInv

(* The deletion of the network makes the promise of "sessdel" true.        *)
LEMMA NetworkDeleteIInv ==
  ASSUME IInv, NEW w \in Workers, NetworkDelete(w), UNCHANGED schedVars
  PROVE  IInv'
<1> USE DEF NetworkDelete, At, Ok, Fault, vars, store, docker, names, calls, schedVars, starting, scheduled
<1>1. Frame /\ job[w].pc \notin {"idle", "leaving"}
  BY DEF Frame
<1>2. job[w].s \in created /\ job[w].s \in Sessions
  BY <1>1, Working
<1>3. JobPart'
  BY <1>1, Working, Moved, Left DEF RequestPcs, WatcherPcs, NewPcs, Fits
<1>4. StateTypes'
  BY <1>2, LifecycleAssumption DEF IInv, StateTypes, RowsOf
<1>5. Attached' /\ News'
  BY <1>2 DEF IInv, StateTypes, Attached, News, RunningIn
<1> QED
  BY <1>3, <1>4, <1>5 DEF IInv

(* The session goes, its rows and its event.                               *)
LEMMA SessionDeleteIInv ==
  ASSUME IInv, NEW w \in Workers, SessionDelete(w), UNCHANGED schedVars
  PROVE  IInv'
<1> USE DEF SessionDelete, At, vars, store, docker, names, calls, schedVars, starting, scheduled
<1>1. Frame /\ job[w].pc \notin {"idle", "leaving"}
  BY DEF Frame
<1>2. job[w].s \in created /\ job[w].s \in Sessions
  BY <1>1, Working
<1>3. JobPart'
  BY <1>1, Working, Moved, Left DEF RequestPcs, WatcherPcs, NewPcs, Fits
<1>4. StateTypes'
  <2>1. faults' \in 0..MaxFaults /\ unsaved' \in BOOLEAN
    BY CallTypes
  <2> QED
    BY <1>2, <2>1, LifecycleAssumption DEF IInv, StateTypes, RowsOf, Emit, Event, Events
<1>5. Attached' /\ News'
  BY <1>2 DEF IInv, StateTypes, Attached, News, RunningIn, Emit, Event
<1> QED
  BY <1>3, <1>4, <1>5 DEF IInv

(* The deployed stack makes the session ready.                             *)
LEMMA ExecAttachIInv ==
  ASSUME IInv, NEW w \in Workers, ExecAttach(w), UNCHANGED schedVars
  PROVE  IInv'
<1> USE DEF ExecAttach, At, Ok, Fault, vars, store, docker, names, calls, schedVars, starting, scheduled
<1>1. Frame /\ job[w].pc \notin {"idle", "leaving"}
  BY DEF Frame
<1>2. job[w].s \in created /\ job[w].s \in Sessions
  BY <1>1, Working
<1>3. JobPart'
  BY <1>1, Working, Moved, Left DEF RequestPcs, WatcherPcs, NewPcs, Fits
<1>4. StateTypes'
  BY <1>2, LifecycleAssumption DEF IInv, StateTypes, RowsOf
<1>5. Attached' /\ News'
  BY <1>2 DEF IInv, StateTypes, Attached, News, RunningIn
<1> QED
  BY <1>3, <1>4, <1>5 DEF IInv

(* Storing a session again stores one that was given out.                  *)
LEMMA ReadyPutIInv ==
  ASSUME IInv, NEW w \in Workers, ReadyPut(w), UNCHANGED schedVars
  PROVE  IInv'
<1> USE DEF ReadyPut, At, vars, store, docker, names, calls, schedVars, starting, scheduled
<1>1. Frame /\ job[w].pc \notin {"idle", "leaving"}
  BY DEF Frame
<1>2. job[w].s \in created /\ job[w].s \in Sessions
  BY <1>1, Working
<1>3. JobPart'
  BY <1>1, Working, Moved, Left DEF RequestPcs, WatcherPcs, NewPcs, Fits
<1>4. StateTypes'
  <2>1. faults' \in 0..MaxFaults /\ unsaved' \in BOOLEAN
    BY CallTypes
  <2> QED
    BY <1>2, <2>1, LifecycleAssumption DEF IInv, StateTypes, RowsOf
<1>5. Attached' /\ News'
  BY <1>2 DEF IInv, StateTypes, Attached, News, RunningIn
<1> QED
  BY <1>3, <1>4, <1>5 DEF IInv

-----------------------------------------------------------------------------
(* The steps that make, announce or attach something, or change more of    *)
(* their worker's job than its place.                                      *)

(* Only the SessionNew that drew the id makes its network.                 *)
LEMMA NetworkCreateIInv ==
  ASSUME IInv, NEW w \in Workers, NetworkCreate(w), UNCHANGED schedVars
  PROVE  IInv'
<1> USE DEF NetworkCreate, At, Ok, Fault, vars, store, docker, names, calls,
            schedVars, starting, scheduled
<1>1. /\ job[w].s \in created /\ job[w].s \in Sessions /\ Fits(w, job[w])
      /\ w \notin Sessions /\ job[w].op = "new"
  BY Working DEF WatcherPcs, Fits, NewPcs
<1>2. JobPart'
  <2>1. CASE Goto(w, "connect")
    <3>1. /\ JobTypes'
          /\ \A v \in Workers : v # w => job'[v] = job[v]
          /\ job'[w].pc = "connect" /\ job'[w].op = job[w].op
          /\ job'[w].s = job[w].s
          /\ job'[w].todo = job[w].todo /\ job'[w].done = job[w].done
      BY <1>1, <2>1, GoneOn DEF RequestPcs
    <3>2. \A v \in Workers : v # w => job[v].s # job[w].s
      BY <1>1 DEF IInv, JobPart, Alone
    <3>3. ASSUME NEW v \in Workers, v # w PROVE Fits(v, job[v])'
      <4>1. Fits(v, job[v])
        BY DEF IInv, JobPart, Jobs
      <4> QED
        BY <3>1, <3>2, <3>3, <4>1 DEF Fits
    <3>4. Fits(w, job[w])'
      BY <1>1, <3>1 DEF Fits
    <3>5. Jobs'
      BY <3>3, <3>4 DEF Jobs
    <3>6. Alone'
      BY <3>1 DEF IInv, JobPart, Alone
    <3> QED
      BY <3>1, <3>5, <3>6 DEF JobPart
  <2>2. CASE Return(w) /\ UNCHANGED networks
    BY <2>2, Left DEF Frame
  <2> QED
    BY <2>1, <2>2
<1>3. StateTypes'
  BY <1>1, LifecycleAssumption DEF IInv, StateTypes
<1>4. Attached' /\ News'
  BY DEF IInv, Attached, News
<1> QED
  BY <1>2, <1>3, <1>4 DEF IInv

(* An announced session is no longer in the hands of a SessionNew.         *)
LEMMA AnnounceIInv ==
  ASSUME IInv, NEW w \in Workers, Announce(w), UNCHANGED schedVars
  PROVE  IInv'
<1> USE DEF Announce, At, vars, store, docker, names, calls,
            schedVars, starting, scheduled
<1>1. /\ job[w].s \in created /\ job[w].s \in Sessions /\ Fits(w, job[w])
      /\ w \notin Sessions /\ job[w].op = "new"
  BY Working DEF WatcherPcs, Fits, NewPcs
<1>2. /\ JobTypes'
      /\ \A v \in Workers : v # w => job'[v] = job[v]
      /\ job'[w] = Idle
  <2>1. job' = [job EXCEPT ![w] = Idle]
    BY <1>1 DEF Return
  <2>2. Idle \in Job(RequestPcs)
    BY DEF Idle, Job, RequestPcs, Ops
  <2> QED
    BY <1>1, <2>1, <2>2, JobChanged
<1>3. JobPart'
  <2>1. ASSUME NEW v \in Workers, v # w PROVE Fits(v, job[v])'
    <3>1. Fits(v, job[v])
      BY DEF IInv, JobPart, Jobs
    <3>2. job[v].op = "new" => job[v].s # job[w].s
      BY <2>1 DEF IInv, JobPart, Alone
    <3> QED
      BY <1>2, <2>1, <3>1, <3>2 DEF Fits
  <2>2. Fits(w, job[w])'
    BY <1>2 DEF Fits, Idle, NewPcs
  <2>3. Jobs'
    BY <2>1, <2>2 DEF Jobs
  <2>4. Alone'
    <3>1. \A v \in Workers : job[v].op = "new" => job[v].s # None
      BY LifecycleAssumption DEF IInv, JobPart, Jobs, Fits, StateTypes
    <3> QED
      BY <1>2, <3>1 DEF IInv, JobPart, Alone, Idle
  <2> QED
    BY <1>2, <2>3, <2>4 DEF JobPart
<1>4. StateTypes'
  BY <1>1 DEF IInv, StateTypes, Emit, Event, Events
<1>5. Attached' /\ News'
  BY <1>1 DEF IInv, Attached, News, Emit, Event
<1> QED
  BY <1>3, <1>4, <1>5 DEF IInv

(* A container starts on a network that is there, with a name nobody has   *)
(* in hand.                                                                *)
LEMMA ContainerCreateIInv ==
  ASSUME IInv, NEW w \in Workers, NEW c \in Containers, ContainerCreate(w, c),
         UNCHANGED schedVars
  PROVE  IInv'
<1> USE DEF vars, store, docker, names, schedVars, starting, scheduled
<1>1. /\ job[w].pc = "create" /\ SessionOf[c] = job[w].s /\ c \notin minted
      /\ minted' = minted \cup {c}
      /\ UNCHANGED <<store, networks, l2, created, announced, ended, events>>
      /\ Ok \/ Fault
      /\ \/ /\ running' = running \cup {c} /\ job[w].s \in networks
            /\ job' = [job EXCEPT ![w].pc = "ips", ![w].c = c]
         \/ InstanceFailed(w) /\ UNCHANGED running
  BY DEF ContainerCreate, At
<1>0. /\ job[w].s \in created /\ job[w].s \in Sessions /\ Fits(w, job[w])
      /\ w \in Requests /\ w \notin Sessions
  BY <1>1, Working DEF WatcherPcs, Workers
<1>2. JobPart'
  <2>1. CASE /\ running' = running \cup {c}
             /\ job' = [job EXCEPT ![w].pc = "ips", ![w].c = c]
    <3>0. /\ running' = running \cup {c} /\ c \notin minted
          /\ minted' = minted \cup {c}
          /\ UNCHANGED <<networks, created, announced, listening>>
      BY <1>1, <2>1
    <3> DEFINE j == [job[w] EXCEPT !.pc = "ips", !.c = c]
    <3>1. job[w] \in Job(RequestPcs)
      BY <1>0 DEF IInv, JobPart, JobTypes
    <3>2. /\ j \in Job(RequestPcs) /\ j.pc = "ips" /\ j.op = job[w].op
          /\ j.s = job[w].s /\ j.c = c
          /\ j.todo = job[w].todo /\ j.done = job[w].done
      BY <3>1 DEF Job, RequestPcs
    <3>3. job' = [job EXCEPT ![w] = j]
      BY <2>1
    <3> HIDE DEF j
    <3>4. /\ job'[w] = j
          /\ \A v \in Workers : v # w => job'[v] = job[v]
          /\ JobTypes'
      BY <1>0, <3>2, <3>3, JobChanged
    <3>5. ASSUME NEW v \in Workers, v # w PROVE Fits(v, job[v])'
      <4>1. Fits(v, job[v])
        BY DEF IInv, JobPart, Jobs
      <4> QED
        BY <3>0, <3>4, <3>5, <4>1 DEF Fits
    <3>6. Fits(w, job[w])'
      BY <1>0, <3>0, <3>2, <3>4 DEF Fits, NewPcs
    <3>7. Jobs'
      BY <3>5, <3>6 DEF Jobs
    <3>8. Alone'
      BY <3>2, <3>4 DEF IInv, JobPart, Alone
    <3> QED
      BY <3>4, <3>7, <3>8 DEF JobPart
  <2>2. CASE InstanceFailed(w) /\ UNCHANGED running
    BY <1>1, <2>2, FailedInstance DEF Frame
  <2> QED
    BY <1>1, <2>1, <2>2
<1>3. StateTypes'
  BY <1>0, <1>1, CallTypes DEF IInv, StateTypes
<1>4. Attached' /\ News'
  BY <1>1 DEF IInv, Attached, News
<1> QED
  BY <1>2, <1>3, <1>4 DEF IInv

(* SessionClose takes the rows it finds, all of named containers.          *)
LEMMA FindInstancesIInv ==
  ASSUME IInv, NEW w \in Workers, FindInstances(w), UNCHANGED schedVars
  PROVE  IInv'
<1> USE DEF vars, store, docker, names, calls, schedVars, starting, scheduled
<1>0. job[w].pc = "find" /\ UNCHANGED <<store, docker, names, events, calls>>
  BY DEF FindInstances, At
<1> DEFINE j == [job[w] EXCEPT !.pc = "kill", !.todo = RowsOf(job[w].s)]
<1>1. job[w] \in Job(RequestPcs \cup WatcherPcs) /\ Fits(w, job[w])
  BY <1>0, Working
<1>2. RowsOf(job[w].s) \subseteq minted /\ RowsOf(job[w].s) \subseteq Containers
  BY DEF RowsOf, IInv, StateTypes
<1>3. /\ j \in Job(RequestPcs) /\ j \in Job(WatcherPcs)
      /\ j.pc = "kill" /\ j.op = job[w].op /\ j.s = job[w].s
      /\ j.todo \subseteq minted /\ j.done = job[w].done
  BY <1>1, <1>2 DEF Job, RequestPcs, WatcherPcs
<1>4. job' = [job EXCEPT ![w] = j]
  BY DEF FindInstances
<1> HIDE DEF j
<1>5. job'[w] = j
  BY <1>3, <1>4, JobChanged
<1>6. Fits(w, job[w])'
  BY <1>0, <1>1, <1>3, <1>5 DEF Fits, NewPcs
<1>7. JobPart'
  BY <1>3, <1>4, <1>6, <1>0, Replaced DEF Frame
<1>8. StateTypes' /\ Attached' /\ News'
  BY <1>0 DEF IInv, StateTypes, Attached, News
<1> QED
  BY <1>7, <1>8 DEF IInv

(* A job with other containers in hand, on the same session.               *)
LEMMA Reheld ==
  ASSUME IInv, NEW w \in Workers, NEW j, Frame,
         job' = [job EXCEPT ![w] = j],
         job[w].pc \notin {"idle", "leaving"},
         w \in Requests => j \in Job(RequestPcs),
         w \in Sessions => j \in Job(WatcherPcs),
         j.op = job[w].op, j.s = job[w].s,
         j.pc \in {"kill", "exec"},
         j.todo \subseteq minted, j.done \subseteq minted,
         j.done \cap running' = {}
  PROVE  JobPart'
<1>1. Fits(w, job[w])
  BY Working
<1>2. job'[w] = j
  BY JobChanged
<1>3. Fits(w, job[w])'
  BY <1>1, <1>2 DEF Fits, NewPcs, Frame
<1> QED
  BY <1>3, Replaced

(* InstanceDelete holds as done only what runs no more.                    *)
LEMMA KillContainerIInv ==
  ASSUME IInv, NEW w \in Workers, NEW c \in Containers, KillContainer(w, c),
         UNCHANGED schedVars
  PROVE  IInv'
<1> USE DEF vars, store, docker, names, schedVars, starting, scheduled
<1> DEFINE j == [job[w] EXCEPT !.todo = @ \ {c}, !.done = @ \cup {c}]
           k == [job[w] EXCEPT !.todo = @ \ {c}, !.bad = TRUE]
<1>1. /\ job[w].pc = "kill" /\ c \in job[w].todo
      /\ UNCHANGED <<store, networks, l2, names, events>>
      /\ Ok \/ Fault
      /\ \/ running' = running \ {c} /\ job' = [job EXCEPT ![w] = j]
         \/ running' = running /\ job' = [job EXCEPT ![w] = k]
  BY DEF KillContainer, At
<1>2. Fits(w, job[w])
  BY <1>1, Working
<1>3. /\ w \in Requests => job[w] \in Job(RequestPcs)
      /\ w \in Sessions => job[w] \in Job(WatcherPcs)
  BY DEF IInv, JobPart, JobTypes
<1>4. /\ w \in Requests => j \in Job(RequestPcs) /\ k \in Job(RequestPcs)
      /\ w \in Sessions => j \in Job(WatcherPcs) /\ k \in Job(WatcherPcs)
  BY <1>3 DEF Job
<1>5. /\ j.op = job[w].op /\ j.s = job[w].s /\ j.pc = job[w].pc
      /\ j.todo = job[w].todo \ {c} /\ j.done = job[w].done \cup {c}
      /\ k.op = job[w].op /\ k.s = job[w].s /\ k.pc = job[w].pc
      /\ k.todo = job[w].todo \ {c} /\ k.done = job[w].done
  BY <1>3 DEF Job, Workers
<1>6. Frame
  BY <1>1 DEF Frame
<1> HIDE DEF j, k
<1>7. ASSUME running' = running \ {c}, job' = [job EXCEPT ![w] = j]
      PROVE  JobPart'
  <2>1. /\ j.todo \subseteq minted /\ j.done \subseteq minted
        /\ j.done \cap running' = {}
    BY <1>1, <1>2, <1>5, <1>7 DEF Fits
  <2> QED
    BY <1>1, <1>4, <1>5, <1>6, <1>7, <2>1, Reheld
<1>8. ASSUME running' = running, job' = [job EXCEPT ![w] = k]
      PROVE  JobPart'
  <2>1. /\ k.todo \subseteq minted /\ k.done \subseteq minted
        /\ k.done \cap running' = {}
    BY <1>1, <1>2, <1>5, <1>8 DEF Fits
  <2> QED
    BY <1>1, <1>4, <1>5, <1>6, <1>8, <2>1, Reheld
<1>9. StateTypes' /\ Attached' /\ News'
  BY <1>1, CallTypes DEF IInv, StateTypes, Attached, News
<1> QED
  BY <1>1, <1>7, <1>8, <1>9 DEF IInv

(* A row whose container is gone goes, and its event names it.             *)
LEMMA DeleteRowIInv ==
  ASSUME IInv, NEW w \in Workers, NEW c \in Containers, DeleteRow(w, c),
         UNCHANGED schedVars
  PROVE  IInv'
<1> USE DEF vars, store, docker, names, schedVars, starting, scheduled
<1> DEFINE j == [job[w] EXCEPT !.done = @ \ {c}]
           k == [job[w] EXCEPT !.done = @ \ {c}, !.bad = TRUE]
<1>1. /\ job[w].pc = "kill" /\ rows' = rows \ {c}
      /\ UNCHANGED <<sessions, ready, docker, names>>
      /\ Ok \/ Saved \/ SaveFault
      /\ \/ job' = [job EXCEPT ![w] = j]
         \/ job' = [job EXCEPT ![w] = k]
  BY DEF DeleteRow, At
<1>2. events' = events \/ Emit("INSTANCE_DELETE", job[w].s, c)
  BY DEF DeleteRow
<1>3. /\ w \in Requests => job[w] \in Job(RequestPcs)
      /\ w \in Sessions => job[w] \in Job(WatcherPcs)
  BY DEF IInv, JobPart, JobTypes
<1>4. /\ w \in Requests => j \in Job(RequestPcs) /\ k \in Job(RequestPcs)
      /\ w \in Sessions => j \in Job(WatcherPcs) /\ k \in Job(WatcherPcs)
  BY <1>3 DEF Job
<1>5. /\ j.op = job[w].op /\ j.s = job[w].s /\ j.pc = job[w].pc
      /\ j.todo = job[w].todo /\ j.done = job[w].done \ {c}
      /\ k.op = job[w].op /\ k.s = job[w].s /\ k.pc = job[w].pc
      /\ k.todo = job[w].todo /\ k.done = job[w].done \ {c}
  BY <1>3 DEF Job, Workers
<1>6. Frame
  BY <1>1 DEF Frame
<1> HIDE DEF j, k
<1>7. /\ job[w].todo \subseteq minted /\ job[w].done \ {c} \subseteq minted
      /\ (job[w].done \ {c}) \cap running' = {}
  BY <1>1, Working DEF Fits
<1>8. JobPart'
  BY <1>1, <1>4, <1>5, <1>6, <1>7, Reheld
<1>9. job[w].s \in created /\ job[w].s \in Sessions
  BY <1>1, Working
<1>10. StateTypes'
  BY <1>1, <1>2, <1>9, CallTypes DEF IInv, StateTypes, Emit, Event, Events
<1>11. Attached' /\ News'
  BY <1>1, <1>2, <1>9 DEF IInv, Attached, News, Emit, Event
<1> QED
  BY <1>8, <1>10, <1>11 DEF IInv

(* The stack is deployed on a stored instance.                             *)
LEMMA InstanceGetSingleIInv ==
  ASSUME IInv, NEW w \in Workers, InstanceGetSingle(w), UNCHANGED schedVars
  PROVE  IInv'
<1> USE DEF vars, store, docker, names, calls, schedVars, starting, scheduled
<1>1. job[w].pc = "single" /\ UNCHANGED <<store, docker, names, events, calls>>
  BY DEF InstanceGetSingle, At
<1>2. Frame
  BY <1>1 DEF Frame
<1>3. JobPart'
  <2>1. CASE Return(w)
    BY <1>2, <2>1, Left
  <2>2. ASSUME NEW c \in RowsOf(job[w].s),
               job' = [job EXCEPT ![w].pc = "exec", ![w].c = c]
        PROVE  JobPart'
    <3> DEFINE j == [job[w] EXCEPT !.pc = "exec", !.c = c]
    <3>1. /\ Fits(w, job[w]) /\ w \in Requests /\ w \notin Sessions
      BY <1>1, Working DEF WatcherPcs, Workers
    <3>2. job[w] \in Job(RequestPcs)
      BY <3>1 DEF IInv, JobPart, JobTypes
    <3>3. c \in Containers
      BY DEF RowsOf, IInv, StateTypes
    <3>4. /\ j \in Job(RequestPcs) /\ j.pc = "exec" /\ j.op = job[w].op
          /\ j.s = job[w].s /\ j.todo = job[w].todo /\ j.done = job[w].done
      BY <3>2, <3>3 DEF Job, RequestPcs
    <3>5. job' = [job EXCEPT ![w] = j]
      BY <2>2
    <3> HIDE DEF j
    <3>6. /\ j.todo \subseteq minted /\ j.done \subseteq minted
          /\ j.done \cap running' = {}
      BY <1>1, <3>1, <3>4 DEF Fits
    <3> QED
      BY <1>1, <1>2, <3>1, <3>4, <3>5, <3>6, Reheld
  <2> QED
    BY <2>1, <2>2 DEF InstanceGetSingle
<1>4. StateTypes' /\ Attached' /\ News'
  BY <1>1 DEF IInv, StateTypes, Attached, News
<1> QED
  BY <1>3, <1>4 DEF IInv

(* Every step of a worker keeps the invariant.                             *)
LEMMA ProceedIInv ==
  ASSUME IInv, NEW w \in Workers, Proceed(w), UNCHANGED schedVars
  PROVE  IInv'
BY NetworkCreateIInv, NetworkConnectIInv, SessionPutIInv, AnnounceIInv,
   UndoDisconnectIInv, UndoNetworkIInv, UndoSessionIInv, CheckEmptyIInv,
   ContainerIPsIInv, InstancePutIInv, FindInstancesIInv, WaitedIInv,
   DisconnectIInv, NetworkDeleteIInv, SessionDeleteIInv, InstanceGetSingleIInv,
   ExecAttachIInv, ReadyPutIInv, ContainerCreateIInv, KillContainerIInv,
   DeleteRowIInv
   DEF Proceed

-----------------------------------------------------------------------------
(* Requests that arrive, and containers that exit.                         *)

(* The job a request begins.                                               *)
LEMMA Begun ==
  ASSUME IInv, NEW w \in Requests, NEW op \in Ops, NEW pc \in RequestPcs,
         NEW s \in Sessions, Begin(w, op, pc, s)
  PROVE  /\ JobTypes'
         /\ \A v \in Workers : v # w => job'[v] = job[v]
         /\ job' = [job EXCEPT ![w] = job'[w]]
         /\ w \in Workers /\ w \notin Sessions /\ job'[w] \in Job(RequestPcs)
         /\ job'[w].op = op /\ job'[w].pc = pc /\ job'[w].s = s
         /\ job'[w].todo = {} /\ job'[w].done = {}
<1> DEFINE j == [Idle EXCEPT !.op = op, !.pc = pc, !.s = s]
<1>1. job' = [job EXCEPT ![w] = j]
  BY DEF Begin
<1>2. /\ j \in Job(RequestPcs) /\ j.op = op /\ j.pc = pc /\ j.s = s
      /\ j.todo = {} /\ j.done = {}
  BY DEF Idle, Job
<1>3. w \in Workers /\ w \notin Sessions
  BY LifecycleAssumption DEF Workers
<1> HIDE DEF j
<1> QED
  BY <1>1, <1>2, <1>3, JobChanged

(* A request joins a session that is announced, so nobody is making it.    *)
LEMMA Joined ==
  ASSUME IInv, NEW w \in Requests, NEW op \in Ops, NEW pc \in RequestPcs,
         NEW s \in announced, Begin(w, op, pc, s),
         op # "new", pc \in {"check", "find", "single"}, Frame
  PROVE  JobPart'
<1>1. s \in created /\ s \in Sessions
  BY DEF IInv, StateTypes
<1> DEFINE j == job'[w]
<1>2. /\ job' = [job EXCEPT ![w] = j]
      /\ w \in Workers /\ w \notin Sessions /\ j \in Job(RequestPcs)
      /\ j.op = op /\ j.pc = pc /\ j.s = s /\ j.todo = {} /\ j.done = {}
  BY <1>1, Begun
<1>3. Fits(w, job[w])'
  BY <1>1, <1>2 DEF Fits, NewPcs, Frame
<1> HIDE DEF j
<1> QED
  BY <1>2, <1>3, Replaced

(* A session id nobody works on begins its life.                           *)
LEMMA SessionNewIInv ==
  ASSUME IInv, NEW w \in Requests, NEW s \in Sessions, SessionNew(w, s),
         listening, UNCHANGED schedVars
  PROVE  IInv'
<1> USE DEF vars, store, docker, names, calls, schedVars, starting, scheduled
<1>1. /\ s \notin created /\ created' = created \cup {s}
      /\ ready' = IF s \in Stacked THEN ready ELSE ready \cup {s}
      /\ Begin(w, "new", "network", s)
      /\ UNCHANGED <<sessions, rows, docker, minted, announced, ended, events, calls>>
  BY DEF SessionNew
<1>2. /\ JobTypes'
      /\ \A v \in Workers : v # w => job'[v] = job[v]
      /\ w \in Workers /\ w \notin Sessions
      /\ job'[w].op = "new" /\ job'[w].pc = "network" /\ job'[w].s = s
      /\ job'[w].todo = {} /\ job'[w].done = {}
  <2>1. "new" \in Ops /\ "network" \in RequestPcs
    BY DEF Ops, RequestPcs
  <2>2. Begin(w, "new", "network", s)
    BY <1>1
  <2> QED
    BY <2>1, <2>2, Begun
<1>3. s \notin announced /\ s # None
  BY <1>1, LifecycleAssumption DEF IInv, StateTypes
<1>4. \A v \in Workers : Fits(v, job[v])
  BY DEF IInv, JobPart, Jobs
<1>5. ASSUME NEW v \in Workers PROVE Fits(v, job[v])'
  <2>1. CASE v = w
    BY <1>1, <1>2, <1>3, <2>1 DEF Fits
  <2>2. CASE v # w
    BY <1>1, <1>2, <1>4, <2>2 DEF Fits
  <2> QED
    BY <2>1, <2>2
<1>6. \A v \in Workers : job[v].s # s
  BY <1>1, <1>3, <1>4 DEF Fits
<1>7. Alone'
  BY <1>2, <1>6 DEF IInv, JobPart, Alone
<1>8. JobPart'
  BY <1>2, <1>5, <1>7 DEF JobPart, Jobs
<1>9. StateTypes' /\ Attached' /\ News'
  BY <1>1 DEF IInv, StateTypes, Attached, News
<1> QED
  BY <1>8, <1>9 DEF IInv

(* InstanceDelete of a stored instance, by whichever session's path.       *)
LEMMA DeleteInstanceIInv ==
  ASSUME IInv, NEW w \in Requests, NEW s \in Sessions, NEW c \in Containers,
         DeleteInstance(w, s, c), UNCHANGED schedVars
  PROVE  IInv'
<1> USE DEF vars, store, docker, names, calls, schedVars, starting, scheduled
<1> DEFINE j == [Idle EXCEPT !.op = "remove", !.pc = "kill", !.s = s, !.todo = {c}]
<1>1. /\ s \in announced /\ c \in rows
      /\ UNCHANGED <<store, docker, names, events, calls>>
  BY DEF DeleteInstance
<1>2. job' = [job EXCEPT ![w] = j]
  BY DEF DeleteInstance
<1>3. /\ j \in Job(RequestPcs) /\ j.op = "remove" /\ j.pc = "kill" /\ j.s = s
      /\ j.todo = {c} /\ j.done = {}
  BY DEF Idle, Job, Ops, RequestPcs
<1>4. w \in Workers /\ w \notin Sessions
  BY LifecycleAssumption DEF Workers
<1>5. c \in minted /\ s \in created
  BY <1>1 DEF IInv, StateTypes
<1> HIDE DEF j
<1>6. job'[w] = j
  BY <1>2, <1>3, <1>4, JobChanged
<1>7. Fits(w, job[w])'
  BY <1>1, <1>3, <1>4, <1>5, <1>6 DEF Fits, NewPcs
<1>8. JobPart'
  BY <1>1, <1>2, <1>3, <1>4, <1>7, Replaced DEF Frame
<1>9. StateTypes' /\ Attached' /\ News'
  BY <1>1 DEF IInv, StateTypes, Attached, News
<1> QED
  BY <1>8, <1>9 DEF IInv

(* Every request that arrives keeps the invariant.                         *)
LEMMA ArriveIInv ==
  ASSUME IInv, NEW w \in Requests, Arrive(w), listening, UNCHANGED schedVars
  PROVE  IInv'
<1> USE DEF vars, store, docker, names, calls, schedVars, starting, scheduled
<1>1. ASSUME NEW s \in Sessions,
             NewInstance(w, s) \/ StartClose(w, s) \/ DeployStack(w, s)
      PROVE  IInv'
  <2>1. s \in announced /\ UNCHANGED <<store, docker, names, events, calls>>
    BY <1>1 DEF NewInstance, StartClose, DeployStack
  <2>2. Frame
    BY <2>1 DEF Frame
  <2>3. JobPart'
    BY <1>1, <2>1, <2>2, Joined DEF NewInstance, StartClose, DeployStack, Ops, RequestPcs
  <2>4. StateTypes' /\ Attached' /\ News'
    BY <2>1 DEF IInv, StateTypes, Attached, News
  <2> QED
    BY <2>3, <2>4 DEF IInv
<1> QED
  BY <1>1, SessionNewIInv, DeleteInstanceIInv DEF Arrive

(* A container that exits is no longer attached.                           *)
LEMMA ContainerExitsIInv ==
  ASSUME IInv, NEW c \in Containers, ContainerExits(c), UNCHANGED schedVars
  PROVE  IInv'
<1> USE DEF vars, store, docker, names, calls, schedVars, starting, scheduled
<1>1. /\ running' = running \ {c}
      /\ UNCHANGED <<store, networks, l2, names, events, job, calls>>
  BY DEF ContainerExits
<1>2. JobTypes' /\ Alone'
  BY <1>1 DEF IInv, JobPart, JobTypes, Alone
<1>3. Jobs'
  BY <1>1 DEF IInv, JobPart, Jobs, Fits
<1>4. StateTypes' /\ Attached' /\ News'
  BY <1>1 DEF IInv, StateTypes, Attached, News
<1> QED
  BY <1>2, <1>3, <1>4 DEF IInv, JobPart

-----------------------------------------------------------------------------
(* The scheduler, the broker, and the restart.                             *)

(* Steps that leave the workers, the names and Docker alone.               *)
LEMMA SameJobs ==
  ASSUME IInv, UNCHANGED <<docker, names, job>>, listening => listening'
  PROVE  JobPart' /\ Attached'
<1> USE DEF docker, names
<1>1. JobTypes' /\ Alone'
  BY DEF IInv, JobPart, JobTypes, Alone
<1>2. Jobs'
  BY DEF IInv, JobPart, Jobs, Fits
<1>3. Attached'
  BY DEF IInv, Attached
<1> QED
  BY <1>1, <1>2, <1>3 DEF JobPart

(* The goroutine that begins to watch a session disturbs no SessionNew:    *)
(* the session is announced, or nothing has been asked of the server yet.  *)
LEMMA Watched ==
  ASSUME IInv, NEW s \in created, ScheduleSession(s), listening => s \in announced,
         UNCHANGED <<docker, names, listening>>
  PROVE  JobPart' /\ scheduledSessions' \subseteq Sessions
<1> DEFINE j == [Idle EXCEPT !.pc = "waiting", !.s = s]
<1>1. s \in Sessions /\ s \in Workers /\ s \notin Requests
  BY LifecycleAssumption DEF IInv, StateTypes, Workers
<1>2. scheduledSessions' \subseteq Sessions
  BY <1>1 DEF ScheduleSession, IInv, StateTypes
<1>3. Frame
  BY DEF Frame, docker, names
<1>4. CASE job' = job
  BY <1>2, <1>4, SameJobs
<1>5. CASE job' = [job EXCEPT ![s] = j]
  <2>1. /\ j \in Job(WatcherPcs) /\ j.op = "none" /\ j.pc = "waiting" /\ j.s = s
        /\ j.todo = {} /\ j.done = {}
    BY <1>1 DEF Idle, Job, Ops, WatcherPcs
  <2> HIDE DEF j
  <2>2. job'[s] = j
    BY <1>1, <1>5, <2>1, JobChanged
  <2>3. Fits(s, job[s])'
    BY <1>1, <1>3, <2>1, <2>2 DEF Fits, NewPcs, Frame
  <2>4. JobPart'
    BY <1>1, <1>3, <1>5, <2>1, <2>3, Replaced
  <2> QED
    BY <1>2, <2>4
<1> QED
  BY <1>4, <1>5 DEF ScheduleSession, WithJob

(* Start, before it listens.                                               *)
LEMMA StartingIInv ==
  ASSUME IInv, Starting
  PROVE  IInv'
<1> USE DEF vars, schedVars, starting, scheduled
<1>1. ASSUME NEW s \in Sessions, StartSession(s) PROVE IInv'
  <2>1. /\ s \in toSchedule /\ toSchedule' = toSchedule \ {s} /\ reading' = s
        /\ UNCHANGED <<store, docker, names, events, calls>>
        /\ UNCHANGED <<readRows, listening, handling, scheduledInstances, expired, crashes>>
        /\ ScheduleSession(s)
    BY <1>1 DEF StartSession
  <2>2. s \in created /\ ~listening
    BY <2>1 DEF IInv, News
  <2>3. JobPart' /\ scheduledSessions' \subseteq Sessions
    BY <2>1, <2>2, Watched
  <2>4. StateTypes' /\ Attached' /\ News'
    BY <2>1, <2>3 DEF IInv, StateTypes, Attached, News, store, docker, names, calls
  <2> QED
    BY <2>3, <2>4 DEF IInv
<1>2. CASE StartReads
  <2>1. JobPart' /\ Attached'
    BY <1>2, SameJobs DEF StartReads
  <2>2. StateTypes' /\ News'
    BY <1>2 DEF StartReads, IInv, StateTypes, News, RowsOf, store, docker, names, calls
  <2> QED
    BY <2>1, <2>2 DEF IInv
<1>3. ASSUME NEW c \in Containers, StartInstance(c) PROVE IInv'
  <2>1. JobPart' /\ Attached'
    BY <1>3, SameJobs DEF StartInstance
  <2>2. StateTypes' /\ News'
    BY <1>3 DEF StartInstance, ScheduleInstance, IInv, StateTypes, News,
                store, docker, names, calls
  <2> QED
    BY <2>1, <2>2 DEF IInv
<1>4. CASE StartListens
  <2>1. JobPart' /\ Attached'
    BY <1>4, SameJobs DEF StartListens
  <2>2. StateTypes' /\ News'
    BY <1>4 DEF StartListens, IInv, StateTypes, News, store, docker, names, calls
  <2> QED
    BY <2>1, <2>2 DEF IInv
<1> QED
  BY <1>1, <1>2, <1>3, <1>4 DEF Starting

(* What a handler reads from an event is what was put there.               *)
LEMMA DeliverIInv ==
  ASSUME IInv, NEW e \in events, Deliver(e)
  PROVE  IInv'
<1> USE DEF schedVars, starting, scheduled, Deliverable
<1>1. /\ events' = events \ {e}
      /\ UNCHANGED <<store, docker, names, job, calls, starting, expired, crashes>>
      /\ \/ handling' \in {handling, None}
         \/ handling' = e /\ e.type \in {"SESSION_NEW", "INSTANCE_NEW"}
      /\ scheduledSessions' \subseteq scheduledSessions
      /\ scheduledInstances' \subseteq scheduledInstances
  BY DEF Deliver, Unheard, HandleNew, HandleSessionEnd, HandleInstanceDelete
<1>2. JobPart' /\ Attached'
  BY <1>1, SameJobs
<1>3. StateTypes' /\ News'
  BY <1>1 DEF IInv, StateTypes, News, store, docker, names, calls
<1> QED
  BY <1>2, <1>3 DEF IInv

(* The second half of the handlers of SESSION_NEW and INSTANCE_NEW.        *)
LEMMA ScheduleIInv ==
  ASSUME IInv, Schedule
  PROVE  IInv'
<1> USE DEF starting
<1>1. /\ handling \in Events /\ handling' = None
      /\ UNCHANGED <<store, docker, names, events, calls, starting, expired, crashes>>
  BY DEF Schedule, IInv, StateTypes
<1>2. CASE handling.type = "SESSION_NEW"
  <2>1. handling.s \in created /\ handling.s \in announced
    BY <1>1, <1>2 DEF IInv, News, Schedule
  <2>2. ScheduleSession(handling.s) /\ UNCHANGED scheduledInstances
    BY <1>2 DEF Schedule
  <2>3. JobPart' /\ scheduledSessions' \subseteq Sessions
    BY <1>1, <2>1, <2>2, Watched
  <2>4. StateTypes' /\ Attached' /\ News'
    BY <1>1, <2>2, <2>3 DEF IInv, StateTypes, Attached, News, store, docker, names, calls
  <2> QED
    BY <2>3, <2>4 DEF IInv
<1>3. CASE handling.type # "SESSION_NEW"
  <2>1. /\ scheduledInstances' = scheduledInstances \cup {handling.c}
        /\ UNCHANGED <<scheduledSessions, job>>
    BY <1>3 DEF Schedule, ScheduleInstance
  <2>2. handling.c \in Containers
    BY <1>1, <1>3 DEF Events, IInv, News, Schedule
  <2>3. JobPart' /\ Attached'
    BY <1>1, <2>1, SameJobs
  <2>4. StateTypes' /\ News'
    BY <1>1, <2>1, <2>2 DEF IInv, StateTypes, News, store, docker, names, calls
  <2> QED
    BY <2>3, <2>4 DEF IInv
<1> QED
  BY <1>2, <1>3

(* The goroutine that watches a session: expiry, cancellation, departure.  *)
LEMMA WatcherIInv ==
  ASSUME IInv, NEW s \in Sessions, Expire(s) \/ Cancelled(s) \/ Leave(s)
  PROVE  IInv'
<1> USE DEF At, schedVars, starting, scheduled
<1>1. /\ job[s].pc \in {"waiting", "leaving"}
      /\ UNCHANGED <<store, docker, names, events, calls>>
      /\ UNCHANGED <<starting, handling, scheduledInstances, crashes>>
      /\ scheduledSessions' \subseteq scheduledSessions
      /\ expired' \subseteq Sessions
  BY DEF Expire, Cancelled, Leave, IInv, StateTypes
<1>2. Frame
  BY <1>1 DEF Frame, docker, names
<1>3. s \in Workers /\ s \notin Requests
  BY LifecycleAssumption DEF Workers
<1>4. JobPart'
  <2>1. CASE Expire(s)
    <3> DEFINE j == [job[s] EXCEPT !.op = "close", !.pc = "find"]
    <3>1. job[s] \in Job(WatcherPcs) /\ Fits(s, job[s])
      BY <1>3 DEF IInv, JobPart, JobTypes, Jobs
    <3>2. /\ j \in Job(WatcherPcs) /\ j.op = "close" /\ j.pc = "find"
          /\ j.s = job[s].s /\ j.todo = job[s].todo /\ j.done = job[s].done
      BY <3>1 DEF Job, Ops, WatcherPcs
    <3>3. job' = [job EXCEPT ![s] = j] /\ job[s].pc = "waiting"
      BY <2>1 DEF Expire
    <3> HIDE DEF j
    <3>4. job'[s] = j
      BY <1>3, <3>2, <3>3, JobChanged
    <3>5. Fits(s, job[s])'
      BY <1>2, <3>1, <3>2, <3>3, <3>4 DEF Fits, NewPcs, Frame
    <3> QED
      BY <1>2, <1>3, <3>2, <3>3, <3>5, Replaced
  <2>2. CASE Cancelled(s)
    BY <1>2, <1>3, <2>2, Left DEF Cancelled
  <2>3. CASE Leave(s)
    <3>1. job' = [job EXCEPT ![s] = Idle]
      BY <2>3 DEF Leave
    <3>2. /\ Idle \in Job(WatcherPcs) /\ Idle.op = "none" /\ Idle.pc = "idle"
          /\ Idle.s = None /\ Idle.todo = {} /\ Idle.done = {}
      BY DEF Idle, Job, Ops, WatcherPcs
    <3>3. job'[s] = Idle
      BY <1>3, <3>1, <3>2, JobChanged
    <3>4. Fits(s, job[s])'
      BY <3>2, <3>3 DEF Fits, NewPcs
    <3> QED
      BY <1>2, <1>3, <3>1, <3>2, <3>4, Replaced
  <2> QED
    BY <2>1, <2>2, <2>3
<1>5. StateTypes' /\ Attached' /\ News'
  BY <1>1 DEF IInv, StateTypes, Attached, News, store, docker, names, calls
<1> QED
  BY <1>4, <1>5 DEF IInv

(* After a restart nobody works, and Start has the stored sessions to read.*)
LEMMA CrashIInv ==
  ASSUME IInv, Crash
  PROVE  IInv'
<1> USE DEF Crash
<1>1. Idle \in Job(RequestPcs) /\ Idle \in Job(WatcherPcs)
  BY DEF Idle, Job, RequestPcs, WatcherPcs, Ops
<1>2. JobTypes'
  BY <1>1 DEF JobTypes, Workers
<1>3. Jobs' /\ Alone'
  BY DEF Jobs, Alone, Fits, Idle, NewPcs
<1>4. ready' \subseteq Sessions
  BY DEF IInv, StateTypes
<1>5. crashes' \in 0..MaxCrashes
  BY SchedulerAssumption DEF IInv, StateTypes
<1>6. listening' \in BOOLEAN
  OBVIOUS
<1>7. /\ UNCHANGED <<sessions, rows, docker, names, calls>>
      /\ events' = {} /\ handling' = None /\ expired' = {}
      /\ scheduledSessions' = {} /\ scheduledInstances' = {}
      /\ toSchedule' = sessions /\ reading' = None /\ readRows' = {}
  OBVIOUS
<1> USE DEF docker, names, calls
<1>8. StateTypes'
  BY <1>4, <1>5, <1>6, <1>7 DEF IInv, StateTypes
<1>9. Attached' /\ News'
  BY DEF IInv, StateTypes, Attached, News
<1> QED
  BY <1>2, <1>3, <1>8, <1>9 DEF IInv, JobPart

(* The tick of an instance that is gone.                                   *)
LEMMA TickIInv ==
  ASSUME IInv, NEW c \in Containers, Tick(c)
  PROVE  IInv'
<1>1. JobPart' /\ Attached'
  BY SameJobs DEF Tick, vars, starting
<1>2. StateTypes' /\ News'
  BY DEF Tick, vars, starting, store, docker, names, calls, IInv, StateTypes, News
<1> QED
  BY <1>1, <1>2 DEF IInv

(* Every step of the server keeps the invariant.                           *)
LEMMA NextIInv == IInv /\ [Next]_allVars => IInv'
<1> SUFFICES ASSUME IInv, [Next]_allVars PROVE IInv'
  OBVIOUS
<1>1. CASE UNCHANGED allVars
  <2>1. JobPart' /\ Attached'
    BY <1>1, SameJobs DEF allVars, vars, schedVars, starting
  <2>2. StateTypes' /\ News'
    BY <1>1 DEF allVars, vars, schedVars, starting, scheduled, store, docker, names,
                calls, IInv, StateTypes, News
  <2> QED
    BY <2>1, <2>2 DEF IInv
<1>2. CASE Next
  BY <1>2, ArriveIInv, ProceedIInv, ContainerExitsIInv, StartingIInv, CrashIInv,
     ScheduleIInv, DeliverIInv, WatcherIInv, TickIInv DEF Next
<1> QED
  BY <1>1, <1>2

(* The invariant of the server: types, what each worker has behind it, who *)
(* works on a session that is being made, what networks containers hang on.*)
THEOREM ServerInvariant == Spec => []IInv
BY InitIInv, NextIInv, PTL DEF Spec

(* The type invariant of the whole server.                                 *)
THEOREM ServerTypes == Spec => []TypeOK
<1>1. IInv => TypeOK
  BY DEF IInv, JobPart, StateTypes, JobTypes, TypeOK, LifecycleTypeOK
<1> QED
  BY <1>1, ServerInvariant, PTL

(* What a step forgets: a session after its network, a row after its       *)
(* container; a SessionNew that undoes itself was never announced.         *)
LEMMA DropsLast == IInv /\ [Next]_allVars => [DropsRecordsLast]_vars
<1> SUFFICES ASSUME IInv, [Next]_allVars PROVE [DropsRecordsLast]_vars
  OBVIOUS
<1> USE DEF vars, store, docker, names, calls, schedVars, starting, scheduled
<1>1. ASSUME NEW w \in Workers, UndoSession(w) PROVE DropsRecordsLast
  <2>1. job[w].pc = "undosess"
    BY <1>1 DEF UndoSession, At
  <2>2. job[w].s \notin announced
    BY <2>1, Working DEF Fits, NewPcs
  <2>3. sessions' = sessions \ {job[w].s} /\ rows' = rows \ RowsOf(job[w].s)
    BY <1>1 DEF UndoSession
  <2> QED
    BY <2>2, <2>3 DEF DropsRecordsLast, RowsOf
<1>2. ASSUME NEW w \in Workers, SessionDelete(w) PROVE DropsRecordsLast
  <2>1. job[w].pc = "sessdel"
    BY <1>2 DEF SessionDelete, At
  <2>2. job[w].s \notin networks
    BY <2>1, Working DEF Fits
  <2>3. \A c \in RowsOf(job[w].s) : c \notin running
    BY <2>2 DEF IInv, Attached, RowsOf
  <2>4. sessions' = sessions \ {job[w].s} /\ rows' = rows \ RowsOf(job[w].s)
    BY <1>2 DEF SessionDelete
  <2> QED
    BY <2>2, <2>3, <2>4 DEF DropsRecordsLast
<1>3. ASSUME NEW w \in Workers, NEW c \in Containers, DeleteRow(w, c)
      PROVE  DropsRecordsLast
  <2>1. job[w].pc = "kill" /\ c \in job[w].done
    BY <1>3 DEF DeleteRow, At
  <2>2. c \notin running
    BY <2>1, Working DEF Fits
  <2>3. UNCHANGED sessions /\ rows' = rows \ {c}
    BY <1>3 DEF DeleteRow
  <2> QED
    BY <2>2, <2>3 DEF DropsRecordsLast
<1>4. ASSUME sessions \subseteq sessions', rows \subseteq rows'
      PROVE  DropsRecordsLast
  BY <1>4 DEF DropsRecordsLast
<1>5. ASSUME NEW w \in Workers, Proceed(w) PROVE DropsRecordsLast
  <2>1. CASE \/ UndoSession(w) \/ SessionDelete(w)
             \/ \E c \in Containers : DeleteRow(w, c)
    BY <1>1, <1>2, <1>3, <2>1
  <2>2. CASE ~(\/ UndoSession(w) \/ SessionDelete(w)
               \/ \E c \in Containers : DeleteRow(w, c))
    <3>1. sessions \subseteq sessions' /\ rows \subseteq rows'
      BY <1>5, <2>2
         DEF Proceed, NetworkCreate, NetworkConnect, SessionPut, Announce,
             UndoDisconnect, UndoNetwork, CheckEmpty, ContainerIPs, InstancePut,
             FindInstances, Waited, Disconnect, NetworkDelete, InstanceGetSingle,
             ExecAttach, ReadyPut, ContainerCreate, KillContainer
    <3> QED
      BY <1>4, <3>1
  <2> QED
    BY <2>1, <2>2
<1>6. ASSUME NEW w \in Requests, Arrive(w) PROVE DropsRecordsLast
  <2>1. sessions' = sessions /\ rows' = rows
    BY <1>6 DEF Arrive, SessionNew, NewInstance, StartClose, DeployStack, DeleteInstance
  <2> QED
    BY <1>4, <2>1
<1>7. ASSUME \/ Starting \/ Crash \/ Schedule
             \/ \E e \in events : Deliver(e)
             \/ \E s \in Sessions : Expire(s) \/ Cancelled(s) \/ Leave(s)
             \/ \E c \in Containers : ContainerExits(c) \/ Tick(c)
      PROVE  DropsRecordsLast
  <2>1. sessions' = sessions /\ rows' = rows
    BY <1>7 DEF Starting, StartSession, StartReads, StartInstance, StartListens, Crash,
                Schedule, Deliver, Unheard, HandleNew, HandleSessionEnd,
                HandleInstanceDelete, Expire, Cancelled, Leave, ContainerExits, Tick
  <2> QED
    BY <1>4, <2>1
<1>8. CASE Next
  BY <1>5, <1>6, <1>7, <1>8 DEF Next
<1>9. CASE UNCHANGED allVars
  BY <1>9 DEF allVars
<1> QED
  BY <1>8, <1>9

(* Records go last, for any number of concurrent operations, failing calls *)
(* and restarts.                                                           *)
THEOREM RecordsGoLast == Spec => ForgetsLast
BY ServerInvariant, DropsLast, PTL DEF Spec, ForgetsLast

-----------------------------------------------------------------------------
(***************************************************************************)
(* StoredIsWatched, NoGhosts and ContainersAreKnown.                       *)
(*                                                                         *)
(* What a worker's step can do to the records and to the events is stated  *)
(* once for all of them (OwnJob, Records, Telling, NewGoesOn); each of     *)
(* the three invariants follows from that and from what the scheduler's    *)
(* own steps do.                                                           *)
(***************************************************************************)
StoredPcs == {"create", "ips", "instanceput", "announce"}
ClosingPcs == {"find", "kill", "disconnect", "netdel", "sessdel"}
UndoPcs == {"undo", "undonet", "undosess"}
SessionEndEvent(s) == Event("SESSION_END", s, None)

-----------------------------------------------------------------------------
(* What a worker does.                                                     *)

WorkerStep(w) == /\ w \in Workers /\ UNCHANGED schedVars
                 /\ Proceed(w) \/ (w \in Requests /\ listening /\ Arrive(w))

(* It changes its own job only; the goroutine of a session closes it.      *)
LEMMA OwnJob ==
  ASSUME IInv, NEW w \in Workers, WorkerStep(w)
  PROVE  /\ \A v \in Workers : v # w => job'[v] = job[v]
         /\ w \in Sessions => /\ job[w].pc \in ClosingPcs
                              /\ job'[w].pc \in ClosingPcs \cup {"leaving"}
<1>1. \A v \in Workers : v # w => job'[v] = job[v]
  <2>1. CASE Proceed(w)
    BY <2>1 DEF Proceed, NetworkCreate, NetworkConnect, SessionPut, Announce,
           UndoDisconnect, UndoNetwork, UndoSession, CheckEmpty, ContainerIPs, InstancePut,
           FindInstances, Waited, Disconnect, NetworkDelete, SessionDelete, InstanceGetSingle,
           ExecAttach, ReadyPut, ContainerCreate, KillContainer, DeleteRow,
           Goto, Return, InstanceFailed, IInv, JobPart, JobTypes
  <2>2. CASE Arrive(w)
    BY <2>2 DEF Arrive, SessionNew, NewInstance, StartClose, DeployStack, DeleteInstance, Begin,
           IInv, JobPart, JobTypes
  <2> QED
    BY <2>1, <2>2 DEF WorkerStep
<1>2. ASSUME w \in Sessions
      PROVE  job[w].pc \in ClosingPcs /\ job'[w].pc \in ClosingPcs \cup {"leaving"}
  <2>1. w \notin Requests
    BY <1>2, LifecycleAssumption
  <2>2. Proceed(w) /\ job[w] \in Job(WatcherPcs) /\ DOMAIN job = Workers
    BY <1>2, <2>1 DEF WorkerStep, IInv, JobPart, JobTypes
  <2>3. job[w].pc \in WatcherPcs
    BY <2>2 DEF Job
  <2>4. \/ FindInstances(w) \/ Waited(w) \/ Disconnect(w) \/ NetworkDelete(w) \/ SessionDelete(w)
        \/ \E c \in Containers : KillContainer(w, c) \/ DeleteRow(w, c)
    BY <2>2, <2>3 DEF Proceed, At, WatcherPcs, NetworkCreate, NetworkConnect, SessionPut, Announce,
           UndoDisconnect, UndoNetwork, UndoSession, CheckEmpty, ContainerIPs, InstancePut,
           InstanceGetSingle, ExecAttach, ReadyPut, ContainerCreate
  <2>5. job[w].pc \in ClosingPcs
    BY <2>4 DEF At, FindInstances, Waited, Disconnect, NetworkDelete, SessionDelete,
           KillContainer, DeleteRow, ClosingPcs
  <2>6. job'[w].pc \in ClosingPcs \cup {"leaving"}
    <3>1. CASE Return(w)
      BY <1>2, <2>2, <3>1 DEF Return, Idle
    <3>2. CASE \E p \in ClosingPcs : Goto(w, p)
      BY <2>2, <3>2 DEF Goto, Job
    <3>3. CASE FindInstances(w)
      BY <2>2, <3>3 DEF FindInstances, Job, ClosingPcs
    <3>4. CASE \E c \in Containers : KillContainer(w, c)
      BY <2>2, <2>5, <3>4 DEF KillContainer, Job
    <3>5. CASE \E c \in Containers : DeleteRow(w, c)
      BY <2>2, <2>5, <3>5 DEF DeleteRow, Job
    <3>6. Waited(w) \/ Disconnect(w) \/ NetworkDelete(w) \/ SessionDelete(w)
          => Return(w) \/ \E p \in ClosingPcs : Goto(w, p)
      BY DEF Waited, Disconnect, NetworkDelete, SessionDelete, ClosingPcs
    <3> QED
      BY <2>4, <3>1, <3>2, <3>3, <3>4, <3>5, <3>6
  <2> QED
    BY <2>5, <2>6
<1> QED
  BY <1>1, <1>2

(* What it does to the records: a session goes with its end, or with the   *)
(* SessionNew that undoes itself; one that is announced has its event.     *)
LEMMA Records ==
  ASSUME IInv, NEW w \in Workers, WorkerStep(w)
  PROVE  /\ ended \subseteq ended' /\ announced \subseteq announced'
         /\ \A s \in ended' \ ended : s = job[w].s /\ job[w].pc = "sessdel"
         /\ \A s \in sessions \ sessions' :
              s = job[w].s /\ (job[w].op = "new" \/ s \in ended')
         /\ \A s \in announced' \ announced :
              /\ s = job[w].s /\ job[w].op = "new" /\ job[w].pc = "announce"
              /\ SessionNewEvent(s) \in events' /\ sessions' = sessions
<1> USE DEF store, names
<1>1. CASE Arrive(w)
  BY <1>1 DEF Arrive, SessionNew, NewInstance, StartClose, DeployStack, DeleteInstance
<1>2. CASE UndoSession(w)
  <2>1. job[w].op = "new"
    BY <1>2, Working DEF UndoSession, At, Fits, NewPcs
  <2> QED
    BY <1>2, <2>1 DEF UndoSession
<1>3. CASE SessionDelete(w)
  BY <1>3 DEF SessionDelete, At
<1>4. CASE Announce(w)
  <2>1. job[w].op = "new"
    BY <1>4, Working DEF Announce, At, Fits, NewPcs
  <2> QED
    BY <1>4, <2>1 DEF Announce, At, Emit, SessionNewEvent
<1>5. CASE Proceed(w) /\ ~UndoSession(w) /\ ~SessionDelete(w) /\ ~Announce(w)
  <2>1. sessions \subseteq sessions' /\ announced' = announced /\ ended' = ended
    BY <1>5 DEF Proceed, NetworkCreate, NetworkConnect, SessionPut,
           UndoDisconnect, UndoNetwork, CheckEmpty, ContainerIPs, InstancePut,
           FindInstances, Waited, Disconnect, NetworkDelete, InstanceGetSingle,
           ExecAttach, ReadyPut, ContainerCreate, KillContainer, DeleteRow
  <2> QED
    BY <2>1
<1> QED
  BY <1>1, <1>2, <1>3, <1>4, <1>5 DEF WorkerStep

(* What it does to the events: it adds some, and tells the truth.          *)
LEMMA Telling ==
  ASSUME IInv, NEW w \in Workers, WorkerStep(w)
  PROVE  /\ events \subseteq events'
         /\ \A e \in events' \ events :
              /\ e.type = "SESSION_NEW" => listening
              /\ e.type = "SESSION_END" => e.s \in ended'
<1>1. CASE Arrive(w)
  BY <1>1 DEF Arrive, SessionNew, NewInstance, StartClose, DeployStack, DeleteInstance
<1>2. CASE SessionDelete(w)
  BY <1>2 DEF SessionDelete, Emit, Event
<1>3. CASE Announce(w)
  <2>1. listening
    BY <1>3, Working DEF Announce, At, Fits, NewPcs
  <2> QED
    BY <1>3, <2>1 DEF Announce, Emit, Event
<1>4. CASE InstancePut(w) \/ \E c \in Containers : DeleteRow(w, c)
  <2>1. \/ events' = events
        \/ events' = events \cup {Event("INSTANCE_NEW", job[w].s, job[w].c)}
        \/ \E c \in Containers : events' = events \cup {Event("INSTANCE_DELETE", job[w].s, c)}
    BY <1>4 DEF InstancePut, DeleteRow, Emit
  <2> QED
    BY <2>1 DEF Event
<1>5. CASE /\ Proceed(w) /\ ~SessionDelete(w) /\ ~Announce(w) /\ ~InstancePut(w)
           /\ ~\E c \in Containers : DeleteRow(w, c)
  <2>1. events' = events
    BY <1>5 DEF Proceed, NetworkCreate, NetworkConnect, SessionPut, UndoSession,
           UndoDisconnect, UndoNetwork, CheckEmpty, ContainerIPs,
           FindInstances, Waited, Disconnect, NetworkDelete, InstanceGetSingle,
           ExecAttach, ReadyPut, ContainerCreate, KillContainer
  <2> QED
    BY <2>1
<1> QED
  BY <1>1, <1>2, <1>3, <1>4, <1>5 DEF WorkerStep

(* As long as no call fails, who deletes a session tells, and the session's *)
(* own goroutine then leaves.                                              *)
LEMMA EndIsTold ==
  ASSUME IInv, NEW w \in Workers, WorkerStep(w), faults' = 0,
         NEW s \in sessions \ sessions', job[w].op # "new"
  PROVE  /\ SessionEndEvent(s) \in events'
         /\ w \in Sessions => job'[w].pc = "leaving"
<1>1. s = job[w].s
  BY Records
<1>2. SessionDelete(w)
  <2>1. ~Arrive(w)
    BY DEF Arrive, SessionNew, NewInstance, StartClose, DeployStack, DeleteInstance, store
  <2>2. ~UndoSession(w)
    BY Working DEF UndoSession, At, Fits, NewPcs
  <2> QED
    BY <2>1, <2>2 DEF WorkerStep, Proceed, NetworkCreate, NetworkConnect, SessionPut, Announce,
           UndoDisconnect, UndoNetwork, CheckEmpty, ContainerIPs, InstancePut,
           FindInstances, Waited, Disconnect, NetworkDelete, InstanceGetSingle,
           ExecAttach, ReadyPut, ContainerCreate, KillContainer, DeleteRow, store
<1>3. ~SaveFault
  BY DEF SaveFault, IInv, StateTypes
<1>4. SessionEndEvent(s) \in events' /\ Return(w)
  BY <1>1, <1>2, <1>3 DEF SessionDelete, Emit, SessionEndEvent
<1> QED
  BY <1>4 DEF Return, Idle, IInv, JobPart, JobTypes

NewPlaces == NewPcs \cup {"create", "ips", "instanceput"}

(* A SessionNew goes from one of its places to the next, with its session. *)
LEMMA NewGoesOn ==
  ASSUME IInv, NEW w \in Workers, WorkerStep(w),
         job[w].op = "new", job[w].pc \in NewPlaces, job'[w].op = "new"
  PROVE  /\ job'[w].s = job[w].s
         /\ \/ NetworkCreate(w) /\ job'[w].pc = "connect"
            \/ NetworkConnect(w) /\ job'[w].pc = "sessionput"
            \/ SessionPut(w) /\ job'[w].pc = "create"
            \/ /\ \E c \in Containers : ContainerCreate(w, c)
               /\ job'[w].pc \in {"ips", "undo"}
            \/ ContainerIPs(w) /\ job'[w].pc \in {"instanceput", "undo"} /\ job'[w].c = job[w].c
            \/ InstancePut(w) /\ job'[w].pc \in {"announce", "undo"}
            \/ UndoDisconnect(w) /\ job'[w].pc \in UndoPcs
            \/ UndoNetwork(w) /\ job'[w].pc \in UndoPcs
<1>1. w \in Requests /\ w \notin Sessions /\ DOMAIN job = Workers /\ job[w] \in Job(RequestPcs)
  BY LifecycleAssumption DEF IInv, JobPart, Jobs, Fits, JobTypes
<1>2. ~Return(w)
  BY <1>1 DEF Return, Idle
<1>3. \A p \in RequestPcs : Goto(w, p) =>
        job'[w].pc = p /\ job'[w].s = job[w].s /\ job'[w].c = job[w].c
  BY <1>1, GoneOn
<1>4. InstanceFailed(w) => job'[w].pc = "undo" /\ job'[w].s = job[w].s /\ job'[w].c = job[w].c
  BY <1>2, <1>3 DEF InstanceFailed, RequestPcs
<1>5. \/ NetworkCreate(w) \/ NetworkConnect(w) \/ SessionPut(w) \/ Announce(w)
      \/ UndoDisconnect(w) \/ UndoNetwork(w) \/ UndoSession(w)
      \/ ContainerIPs(w) \/ InstancePut(w) \/ \E c \in Containers : ContainerCreate(w, c)
  <2>1. ~Arrive(w)
    BY DEF Arrive, SessionNew, NewInstance, StartClose, DeployStack, DeleteInstance, At,
           NewPlaces, NewPcs
  <2> QED
    BY <2>1 DEF WorkerStep, Proceed, At, NewPlaces, NewPcs, CheckEmpty,
           FindInstances, Waited, Disconnect, NetworkDelete, SessionDelete, InstanceGetSingle,
           ExecAttach, ReadyPut, KillContainer, DeleteRow
<1>6. ~Announce(w) /\ ~UndoSession(w)
  BY <1>2 DEF Announce, UndoSession
<1>7. CASE NetworkCreate(w)
  BY <1>2, <1>3, <1>7 DEF NetworkCreate, RequestPcs
<1>8. CASE NetworkConnect(w)
  BY <1>2, <1>3, <1>8 DEF NetworkConnect, RequestPcs
<1>9. CASE SessionPut(w)
  BY <1>2, <1>3, <1>9 DEF SessionPut, RequestPcs
<1>10. CASE \E c \in Containers : ContainerCreate(w, c)
  <2>1. CASE InstanceFailed(w)
    BY <1>4, <1>10, <2>1
  <2>2. PICK c \in Containers : ContainerCreate(w, c)
    BY <1>10
  <2>3. CASE job' = [job EXCEPT ![w].pc = "ips", ![w].c = c]
    BY <1>1, <1>10, <2>3 DEF Job
  <2> QED
    BY <2>1, <2>2, <2>3 DEF ContainerCreate
<1>11. CASE ContainerIPs(w)
  BY <1>3, <1>4, <1>11 DEF ContainerIPs, RequestPcs
<1>12. CASE InstancePut(w)
  BY <1>3, <1>4, <1>12 DEF InstancePut, RequestPcs
<1>13. CASE UndoDisconnect(w)
  BY <1>3, <1>13 DEF UndoDisconnect, RequestPcs, UndoPcs
<1>14. CASE UndoNetwork(w)
  BY <1>3, <1>14 DEF UndoNetwork, RequestPcs, UndoPcs
<1> QED
  BY <1>5, <1>6, <1>7, <1>8, <1>9, <1>10, <1>11, <1>12, <1>13, <1>14

(* Another one that is now under way has just drawn a new id.              *)
LEMMA NewBegins ==
  ASSUME IInv, NEW w \in Workers, WorkerStep(w),
         job[w].op # "new", job'[w].op = "new"
  PROVE  /\ job'[w].s \in Sessions \ created /\ job'[w].pc = "network"
         /\ UNCHANGED <<sessions, networks, running, rows, events, announced, ended, faults>>
<1>1. DOMAIN job = Workers /\ job[w] \in Job(RequestPcs \cup WatcherPcs)
  BY DEF IInv, JobPart, JobTypes, Workers, Job
<1>2. \A p : Goto(w, p) => job'[w].op # "new"
  BY <1>1 DEF Goto, Job
<1>3. ~Return(w)
  BY <1>1 DEF Return, Idle
<1>4. ~InstanceFailed(w)
  BY <1>2, <1>3 DEF InstanceFailed
<1>5. \A c \in Containers : ~ContainerCreate(w, c) /\ ~KillContainer(w, c) /\ ~DeleteRow(w, c)
  BY <1>1, <1>4 DEF ContainerCreate, KillContainer, DeleteRow, Job
<1>6. ~FindInstances(w) /\ ~InstanceGetSingle(w)
  BY <1>1, <1>3 DEF FindInstances, InstanceGetSingle, Job
<1>7. ~Proceed(w)
  BY <1>2, <1>3, <1>4, <1>5, <1>6
     DEF Proceed, NetworkCreate, NetworkConnect, SessionPut, Announce, SessionDelete,
         UndoDisconnect, UndoNetwork, UndoSession, CheckEmpty, ContainerIPs, InstancePut,
         Waited, Disconnect, NetworkDelete, ExecAttach, ReadyPut
<1>8. PICK s \in Sessions : SessionNew(w, s)
  <2>1. \A s \in Sessions : ~NewInstance(w, s) /\ ~StartClose(w, s) /\ ~DeployStack(w, s)
    BY <1>1 DEF NewInstance, StartClose, DeployStack, Begin, Idle
  <2>2. \A s \in Sessions, c \in Containers : ~DeleteInstance(w, s, c)
    BY <1>1 DEF DeleteInstance, Idle
  <2> QED
    BY <1>7, <2>1, <2>2 DEF WorkerStep, Arrive
<1>9. job'[w].s = s /\ job'[w].pc = "network"
  BY <1>1, <1>8 DEF SessionNew, Begin, Idle
<1> QED
  BY <1>8, <1>9 DEF SessionNew, docker, calls

-----------------------------------------------------------------------------
(* Every session is watched.                                               *)

(* A session that was announced is stored until it is ended; one that is   *)
(* being made is stored once SessionPut is over.                           *)
Kept == announced \ ended \subseteq sessions
Made == \A w \in Workers : job[w].op = "new" =>
          /\ job[w].pc \in NewPlaces
          /\ job[w].pc \in StoredPcs => job[w].s \in sessions

(* Before Start listens there are no requests and no news of sessions.     *)
Silent == ~listening => /\ handling = None
                        /\ \A w \in Requests : job[w].pc = "idle"
                        /\ \A e \in events : e.type # "SESSION_NEW"

Ends == \A e \in events : e.type = "SESSION_END" => e.s \in ended

(* The goroutine of a session closes it after it has expired, and leaves   *)
(* one that is scheduled for no other reason.                              *)
Watchers == \A s \in Sessions :
  /\ job[s].pc \in ClosingPcs => s \in expired
  /\ job[s].pc = "leaving" => s \in expired \/ s \notin scheduledSessions

Seen == \A s \in announced \ (ended \cup expired) :
  \/ s \in scheduledSessions \cup toSchedule
  \/ SessionNewEvent(s) \in events \cup {handling}

WatchInv == Kept /\ Made /\ Silent /\ Ends /\ Watchers /\ Seen

(* The initial state.                                                      *)
LEMMA InitWatch == SchedInit => WatchInv
BY DEF SchedInit, Init, WatchInv, Kept, Made, Silent, Ends, Watchers, Seen, Idle, ClosingPcs, Workers

(* A worker's step.                                                        *)
LEMMA WorkerWatch ==
  ASSUME IInv, WatchInv, NEW w \in Workers, WorkerStep(w)
  PROVE  WatchInv'
<1> USE DEF WatchInv
<1>1. UNCHANGED <<toSchedule, listening, handling, scheduledSessions, expired>>
  BY DEF WorkerStep, schedVars, starting, scheduled
<1>2. \A v \in Workers : v # w => job'[v] = job[v]
  BY OwnJob
<1>3. Kept'
  <2> SUFFICES ASSUME NEW s \in announced', s \notin ended' PROVE s \in sessions'
    BY DEF Kept
  <2>1. CASE s \in announced
    <3>1. s \in sessions
      BY <2>1, Records DEF Kept
    <3>2. job[w].op = "new" => job[w].s \notin announced
      BY DEF IInv, JobPart, Jobs, Fits
    <3> QED
      BY <2>1, <3>1, <3>2, Records
  <2>2. CASE s \notin announced
    BY <2>2, Records DEF Made, StoredPcs
  <2> QED
    BY <2>1, <2>2
<1>4. Made'
  <2> SUFFICES ASSUME NEW v \in Workers, job'[v].op = "new"
               PROVE  /\ job'[v].pc \in NewPlaces
                      /\ job'[v].pc \in StoredPcs => job'[v].s \in sessions'
    BY DEF Made
  <2>1. CASE v # w
    <3>1. job[v] = job'[v]
      BY <1>2, <2>1
    <3>2. job[w].s # job[v].s
      BY <2>1, <3>1 DEF IInv, JobPart, Alone
    <3> QED
      BY <3>1, <3>2, Records DEF Made
  <2>2. CASE v = w /\ job[w].op # "new"
    BY <2>2, NewBegins DEF NewPlaces, NewPcs, StoredPcs
  <2>3. CASE v = w /\ job[w].op = "new"
    <3>1. job[w].pc \in NewPlaces
      BY <2>3 DEF Made
    <3>2. job'[w].pc \in NewPlaces
      BY <2>3, <3>1, NewGoesOn DEF NewPlaces, NewPcs, UndoPcs
    <3>3. ASSUME job'[w].pc \in StoredPcs PROVE job'[w].s \in sessions'
      <4>1. /\ job'[w].s = job[w].s
            /\ \/ SessionPut(w)
               \/ /\ job[w].pc \in StoredPcs
                  /\ sessions' = sessions
        BY <2>3, <3>1, <3>3, NewGoesOn DEF StoredPcs, UndoPcs, At, ContainerCreate, ContainerIPs,
           InstancePut, store
      <4>2. job[w].pc \in StoredPcs => job[w].s \in sessions
        BY <2>3 DEF Made
      <4> QED
        BY <4>1, <4>2 DEF SessionPut
    <3> QED
      BY <2>3, <3>2, <3>3
  <2> QED
    BY <2>1, <2>2, <2>3
<1>5. Silent'
  <2> SUFFICES ASSUME ~listening
               PROVE  /\ \A v \in Requests : job'[v].pc = "idle"
                      /\ \A e \in events' : e.type # "SESSION_NEW"
    BY <1>1 DEF Silent
  <2>1. w \notin Requests
    <3>1. w \in Requests => job[w].pc = "idle"
      BY DEF Silent
    <3>2. job[w].pc = "idle" => ~Proceed(w)
      BY DEF Proceed, At, NetworkCreate, NetworkConnect, SessionPut, Announce,
           UndoDisconnect, UndoNetwork, UndoSession, CheckEmpty, ContainerIPs, InstancePut,
           FindInstances, Waited, Disconnect, NetworkDelete, SessionDelete, InstanceGetSingle,
           ExecAttach, ReadyPut, ContainerCreate, KillContainer, DeleteRow
    <3> QED
      BY <3>1, <3>2 DEF WorkerStep
  <2> QED
    BY <1>2, <2>1, Telling DEF Silent, Workers
<1>6. Ends'
  BY Telling, Records DEF Ends
<1>7. Watchers'
  BY <1>1, <1>2, OwnJob DEF Watchers, Workers, ClosingPcs
<1>8. Seen'
  BY <1>1, Telling, Records DEF Seen
<1> QED
  BY <1>3, <1>4, <1>5, <1>6, <1>7, <1>8

(* Steps that change none of these: of Docker, and of the instances.       *)
LEMMA OtherWatch ==
  ASSUME WatchInv,
         UNCHANGED <<sessions, announced, ended, events, job, toSchedule, listening, handling,
                     scheduledSessions, expired>>
  PROVE  WatchInv'
BY DEF WatchInv, Kept, Made, Silent, Ends, Watchers, Seen

(* The expiry goroutine of a session is started, or there is one already.  *)
LEMMA StartedWatch ==
  ASSUME IInv, WatchInv, NEW s \in Sessions, ScheduleSession(s),
         UNCHANGED <<sessions, announced, ended, events, listening, expired>>,
         \/ s \in toSchedule /\ toSchedule' = toSchedule \ {s} /\ handling' = handling
         \/ handling = SessionNewEvent(s) /\ handling' = None /\ toSchedule' = toSchedule
  PROVE  WatchInv'
<1> USE DEF WatchInv
<1>1. DOMAIN job = Workers /\ s \in Workers /\ s \notin Requests
  BY LifecycleAssumption DEF IInv, JobPart, JobTypes, Workers
<1>2. /\ scheduledSessions' = scheduledSessions \cup {s}
      /\ \A v \in Workers : v # s => job'[v] = job[v]
      /\ \/ job'[s] = job[s] /\ s \in scheduledSessions
         \/ job'[s].pc = "waiting" /\ job'[s].op = "none"
  BY <1>1 DEF ScheduleSession, WithJob, Idle
<1>3. Kept' /\ Ends'
  BY DEF Kept, Ends
<1>4. Made'
  BY <1>2 DEF Made
<1>5. Silent'
  BY <1>1, <1>2 DEF Silent, Workers
<1>6. Watchers'
  BY <1>1, <1>2 DEF Watchers, Workers, ClosingPcs
<1>7. Seen'
  <2>1. \A e \in Sessions : SessionNewEvent(e).s = e
    BY DEF SessionNewEvent, Event
  <2> QED
    BY <1>2, <2>1 DEF Seen, IInv, StateTypes
<1> QED
  BY <1>3, <1>4, <1>5, <1>6, <1>7

(* Start, before it listens.                                               *)
LEMMA StartingWatch ==
  ASSUME IInv, WatchInv, Starting
  PROVE  WatchInv'
<1> USE DEF vars, starting, scheduled, store, names
<1>1. ASSUME NEW s \in Sessions, StartSession(s) PROVE WatchInv'
  BY <1>1, StartedWatch DEF StartSession
<1>2. CASE StartReads \/ \E c \in Containers : StartInstance(c)
  BY <1>2, OtherWatch DEF StartReads, StartInstance
<1>3. CASE StartListens
  <2>1. listening' = TRUE
    BY <1>3 DEF StartListens
  <2>2. UNCHANGED <<sessions, announced, ended, events, job, toSchedule, handling,
                    scheduledSessions, expired>>
    BY <1>3 DEF StartListens
  <2> QED
    BY <2>1, <2>2 DEF WatchInv, Kept, Made, Silent, Ends, Watchers, Seen
<1> QED
  BY <1>1, <1>2, <1>3 DEF Starting

(* A restart: Start has every stored session to schedule.                  *)
LEMMA CrashWatch ==
  ASSUME IInv, WatchInv, Crash
  PROVE  WatchInv'
<1>1. \A w \in Workers : job'[w] = Idle
  BY DEF Crash
<1>2. /\ UNCHANGED <<sessions, announced, ended>>
      /\ events' = {} /\ handling' = None /\ toSchedule' = sessions
  BY DEF Crash, names
<1>3. Kept' /\ Ends' /\ Seen'
  BY <1>2 DEF WatchInv, Kept, Ends, Seen
<1>4. Made' /\ Watchers'
  BY <1>1 DEF Made, Watchers, Workers, Idle, ClosingPcs
<1>5. Silent'
  BY <1>1, <1>2 DEF Silent, Workers, Idle
<1> QED
  BY <1>3, <1>4, <1>5 DEF WatchInv

(* The delivery of an event.                                               *)
LEMMA DeliverWatch ==
  ASSUME IInv, WatchInv, NEW e \in events, Deliver(e)
  PROVE  WatchInv'
<1> USE DEF WatchInv, Deliverable, store, names, calls, schedVars, starting, scheduled
<1>1. /\ UNCHANGED <<sessions, announced, ended, job, toSchedule, listening, expired>>
      /\ events' = events \ {e} /\ handling = None
      /\ scheduledSessions' \subseteq scheduledSessions
  BY DEF Deliver, Unheard, HandleNew, HandleSessionEnd, HandleInstanceDelete
<1>2. Kept' /\ Made' /\ Ends' /\ Watchers'
  BY <1>1 DEF Kept, Made, Ends, Watchers
<1>3. Silent'
  BY <1>1 DEF Silent, Deliver, Unheard, HandleNew, HandleSessionEnd, HandleInstanceDelete
<1>4. Seen'
  <2> SUFFICES ASSUME NEW s \in announced, s \notin ended, s \notin expired
               PROVE  \/ s \in scheduledSessions' \cup toSchedule'
                      \/ SessionNewEvent(s) \in events' \cup {handling'}
    BY <1>1 DEF Seen
  <2>1. SessionNewEvent(s).type = "SESSION_NEW" /\ SessionNewEvent(s).s = s
    BY DEF SessionNewEvent, Event
  <2>2. s \in sessions
    BY DEF Kept
  <2>3. SessionNewEvent(s) # None
    <3>1. SessionNewEvent(s) \in Events
      BY DEF SessionNewEvent, Event, Events, IInv, StateTypes
    <3> QED
      BY <3>1, SchedulerAssumption
  <2>4. s \in scheduledSessions \cup toSchedule \/ SessionNewEvent(s) \in events
    BY <1>1, <2>3 DEF Seen
  <2>5. CASE Unheard(e)
    BY <1>1, <2>1, <2>4, <2>5 DEF Unheard, Silent
  <2>6. CASE HandleNew(e)
    <3>1. e = SessionNewEvent(s) => handling' = e
      BY <2>1, <2>2, <2>6 DEF HandleNew, StillStored
    <3> QED
      BY <1>1, <2>4, <2>6, <3>1 DEF HandleNew
  <2>7. CASE HandleSessionEnd(e)
    BY <1>1, <2>1, <2>4, <2>7 DEF HandleSessionEnd, Ends
  <2>8. CASE HandleInstanceDelete(e)
    BY <1>1, <2>1, <2>4, <2>8 DEF HandleInstanceDelete
  <2> QED
    BY <2>5, <2>6, <2>7, <2>8 DEF Deliver
<1> QED
  BY <1>2, <1>3, <1>4

(* The second half of the handlers of SESSION_NEW and INSTANCE_NEW.        *)
LEMMA ScheduleWatch ==
  ASSUME IInv, WatchInv, Schedule
  PROVE  WatchInv'
<1> USE DEF starting, store, names
<1>1. handling \in Events /\ handling' = None
  BY DEF Schedule, IInv, StateTypes
<1>2. CASE handling.type = "SESSION_NEW"
  <2>1. handling = SessionNewEvent(handling.s) /\ handling.s \in Sessions
    BY <1>1, <1>2 DEF Events, SessionNewEvent, Event
  <2> QED
    BY <1>1, <1>2, <2>1, StartedWatch DEF Schedule
<1>3. CASE handling.type # "SESSION_NEW"
  <2>1. UNCHANGED <<sessions, announced, ended, events, job, toSchedule, listening,
                    scheduledSessions, expired>>
    BY <1>3 DEF Schedule
  <2>2. \A s : SessionNewEvent(s).type = "SESSION_NEW"
    BY DEF SessionNewEvent, Event
  <2>3. Kept' /\ Made' /\ Ends' /\ Watchers' /\ Silent'
    BY <1>1, <2>1 DEF WatchInv, Kept, Made, Ends, Watchers, Silent
  <2>4. Seen'
    BY <1>3, <2>1, <2>2 DEF WatchInv, Seen
  <2> QED
    BY <2>3, <2>4 DEF WatchInv
<1> QED
  BY <1>2, <1>3

(* The goroutine of a session expires it, is cancelled, or leaves.         *)
LEMMA WatcherWatch ==
  ASSUME IInv, WatchInv, NEW s \in Sessions, Expire(s) \/ Cancelled(s) \/ Leave(s)
  PROVE  WatchInv'
<1> USE DEF At, schedVars, starting, scheduled, store, names
<1>1. /\ UNCHANGED <<sessions, announced, ended, events, toSchedule, listening, handling>>
      /\ expired \subseteq expired'
      /\ job[s].pc \in {"waiting", "leaving"}
  BY DEF Expire, Cancelled, Leave
<1>2. s \in Workers /\ s \notin Requests /\ DOMAIN job = Workers /\ job[s] \in Job(WatcherPcs)
  BY LifecycleAssumption DEF Workers, IInv, JobPart, JobTypes
<1>3. job[s].op # "new"
  BY <1>2 DEF IInv, JobPart, Jobs, Fits
<1>4. /\ \A v \in Workers : v # s => job'[v] = job[v]
      /\ job'[s].op # "new"
      /\ \/ Expire(s)
         \/ Cancelled(s) /\ job'[s].pc = "leaving"
         \/ Leave(s) /\ job'[s].pc = "idle"
  <2>1. CASE Expire(s)
    BY <1>2, <2>1 DEF Expire, Job
  <2>2. CASE Cancelled(s)
    BY <1>2, <2>2 DEF Cancelled, Return, Idle
  <2>3. CASE Leave(s)
    BY <1>2, <2>3 DEF Leave, Idle
  <2> QED
    BY <2>1, <2>2, <2>3
<1>5. Kept' /\ Ends' /\ Made'
  BY <1>1, <1>4 DEF WatchInv, Kept, Ends, Made
<1>6. Silent'
  BY <1>1, <1>2, <1>4 DEF WatchInv, Silent, Workers
<1>7. Watchers' /\ Seen'
  <2>1. CASE Expire(s)
    <3>1. expired' = expired \cup {s} /\ scheduledSessions' = scheduledSessions
      BY <2>1 DEF Expire
    <3> QED
      BY <1>1, <1>4, <3>1 DEF WatchInv, Watchers, Seen, Workers, ClosingPcs
  <2>2. CASE Cancelled(s)
    <3>1. UNCHANGED <<expired, scheduledSessions>> /\ s \notin scheduledSessions
      BY <2>2 DEF Cancelled
    <3>2. job'[s].pc \notin ClosingPcs
      BY <1>2, <2>2 DEF Cancelled, Return, Idle, ClosingPcs
    <3> QED
      BY <1>1, <1>4, <3>1, <3>2 DEF WatchInv, Watchers, Seen, Workers
  <2>3. CASE Leave(s)
    <3>1. expired' = expired /\ scheduledSessions' = scheduledSessions \ {s}
      BY <2>3 DEF Leave
    <3>2. job[s].pc = "leaving"
      BY <2>3 DEF Leave
    <3>3. job'[s].pc = "idle"
      BY <1>2, <2>3 DEF Leave, Idle
    <3> QED
      BY <1>1, <1>4, <3>1, <3>2, <3>3 DEF WatchInv, Watchers, Seen, Workers, ClosingPcs
  <2> QED
    BY <2>1, <2>2, <2>3
<1> QED
  BY <1>5, <1>6, <1>7 DEF WatchInv

(* Every step of the server.                                               *)
LEMMA NextWatch == IInv /\ WatchInv /\ [Next]_allVars => WatchInv'
<1> SUFFICES ASSUME IInv, WatchInv, [Next]_allVars PROVE WatchInv'
  OBVIOUS
<1>1. CASE UNCHANGED allVars
  BY <1>1, OtherWatch DEF allVars, vars, store, names, schedVars, starting, scheduled
<1>2. ASSUME NEW c \in Containers, Tick(c) \/ (ContainerExits(c) /\ UNCHANGED schedVars)
      PROVE  WatchInv'
  BY <1>2, OtherWatch DEF Tick, ContainerExits, vars, store, names, schedVars, starting, scheduled
<1>3. ASSUME NEW w \in Workers, WorkerStep(w) PROVE WatchInv'
  BY <1>3, WorkerWatch
<1>4. CASE Next
  BY <1>2, <1>3, <1>4, StartingWatch, CrashWatch, ScheduleWatch, DeliverWatch, WatcherWatch
     DEF Next, WorkerStep, Workers
<1> QED
  BY <1>1, <1>4

(* Every session a client was given and nobody has closed has a goroutine  *)
(* that will expire it, or one that is about to start it, through any      *)
(* number of requests, failing calls and restarts.                         *)
THEOREM AlwaysWatched == Spec => []StoredIsWatched
<1>1. SchedInit => IInv /\ WatchInv
  BY InitIInv, InitWatch
<1>2. IInv /\ WatchInv /\ [Next]_allVars => (IInv /\ WatchInv)'
  BY NextIInv, NextWatch
<1>3. WatchInv => StoredIsWatched
  BY DEF WatchInv, Seen, StoredIsWatched
<1> QED
  BY <1>1, <1>2, <1>3, PTL DEF Spec

-----------------------------------------------------------------------------
(* No session that is gone is watched for ever.                            *)

(* What Start has still to schedule nobody watches.                        *)
Starts == \A s \in toSchedule :
            s \in sessions /\ job[s].pc = "idle" /\ s \notin scheduledSessions

(* What a SessionNew is making nobody watches.                             *)
NewIsUnseen == \A w \in Workers :
  job[w].op = "new" => job[w].s \notin scheduledSessions \cup toSchedule

ScheduledWereMade == scheduledSessions \subseteq created

(* Who is watched, or about to be, and is gone, will be told, or is        *)
(* leaving already.                                                        *)
Ghosts == faults = 0 =>
  /\ \A s \in scheduledSessions \ sessions :
       (listening /\ SessionEndEvent(s) \in events) \/ job[s].pc = "leaving"
  /\ \A s \in Sessions \ sessions :
       handling = SessionNewEvent(s) => SessionEndEvent(s) \in events

GhostInv == Starts /\ NewIsUnseen /\ ScheduledWereMade /\ Ghosts

(* No event at all is None.                                                *)
LEMMA NewsIsSome == \A s \in Sessions : None # SessionNewEvent(s)
BY SchedulerAssumption DEF SessionNewEvent, Event, Events

(* The initial state.                                                      *)
LEMMA InitGhosts == SchedInit => GhostInv
<1> SUFFICES ASSUME SchedInit PROVE GhostInv
  OBVIOUS
<1>1. Ghosts
  BY NewsIsSome DEF SchedInit, Init, Ghosts
<1>2. Starts /\ NewIsUnseen /\ ScheduledWereMade
  BY DEF SchedInit, Init, Starts, NewIsUnseen, ScheduledWereMade, Idle
<1> QED
  BY <1>1, <1>2 DEF GhostInv

(* A failure is counted, and no worker starts the count again.             *)
LEMMA FaultsCount ==
  ASSUME IInv, NEW w \in Workers, WorkerStep(w), faults' = 0
  PROVE  faults = 0
<1>1. \/ faults' = faults \/ Ok \/ Fault \/ Saved \/ SaveFault
  BY DEF WorkerStep, Arrive, SessionNew, NewInstance, StartClose, DeployStack, DeleteInstance,
         Proceed, NetworkCreate, NetworkConnect, SessionPut, Announce,
         UndoDisconnect, UndoNetwork, UndoSession, CheckEmpty, ContainerIPs, InstancePut,
         FindInstances, Waited, Disconnect, NetworkDelete, SessionDelete, InstanceGetSingle,
         ExecAttach, ReadyPut, ContainerCreate, KillContainer, DeleteRow, calls
<1>2. faults \in Nat
  BY LifecycleAssumption DEF IInv, StateTypes
<1> QED
  BY <1>1, <1>2 DEF Ok, Fault, Saved, SaveFault, calls

(* A worker's step.                                                        *)
LEMMA WorkerGhosts ==
  ASSUME IInv, WatchInv, GhostInv, NEW w \in Workers, WorkerStep(w)
  PROVE  GhostInv'
<1>1. UNCHANGED <<toSchedule, listening, handling, scheduledSessions>>
  BY DEF WorkerStep, schedVars, starting, scheduled
<1>2. \A v \in Workers : v # w => job'[v] = job[v]
  BY OwnJob
<1>3. created \subseteq created'
  BY DEF WorkerStep, Arrive, SessionNew, NewInstance, StartClose, DeployStack, DeleteInstance,
         Proceed, NetworkCreate, NetworkConnect, SessionPut, Announce,
         UndoDisconnect, UndoNetwork, UndoSession, CheckEmpty, ContainerIPs, InstancePut,
         FindInstances, Waited, Disconnect, NetworkDelete, SessionDelete, InstanceGetSingle,
         ExecAttach, ReadyPut, ContainerCreate, KillContainer, DeleteRow, names
<1>4. ScheduledWereMade'
  BY <1>1, <1>3 DEF GhostInv, ScheduledWereMade
<1>5. w \in Requests => listening
  <2>1. job[w].pc = "idle" => ~Proceed(w)
    BY DEF Proceed, At, NetworkCreate, NetworkConnect, SessionPut, Announce,
         UndoDisconnect, UndoNetwork, UndoSession, CheckEmpty, ContainerIPs, InstancePut,
         FindInstances, Waited, Disconnect, NetworkDelete, SessionDelete, InstanceGetSingle,
         ExecAttach, ReadyPut, ContainerCreate, KillContainer, DeleteRow
  <2> QED
    BY <2>1 DEF WorkerStep, WatchInv, Silent
<1>6. w \in Sessions =>
        job[w].s \in {w, None} /\ job[w].op # "new" /\ job[w].pc # "idle"
  BY OwnJob, LifecycleAssumption DEF IInv, JobPart, Jobs, Fits, ClosingPcs
<1>7. Starts'
  <2> SUFFICES ASSUME NEW s \in toSchedule
               PROVE  s \in sessions' /\ job'[s].pc = "idle"
    BY <1>1 DEF Starts, GhostInv
  <2>1. w \in Sessions /\ s \in Sessions
    BY <1>5 DEF Workers, IInv, StateTypes, News
  <2>2. s # w /\ s \in sessions /\ job[s].pc = "idle"
    BY <1>6, <2>1 DEF GhostInv, Starts
  <2>3. s \in sessions'
    BY <1>6, <2>1, <2>2, LifecycleAssumption, Records
  <2> QED
    BY <1>2, <2>1, <2>2, <2>3 DEF Workers
<1>8. NewIsUnseen'
  <2> SUFFICES ASSUME NEW v \in Workers, job'[v].op = "new"
               PROVE  job'[v].s \notin scheduledSessions \cup toSchedule
    BY <1>1 DEF NewIsUnseen
  <2>1. CASE v # w
    BY <1>2, <2>1 DEF GhostInv, NewIsUnseen
  <2>2. CASE v = w /\ job[w].op # "new"
    BY <2>2, NewBegins DEF GhostInv, ScheduledWereMade, IInv, News
  <2>3. CASE v = w /\ job[w].op = "new"
    BY <2>3, NewGoesOn DEF GhostInv, NewIsUnseen, WatchInv, Made
  <2> QED
    BY <2>1, <2>2, <2>3
<1>9. Ghosts'
  <2> SUFFICES ASSUME faults' = 0
               PROVE  /\ \A s \in scheduledSessions \ sessions' :
                           \/ listening /\ SessionEndEvent(s) \in events'
                           \/ job'[s].pc = "leaving"
                      /\ \A s \in Sessions \ sessions' :
                           handling = SessionNewEvent(s) => SessionEndEvent(s) \in events'
    BY <1>1 DEF Ghosts
  <2>1. faults = 0 /\ events \subseteq events'
    BY FaultsCount, Telling
  <2>2. ASSUME NEW s \in scheduledSessions \ sessions'
        PROVE  (listening /\ SessionEndEvent(s) \in events') \/ job'[s].pc = "leaving"
    <3>1. CASE s \in sessions
      <4>1. s = job[w].s /\ job[w].op # "new"
        BY <2>2, <3>1, Records DEF GhostInv, NewIsUnseen
      <4>2. SessionEndEvent(s) \in events' /\ (w \in Sessions => job'[w].pc = "leaving")
        BY <2>2, <3>1, <4>1, EndIsTold
      <4>3. s # None
        BY <2>2, LifecycleAssumption DEF IInv, StateTypes
      <4> QED
        BY <1>5, <1>6, <4>1, <4>2, <4>3 DEF Workers
    <3>2. CASE s \notin sessions
      <4>1. (listening /\ SessionEndEvent(s) \in events) \/ job[s].pc = "leaving"
        BY <2>1, <2>2, <3>2 DEF GhostInv, Ghosts
      <4>2. s \in Sessions /\ s \in Workers
        BY <2>2 DEF IInv, StateTypes, Workers
      <4>3. job[s].pc = "leaving" => s # w
        BY <4>2, OwnJob DEF ClosingPcs
      <4> QED
        BY <1>2, <2>1, <4>1, <4>2, <4>3
    <3> QED
      BY <3>1, <3>2
  <2>3. ASSUME NEW s \in Sessions \ sessions', handling = SessionNewEvent(s)
        PROVE  SessionEndEvent(s) \in events'
    <3>1. CASE s \in sessions
      <4>1. s \in announced
        <5>1. handling \in Events /\ handling.type = "SESSION_NEW" /\ handling.s = s
          BY <2>3 DEF SessionNewEvent, Event, Events
        <5> QED
          BY <5>1, SchedulerAssumption DEF IInv, News
      <4>2. s = job[w].s /\ job[w].op # "new"
        BY <2>3, <3>1, <4>1, Records DEF IInv, JobPart, Jobs, Fits
      <4> QED
        BY <2>3, <3>1, <4>2, EndIsTold
    <3>2. CASE s \notin sessions
      BY <2>1, <2>3, <3>2 DEF GhostInv, Ghosts
    <3> QED
      BY <3>1, <3>2
  <2> QED
    BY <2>2, <2>3
<1> QED
  BY <1>4, <1>7, <1>8, <1>9 DEF GhostInv

(* Steps that change none of these.                                        *)
LEMMA OtherGhosts ==
  ASSUME GhostInv,
         UNCHANGED <<sessions, created, events, job, faults, toSchedule, listening, handling,
                     scheduledSessions>>
  PROVE  GhostInv'
BY DEF GhostInv, Starts, NewIsUnseen, ScheduledWereMade, Ghosts

(* The expiry goroutine of a session is started, or there is one already.  *)
LEMMA StartedGhosts ==
  ASSUME IInv, GhostInv, NEW s \in created, ScheduleSession(s),
         UNCHANGED <<sessions, created, announced, events, faults, listening>>,
         \A w \in Workers : job[w].op = "new" => job[w].s # s,
         \/ s \in toSchedule /\ toSchedule' = toSchedule \ {s} /\ handling' = handling
         \/ /\ handling = SessionNewEvent(s) /\ handling' = None /\ listening
            /\ toSchedule' = toSchedule
  PROVE  GhostInv'
<1> USE DEF GhostInv
<1>1. DOMAIN job = Workers /\ s \in Workers /\ s \in Sessions /\ s \notin Requests
  BY LifecycleAssumption DEF IInv, JobPart, JobTypes, StateTypes, Workers
<1>2. /\ scheduledSessions' = scheduledSessions \cup {s}
      /\ \A v \in Workers : v # s => job'[v] = job[v]
      /\ \/ job'[s] = job[s] /\ s \in scheduledSessions
         \/ /\ job'[s].pc = "waiting" /\ job'[s].op = "none"
            /\ s \notin scheduledSessions
  BY <1>1 DEF ScheduleSession, WithJob, Idle
<1>3. ScheduledWereMade'
  BY <1>2 DEF ScheduledWereMade
<1>4. NewIsUnseen'
  BY <1>2 DEF NewIsUnseen
<1>5. Starts'
  <2>1. toSchedule' # {} => s \in toSchedule /\ toSchedule' = toSchedule \ {s}
    BY DEF IInv, News
  <2>2. toSchedule \subseteq Workers
    BY DEF IInv, StateTypes, Workers
  <2> QED
    BY <1>2, <2>1, <2>2 DEF Starts
<1>6. Ghosts'
  <2> SUFFICES ASSUME faults = 0
               PROVE  /\ \A u \in scheduledSessions' \ sessions :
                           \/ listening /\ SessionEndEvent(u) \in events
                           \/ job'[u].pc = "leaving"
                      /\ \A u \in Sessions \ sessions :
                           handling' = SessionNewEvent(u) => SessionEndEvent(u) \in events
    BY DEF Ghosts
  <2>1. s \in sessions \/ (listening /\ SessionEndEvent(s) \in events)
    BY <1>1 DEF Ghosts, Starts
  <2>2. scheduledSessions \subseteq Workers
    BY DEF IInv, StateTypes, Workers
  <2>3. \A u \in scheduledSessions' \ sessions :
          (listening /\ SessionEndEvent(u) \in events) \/ job'[u].pc = "leaving"
    BY <1>2, <2>1, <2>2 DEF Ghosts
  <2> QED
    BY <2>3, NewsIsSome DEF Ghosts
<1> QED
  BY <1>3, <1>4, <1>5, <1>6

(* Start, before it listens.                                               *)
LEMMA StartingGhosts ==
  ASSUME IInv, WatchInv, GhostInv, Starting
  PROVE  GhostInv'
<1> USE DEF vars, starting, scheduled, store, names, calls
<1>1. ASSUME NEW s \in Sessions, StartSession(s) PROVE GhostInv'
  <2>1. \A w \in Workers : job[w].op = "new" => job[w].s # s
    BY <1>1 DEF GhostInv, NewIsUnseen, StartSession
  <2> QED
    BY <1>1, <2>1, StartedGhosts DEF StartSession, IInv, News
<1>2. CASE StartReads \/ \E c \in Containers : StartInstance(c)
  BY <1>2, OtherGhosts DEF StartReads, StartInstance
<1>3. CASE StartListens
  <2>1. listening' = TRUE
    BY <1>3 DEF StartListens
  <2>2. UNCHANGED <<sessions, created, events, job, faults, toSchedule, handling,
                    scheduledSessions>>
    BY <1>3 DEF StartListens
  <2> QED
    BY <2>1, <2>2 DEF GhostInv, Starts, NewIsUnseen, ScheduledWereMade, Ghosts
<1> QED
  BY <1>1, <1>2, <1>3 DEF Starting

(* A restart: nobody watches and nobody works.                             *)
LEMMA CrashGhosts ==
  ASSUME IInv, Crash
  PROVE  GhostInv'
<1>1. \A w \in Workers : job'[w] = Idle
  BY DEF Crash
<1>2. scheduledSessions' = {} /\ handling' = None /\ toSchedule' = sessions'
      /\ sessions' \subseteq Sessions
  BY DEF Crash, names, IInv, StateTypes
<1>3. Starts' /\ NewIsUnseen'
  BY <1>1, <1>2 DEF Starts, NewIsUnseen, Workers, Idle
<1>4. ScheduledWereMade' /\ Ghosts'
  BY <1>2, NewsIsSome DEF ScheduledWereMade, Ghosts
<1> QED
  BY <1>3, <1>4 DEF GhostInv

(* The delivery of an event.                                               *)
LEMMA DeliverGhosts ==
  ASSUME IInv, GhostInv, NEW e \in events, Deliver(e)
  PROVE  GhostInv'
<1> USE DEF GhostInv, Deliverable, store, names, calls, schedVars, starting, scheduled
<1>1. /\ UNCHANGED <<sessions, created, job, faults, toSchedule, listening>>
      /\ events' = events \ {e} /\ handling = None
      /\ scheduledSessions' \subseteq scheduledSessions
  BY DEF Deliver, Unheard, HandleNew, HandleSessionEnd, HandleInstanceDelete
<1>2. Starts' /\ NewIsUnseen' /\ ScheduledWereMade'
  BY <1>1 DEF Starts, NewIsUnseen, ScheduledWereMade
<1>3. \A s \in Sessions : handling' = SessionNewEvent(s) => s \in sessions
  <2>1. \A s : SessionNewEvent(s).type = "SESSION_NEW" /\ SessionNewEvent(s).s = s
    BY DEF SessionNewEvent, Event
  <2>2. handling' = None \/ (handling' = e /\ StillStored(e))
    BY <1>1 DEF Deliver, Unheard, HandleNew, HandleSessionEnd, HandleInstanceDelete
  <2> QED
    BY <2>1, <2>2, NewsIsSome DEF StillStored
<1>4. ASSUME NEW s \in scheduledSessions', s \notin sessions, faults = 0
      PROVE  (listening /\ SessionEndEvent(s) \in events') \/ job[s].pc = "leaving"
  <2>1. SessionEndEvent(s).type = "SESSION_END" /\ SessionEndEvent(s).s = s
    BY DEF SessionEndEvent, Event
  <2>2. s \in scheduledSessions
    BY <1>1
  <2>3. listening => e # SessionEndEvent(s)
    BY <2>1, <1>4 DEF Deliver, Unheard, HandleNew, HandleSessionEnd, HandleInstanceDelete
  <2> QED
    BY <1>1, <1>4, <2>2, <2>3 DEF Ghosts
<1>5. Ghosts'
  BY <1>1, <1>3, <1>4 DEF Ghosts
<1> QED
  BY <1>2, <1>5

(* The second half of the handlers of SESSION_NEW and INSTANCE_NEW.        *)
LEMMA ScheduleGhosts ==
  ASSUME IInv, WatchInv, GhostInv, Schedule
  PROVE  GhostInv'
<1> USE DEF starting, store, names, calls
<1>1. handling \in Events /\ handling' = None /\ listening
  BY DEF Schedule, IInv, StateTypes, WatchInv, Silent
<1>2. CASE handling.type = "SESSION_NEW"
  <2>1. handling = SessionNewEvent(handling.s)
    BY <1>1, <1>2 DEF Events, SessionNewEvent, Event
  <2>2. handling.s \in created /\ handling.s \in announced
    BY <1>1, <1>2 DEF IInv, News, Schedule
  <2>3. \A w \in Workers : job[w].op = "new" => job[w].s # handling.s
    BY <2>2 DEF IInv, JobPart, Jobs, Fits
  <2> QED
    BY <1>1, <1>2, <2>1, <2>2, <2>3, StartedGhosts DEF Schedule
<1>3. CASE handling.type # "SESSION_NEW"
  <2>1. UNCHANGED <<sessions, created, events, job, faults, toSchedule, listening,
                    scheduledSessions>>
    BY <1>3 DEF Schedule
  <2> QED
    BY <1>1, <2>1, NewsIsSome DEF GhostInv, Starts, NewIsUnseen, ScheduledWereMade, Ghosts
<1> QED
  BY <1>2, <1>3

(* The goroutine of a session expires it, is cancelled, or leaves.         *)
LEMMA WatcherGhosts ==
  ASSUME IInv, GhostInv, NEW s \in Sessions, Expire(s) \/ Cancelled(s) \/ Leave(s)
  PROVE  GhostInv'
<1> USE DEF At, schedVars, starting, scheduled, store, names, calls, GhostInv
<1>1. /\ UNCHANGED <<sessions, created, events, faults, toSchedule, listening, handling>>
      /\ scheduledSessions' \subseteq scheduledSessions
      /\ job[s].pc \in {"waiting", "leaving"}
  BY DEF Expire, Cancelled, Leave
<1>2. s \in Workers /\ DOMAIN job = Workers /\ job[s] \in Job(WatcherPcs) /\ s \notin Requests
  BY LifecycleAssumption DEF Workers, IInv, JobPart, JobTypes
<1>3. /\ \A v \in Workers : v # s => job'[v] = job[v]
      /\ job'[s].op # "new"
      /\ s \in scheduledSessions' => job[s].pc # "leaving"
  <2>1. CASE Expire(s)
    BY <1>2, <2>1 DEF Expire, Job
  <2>2. CASE Cancelled(s)
    BY <1>2, <2>2 DEF Cancelled, Return, Idle
  <2>3. CASE Leave(s)
    BY <1>2, <2>3 DEF Leave, Idle
  <2> QED
    BY <2>1, <2>2, <2>3
<1>4. Starts' /\ NewIsUnseen' /\ ScheduledWereMade'
  BY <1>1, <1>3 DEF Starts, NewIsUnseen, ScheduledWereMade, IInv, StateTypes, Workers
<1>5. Ghosts'
  BY <1>1, <1>3 DEF Ghosts, IInv, StateTypes, Workers
<1> QED
  BY <1>4, <1>5

(* Every step of the server.                                               *)
LEMMA NextGhosts == IInv /\ WatchInv /\ GhostInv /\ [Next]_allVars => GhostInv'
<1> SUFFICES ASSUME IInv, WatchInv, GhostInv, [Next]_allVars PROVE GhostInv'
  OBVIOUS
<1>1. CASE UNCHANGED allVars
  BY <1>1, OtherGhosts DEF allVars, vars, store, names, calls, schedVars, starting, scheduled
<1>2. ASSUME NEW c \in Containers, Tick(c) \/ (ContainerExits(c) /\ UNCHANGED schedVars)
      PROVE  GhostInv'
  BY <1>2, OtherGhosts
     DEF Tick, ContainerExits, vars, store, names, calls, schedVars, starting, scheduled
<1>3. ASSUME NEW w \in Workers, WorkerStep(w) PROVE GhostInv'
  BY <1>3, WorkerGhosts
<1>4. CASE Next
  BY <1>2, <1>3, <1>4, StartingGhosts, CrashGhosts, ScheduleGhosts, DeliverGhosts, WatcherGhosts
     DEF Next, WorkerStep, Workers
<1> QED
  BY <1>1, <1>4

(* When everything has settled and no call has failed, the scheduler       *)
(* watches no session that is gone, in whatever order the events of the    *)
(* session were delivered and however often the process was restarted.     *)
THEOREM NoGhostsEver == Spec => []NoGhosts
<1>1. SchedInit => IInv /\ WatchInv /\ GhostInv
  BY InitIInv, InitWatch, InitGhosts
<1>2. IInv /\ WatchInv /\ GhostInv /\ [Next]_allVars => (IInv /\ WatchInv /\ GhostInv)'
  BY NextIInv, NextWatch, NextGhosts
<1>3. IInv /\ GhostInv => NoGhosts
  BY DEF GhostInv, Ghosts, NoGhosts, Quiet, At, IInv, StateTypes, Workers
<1> QED
  BY <1>1, <1>2, <1>3, PTL DEF Spec

-----------------------------------------------------------------------------
(* No container is lost.                                                   *)

HandPcs == {"check", "create", "ips", "instanceput"}

(* A session that was ended has no network, and no SessionNew makes it one.*)
EndedIsCut == ended \cap networks = {}
NewIsFresh == \A w \in Workers : job[w].op = "new" => job[w].s \notin ended

(* Who adds a container works on a session a client was given, or makes    *)
(* it; the container it holds is one of that session.                      *)
Hands == \A w \in Workers :
  /\ job[w].pc \in HandPcs /\ job[w].op # "new" => job[w].s \in announced
  /\ job[w].pc \in {"ips", "instanceput"} =>
       job[w].c \in Containers /\ SessionOf[job[w].c] = job[w].s

(* In a session that is being made nothing runs but the container its      *)
(* SessionNew has just started.                                            *)
NewIsAlone == \A w \in Workers : job[w].op = "new" =>
  /\ job[w].pc \in {"network", "connect", "sessionput", "create"} => RunningIn(job[w].s) = {}
  /\ job[w].pc \in {"ips", "instanceput"} => RunningIn(job[w].s) \subseteq {job[w].c}
  /\ job[w].pc \in UndoPcs /\ faults = 0 => RunningIn(job[w].s) = {}

KnownInv == EndedIsCut /\ NewIsFresh /\ Hands /\ NewIsAlone /\ ContainersAreKnown

(* The initial state.                                                      *)
LEMMA InitKnown == SchedInit => KnownInv
BY DEF SchedInit, Init, KnownInv, EndedIsCut, NewIsFresh, Hands, NewIsAlone, HandPcs,
       ContainersAreKnown, NoLostContainer, Idle

(* What runs that did not: the container a request has just started.       *)
LEMMA RunsMore ==
  ASSUME IInv, NEW w \in Workers, WorkerStep(w)
  PROVE  \/ running' \subseteq running
         \/ \E c \in Containers :
              /\ running' = running \cup {c} /\ SessionOf[c] = job[w].s
              /\ job[w].pc = "create" /\ job'[w].pc = "ips" /\ w \in Requests
              /\ job'[w].c = c /\ job'[w].s = job[w].s /\ job'[w].op = job[w].op
<1>1. CASE \E c \in Containers : ContainerCreate(w, c)
  <2>1. PICK c \in Containers : ContainerCreate(w, c)
    BY <1>1
  <2>2. SessionOf[c] = job[w].s /\ job[w].pc = "create"
    BY <2>1 DEF ContainerCreate, At
  <2>3. w \in Requests /\ DOMAIN job = Workers /\ job[w] \in Job(RequestPcs)
    BY <2>2, OwnJob DEF ClosingPcs, Workers, IInv, JobPart, JobTypes
  <2>4. CASE running' = running \cup {c} /\ job' = [job EXCEPT ![w].pc = "ips", ![w].c = c]
    BY <2>2, <2>3, <2>4 DEF Job
  <2> QED
    BY <2>1, <2>2, <2>4 DEF ContainerCreate
<1>2. CASE ~\E c \in Containers : ContainerCreate(w, c)
  BY <1>2 DEF WorkerStep, Arrive, SessionNew, NewInstance, StartClose, DeployStack, DeleteInstance,
         Proceed, NetworkCreate, NetworkConnect, SessionPut, Announce,
         UndoDisconnect, UndoNetwork, UndoSession, CheckEmpty, ContainerIPs, InstancePut,
         FindInstances, Waited, Disconnect, NetworkDelete, SessionDelete, InstanceGetSingle,
         ExecAttach, ReadyPut, KillContainer, DeleteRow, docker
<1> QED
  BY <1>1, <1>2

(* A row goes only after its container, as long as no call fails.          *)
LEMMA RowsLess ==
  ASSUME IInv, KnownInv, NEW w \in Workers, WorkerStep(w), faults = 0
  PROVE  \A c \in rows \ rows' : c \notin running
<1>1. CASE UndoSession(w)
  <2>1. job[w].pc = "undosess" /\ job[w].op = "new"
    BY <1>1, Working DEF UndoSession, At, Fits, NewPcs
  <2>2. RunningIn(job[w].s) = {}
    BY <2>1 DEF KnownInv, NewIsAlone, UndoPcs
  <2> QED
    BY <1>1, <2>2 DEF UndoSession, RowsOf, RunningIn
<1>2. CASE SessionDelete(w)
  <2>1. job[w].s \notin networks
    BY <1>2, Working DEF SessionDelete, At, Fits
  <2> QED
    BY <1>2, <2>1 DEF SessionDelete, RowsOf, IInv, Attached
<1>3. CASE \E c \in Containers : DeleteRow(w, c)
  <2>1. job[w].done \cap running = {}
    BY <1>3, Working DEF DeleteRow, At, Fits
  <2> QED
    BY <1>3, <2>1 DEF DeleteRow
<1>4. CASE ~UndoSession(w) /\ ~SessionDelete(w) /\ ~\E c \in Containers : DeleteRow(w, c)
  BY <1>4 DEF WorkerStep, Arrive, SessionNew, NewInstance, StartClose, DeployStack, DeleteInstance,
         Proceed, NetworkCreate, NetworkConnect, SessionPut, Announce,
         UndoDisconnect, UndoNetwork, CheckEmpty, ContainerIPs, InstancePut,
         FindInstances, Waited, Disconnect, NetworkDelete, InstanceGetSingle,
         ExecAttach, ReadyPut, ContainerCreate, KillContainer, store
<1> QED
  BY <1>1, <1>2, <1>3, <1>4

(* What a worker holds it keeps, or stores, or does not run, or a call has *)
(* failed: the session it would store it in can only be gone with its      *)
(* network.                                                                *)
LEMMA HandedOver ==
  ASSUME IInv, WatchInv, KnownInv, NEW w \in Requests, WorkerStep(w), faults' = 0,
         job[w].pc \in {"ips", "instanceput"}
  PROVE  \/ job'[w].pc \in {"ips", "instanceput"} /\ job'[w].c = job[w].c
         \/ job[w].c \in rows'
         \/ job[w].c \notin running
<1>1. w \in Workers
  BY DEF Workers
<1>2. faults \in Nat
  BY LifecycleAssumption DEF IInv, StateTypes
<1>3. ContainerIPs(w) \/ InstancePut(w)
  <2>1. ~Arrive(w)
    BY DEF Arrive, SessionNew, NewInstance, StartClose, DeployStack, DeleteInstance, At
  <2> QED
    BY <2>1 DEF WorkerStep, Proceed, At, NetworkCreate, NetworkConnect, SessionPut, Announce,
           UndoDisconnect, UndoNetwork, UndoSession, CheckEmpty,
           FindInstances, Waited, Disconnect, NetworkDelete, SessionDelete, InstanceGetSingle,
           ExecAttach, ReadyPut, ContainerCreate, KillContainer, DeleteRow
<1>4. CASE ContainerIPs(w)
  <2>1. Goto(w, "instanceput") \/ Fault \/ job[w].c \notin running
    BY <1>4 DEF ContainerIPs
  <2>2. ~Fault
    BY <1>2 DEF Fault
  <2>3. "instanceput" \in RequestPcs /\ w \notin Sessions
    BY LifecycleAssumption DEF RequestPcs
  <2> QED
    BY <1>1, <2>1, <2>2, <2>3, GoneOn
<1>5. CASE InstancePut(w)
  <2>1. job[w].c \in rows' \/ job[w].s \notin sessions
    BY <1>5 DEF InstancePut
  <2>2. ASSUME job[w].s \notin sessions PROVE job[w].c \notin running
    <3>1. job[w].op # "new"
      BY <1>1, <1>5, <2>2 DEF InstancePut, At, WatchInv, Made, StoredPcs
    <3>2. job[w].s \in announced /\ SessionOf[job[w].c] = job[w].s
      BY <1>1, <3>1 DEF KnownInv, Hands, HandPcs
    <3>3. job[w].s \notin networks
      BY <2>2, <3>2 DEF WatchInv, Kept, KnownInv, EndedIsCut
    <3> QED
      BY <3>2, <3>3 DEF IInv, Attached
  <2> QED
    BY <2>1, <2>2
<1> QED
  BY <1>3, <1>4, <1>5

(* The networks a worker's step makes, for the session of a SessionNew.    *)
LEMMA NetworksMore ==
  ASSUME IInv, NEW w \in Workers, WorkerStep(w)
  PROVE  \/ networks' \subseteq networks
         \/ job[w].op = "new" /\ networks' = networks \cup {job[w].s} /\ ended' = ended
<1>1. CASE NetworkCreate(w)
  <2>1. job[w].op = "new"
    BY <1>1, Working DEF NetworkCreate, At, Fits, NewPcs
  <2> QED
    BY <1>1, <2>1 DEF NetworkCreate, names
<1>2. CASE ~NetworkCreate(w)
  BY <1>2 DEF WorkerStep, Arrive, SessionNew, NewInstance, StartClose, DeployStack, DeleteInstance,
         Proceed, NetworkConnect, SessionPut, Announce,
         UndoDisconnect, UndoNetwork, UndoSession, CheckEmpty, ContainerIPs, InstancePut,
         FindInstances, Waited, Disconnect, NetworkDelete, SessionDelete, InstanceGetSingle,
         ExecAttach, ReadyPut, ContainerCreate, KillContainer, DeleteRow, docker
<1> QED
  BY <1>1, <1>2

(* Who adds an instance goes from one place to the next.                   *)
LEMMA AddGoesOn ==
  ASSUME IInv, NEW w \in Workers, WorkerStep(w), job'[w].pc \in HandPcs
  PROVE  \/ job'[w].pc = "check" /\ job'[w].s \in announced
         \/ /\ job'[w].s = job[w].s /\ job'[w].op = job[w].op
            /\ \/ job[w].pc = "sessionput" /\ job[w].op = "new" /\ job'[w].pc = "create"
               \/ job[w].pc = "check" /\ job'[w].pc = "create"
               \/ /\ job[w].pc = "create" /\ job'[w].pc = "ips"
                  /\ job'[w].c \in Containers /\ SessionOf[job'[w].c] = job[w].s
               \/ /\ job[w].pc = "ips" /\ job'[w].pc = "instanceput"
                  /\ job'[w].c = job[w].c
<1>1. w \in Requests /\ w \notin Sessions /\ DOMAIN job = Workers /\ job[w] \in Job(RequestPcs)
  BY OwnJob, LifecycleAssumption DEF HandPcs, ClosingPcs, Workers, IInv, JobPart, JobTypes
<1>2. ~Return(w)
  BY <1>1 DEF Return, Idle, HandPcs
<1>3. \A p \in RequestPcs : Goto(w, p) =>
        /\ p \in HandPcs /\ job'[w].pc = p /\ job'[w].s = job[w].s
        /\ job'[w].c = job[w].c /\ job'[w].op = job[w].op
  BY <1>1, GoneOn
<1>4. ~InstanceFailed(w)
  BY <1>2, <1>3 DEF InstanceFailed, RequestPcs, HandPcs
<1>5. CASE Arrive(w)
  <2>1. PICK s \in Sessions : \/ SessionNew(w, s) \/ NewInstance(w, s)
                             \/ StartClose(w, s) \/ DeployStack(w, s)
                             \/ \E c \in Containers : DeleteInstance(w, s, c)
    BY <1>5 DEF Arrive
  <2>2. NewInstance(w, s)
    BY <1>1, <2>1 DEF SessionNew, StartClose, DeployStack, DeleteInstance, Begin, Idle, HandPcs
  <2> QED
    BY <1>1, <2>2 DEF NewInstance, Begin, Idle
<1>6. CASE \E c \in Containers : ContainerCreate(w, c)
  <2>1. PICK c \in Containers : ContainerCreate(w, c)
    BY <1>6
  <2>2. job' = [job EXCEPT ![w].pc = "ips", ![w].c = c]
    BY <1>4, <2>1 DEF ContainerCreate
  <2>3. job'[w].pc = "ips" /\ job'[w].c = c /\ job'[w].s = job[w].s /\ job'[w].op = job[w].op
    BY <1>1, <2>2 DEF Job
  <2> QED
    BY <2>1, <2>3 DEF ContainerCreate, At
<1>7. CASE ContainerIPs(w)
  BY <1>3, <1>4, <1>7 DEF ContainerIPs, At, RequestPcs
<1>8. CASE CheckEmpty(w)
  BY <1>2, <1>3, <1>8 DEF CheckEmpty, At, RequestPcs
<1>9. CASE SessionPut(w)
  <2>1. job[w].op = "new"
    BY <1>9, Working DEF SessionPut, At, Fits, NewPcs
  <2> QED
    BY <1>2, <1>3, <1>9, <2>1 DEF SessionPut, At, RequestPcs
<1>10. ASSUME Proceed(w) PROVE \/ SessionPut(w) \/ CheckEmpty(w) \/ ContainerIPs(w)
                               \/ \E c \in Containers : ContainerCreate(w, c)
  <2>1. \A p \in RequestPcs : Goto(w, p) => p \in HandPcs
    BY <1>3
  <2>2. \A c \in Containers : ~KillContainer(w, c) /\ ~DeleteRow(w, c)
    BY <1>1 DEF KillContainer, DeleteRow, At, Job, HandPcs
  <2>3. ~FindInstances(w) /\ ~InstanceGetSingle(w)
    BY <1>1, <1>2 DEF FindInstances, InstanceGetSingle, Job, HandPcs
  <2>4. ~NetworkCreate(w) /\ ~NetworkConnect(w) /\ ~Announce(w) /\ ~UndoDisconnect(w)
        /\ ~UndoNetwork(w) /\ ~UndoSession(w) /\ ~InstancePut(w)
    BY <1>2, <1>4, <2>1 DEF NetworkCreate, NetworkConnect, Announce, UndoDisconnect, UndoNetwork,
       UndoSession, InstancePut, RequestPcs, HandPcs
  <2>5. ~Waited(w) /\ ~Disconnect(w) /\ ~NetworkDelete(w) /\ ~SessionDelete(w)
        /\ ~ExecAttach(w) /\ ~ReadyPut(w)
    BY <1>2, <2>1 DEF Waited, Disconnect, NetworkDelete, SessionDelete, ExecAttach, ReadyPut,
       RequestPcs, HandPcs
  <2> QED
    BY <1>10, <2>2, <2>3, <2>4, <2>5 DEF Proceed
<1> QED
  BY <1>5, <1>6, <1>7, <1>8, <1>9, <1>10 DEF WorkerStep

(* A worker's step.                                                        *)
LEMMA WorkerKnown ==
  ASSUME IInv, WatchInv, KnownInv, NEW w \in Workers, WorkerStep(w)
  PROVE  KnownInv'
<1>1. \A v \in Workers : v # w => job'[v] = job[v]
  BY OwnJob
<1>2. crashes' = crashes
  BY DEF WorkerStep, schedVars
<1>3. EndedIsCut'
  <2>1. \A s \in ended' \ ended : s \notin networks
    BY Records, Working DEF Fits
  <2>2. \A s \in ended' \ ended : networks' \subseteq networks
    BY NetworksMore
  <2>3. job[w].op = "new" => job[w].s \notin ended
    BY DEF KnownInv, NewIsFresh
  <2> QED
    BY <2>1, <2>2, <2>3, NetworksMore DEF KnownInv, EndedIsCut
<1>4. NewIsFresh'
  <2> SUFFICES ASSUME NEW v \in Workers, job'[v].op = "new" PROVE job'[v].s \notin ended'
    BY DEF NewIsFresh
  <2>1. CASE v # w
    <3>1. job[v] = job'[v] /\ job[w].s # job[v].s
      BY <1>1, <2>1 DEF IInv, JobPart, Alone
    <3> QED
      BY <3>1, Records DEF KnownInv, NewIsFresh
  <2>2. CASE v = w /\ job[w].op # "new"
    BY <2>2, NewBegins DEF IInv, StateTypes
  <2>3. CASE v = w /\ job[w].op = "new"
    <3>1. job[w].pc # "sessdel" /\ job[w].pc \in NewPlaces
      BY <2>3 DEF WatchInv, Made, NewPlaces, NewPcs
    <3> QED
      BY <2>3, <3>1, NewGoesOn, Records DEF KnownInv, NewIsFresh
  <2> QED
    BY <2>1, <2>2, <2>3
<1>5. Hands'
  <2> SUFFICES ASSUME NEW v \in Workers
               PROVE  /\ job'[v].pc \in HandPcs /\ job'[v].op # "new" => job'[v].s \in announced'
                      /\ job'[v].pc \in {"ips", "instanceput"} =>
                           job'[v].c \in Containers /\ SessionOf[job'[v].c] = job'[v].s
    BY DEF Hands
  <2>1. CASE v # w
    BY <1>1, <2>1, Records DEF KnownInv, Hands
  <2>2. CASE v = w
    BY <2>2, AddGoesOn, Records DEF KnownInv, Hands, HandPcs
  <2> QED
    BY <2>1, <2>2
<1>6. NewIsAlone'
  <2> DEFINE Runs(v) == {c \in running' : SessionOf[c] = job'[v].s}
  <2> SUFFICES ASSUME NEW v \in Workers, job'[v].op = "new"
               PROVE  /\ job'[v].pc \in {"network", "connect", "sessionput", "create"} =>
                           Runs(v) = {}
                      /\ job'[v].pc \in {"ips", "instanceput"} => Runs(v) \subseteq {job'[v].c}
                      /\ job'[v].pc \in UndoPcs /\ faults' = 0 => Runs(v) = {}
    BY DEF NewIsAlone, RunningIn
  <2>1. CASE v # w
    <3>1. job[v] = job'[v] /\ job[w].s # job[v].s
      BY <1>1, <2>1 DEF IInv, JobPart, Alone
    <3>2. Runs(v) \subseteq RunningIn(job[v].s)
      BY <3>1, RunsMore DEF RunningIn
    <3> QED
      BY <3>1, <3>2, FaultsCount DEF KnownInv, NewIsAlone
  <2>2. CASE v = w /\ job[w].op # "new"
    <3>1. job'[w].pc = "network" /\ job'[w].s \notin created /\ running' = running
      BY <2>2, NewBegins
    <3>2. Runs(w) = {}
      BY <3>1 DEF IInv, Attached, StateTypes
    <3> QED
      BY <2>2, <3>1, <3>2 DEF UndoPcs
  <2>3. CASE v = w /\ job[w].op = "new"
    <3>1. job[w].pc \in NewPlaces /\ job'[w].s = job[w].s
      BY <2>3, NewGoesOn DEF WatchInv, Made
    <3>2. CASE running' \subseteq running
      <4>1. Runs(w) \subseteq RunningIn(job[w].s)
        BY <3>1, <3>2 DEF RunningIn
      <4>2. \/ /\ job[w].pc \in {"network", "connect", "sessionput", "create"}
               /\ job'[w].pc \in {"connect", "sessionput", "create", "ips", "undo"}
            \/ job[w].pc = "ips" /\ job'[w].pc = "instanceput" /\ job'[w].c = job[w].c
            \/ /\ ContainerIPs(w) \/ InstancePut(w)
               /\ job[w].pc \in {"ips", "instanceput"} /\ job'[w].pc = "undo"
            \/ job'[w].pc = "announce"
            \/ job[w].pc \in UndoPcs /\ job'[w].pc \in UndoPcs
        BY <2>3, <3>1, NewGoesOn DEF NetworkCreate, NetworkConnect, SessionPut, ContainerCreate,
           ContainerIPs, InstancePut, UndoDisconnect, UndoNetwork, At, UndoPcs
      <4>3. ASSUME ContainerIPs(w) \/ InstancePut(w), job'[w].pc = "undo", faults' = 0
            PROVE  job[w].c \notin running
        <5>1. w \in Requests /\ DOMAIN job = Workers /\ faults \in Nat
          BY <2>3, LifecycleAssumption DEF IInv, StateTypes, JobPart, JobTypes, Jobs, Fits
        <5>2. \A p : Goto(w, p) => job'[w].pc = p
          BY <5>1 DEF Goto, IInv, JobPart, JobTypes, Job
        <5>3. job[w].pc \in {"ips", "instanceput"} /\ ~Fault /\ ~SaveFault
          BY <4>3, <5>1 DEF ContainerIPs, InstancePut, At, Fault, SaveFault
        <5>4. job[w].pc = "instanceput" => job[w].s \in sessions
          BY <2>3 DEF WatchInv, Made, StoredPcs
        <5> QED
          BY <2>3, <4>3, <5>2, <5>3, <5>4 DEF ContainerIPs, InstancePut, At
      <4>4. faults' = 0 => faults = 0
        BY FaultsCount
      <4> QED
        BY <2>3, <4>1, <4>2, <4>3, <4>4 DEF KnownInv, NewIsAlone, UndoPcs, RunningIn
    <3>3. CASE ~(running' \subseteq running)
      <4>1. PICK c \in Containers :
              /\ running' = running \cup {c} /\ job[w].pc = "create"
              /\ job'[w].pc = "ips" /\ job'[w].c = c
        BY <3>3, RunsMore
      <4>2. RunningIn(job[w].s) = {}
        BY <2>3, <4>1 DEF KnownInv, NewIsAlone
      <4> QED
        BY <2>3, <3>1, <4>1, <4>2 DEF RunningIn, UndoPcs
    <3> QED
      BY <3>2, <3>3
  <2> QED
    BY <2>1, <2>2, <2>3
<1>7. ContainersAreKnown'
  <2> SUFFICES ASSUME crashes = 0, faults' = 0, NEW c \in running'
               PROVE  c \in rows' \/ InHand(c)'
    BY <1>2 DEF ContainersAreKnown, NoLostContainer
  <2>1. faults = 0
    BY FaultsCount
  <2>2. CASE c \notin running
    <3>1. w \in Requests /\ job'[w].c = c /\ job'[w].pc = "ips"
      BY <2>2, RunsMore
    <3> QED
      BY <3>1 DEF InHand
  <2>3. CASE c \in running
    <3>1. CASE c \in rows
      BY <2>1, <2>3, <3>1, RowsLess
    <3>2. CASE InHand(c)
      <4>1. PICK v \in Requests : job[v].c = c /\ job[v].pc \in {"ips", "instanceput"}
        BY <3>2 DEF InHand
      <4>2. CASE v # w
        BY <1>1, <4>1, <4>2 DEF InHand, Workers
      <4>3. CASE v = w
        BY <2>3, <4>1, <4>3, HandedOver DEF InHand
      <4> QED
        BY <4>2, <4>3
    <3> QED
      BY <2>1, <2>3, <3>1, <3>2 DEF KnownInv, ContainersAreKnown, NoLostContainer
  <2> QED
    BY <2>2, <2>3
<1> QED
  BY <1>3, <1>4, <1>5, <1>6, <1>7 DEF KnownInv

(* The other steps give no request a job and make nothing run.             *)
LEMMA OtherKnown ==
  ASSUME KnownInv, UNCHANGED <<networks, announced, ended, rows, faults, crashes>>,
         running' \subseteq running,
         \A v \in Workers :
           \/ job'[v] = job[v]
           \/ v \notin Requests /\ job'[v].op # "new" /\ job'[v].pc \notin HandPcs
  PROVE  KnownInv'
<1>1. EndedIsCut' /\ NewIsFresh'
  BY DEF KnownInv, EndedIsCut, NewIsFresh
<1>2. Hands'
  BY DEF KnownInv, Hands, HandPcs
<1>3. NewIsAlone'
  <2> SUFFICES ASSUME NEW v \in Workers, job'[v].op = "new"
               PROVE  /\ job'[v].pc \in {"network", "connect", "sessionput", "create"} =>
                           {c \in running' : SessionOf[c] = job'[v].s} = {}
                      /\ job'[v].pc \in {"ips", "instanceput"} =>
                           {c \in running' : SessionOf[c] = job'[v].s} \subseteq {job'[v].c}
                      /\ job'[v].pc \in UndoPcs /\ faults = 0 =>
                           {c \in running' : SessionOf[c] = job'[v].s} = {}
    BY DEF NewIsAlone, RunningIn
  <2>1. job'[v] = job[v]
    OBVIOUS
  <2> QED
    BY <2>1 DEF KnownInv, NewIsAlone, RunningIn
<1>4. ContainersAreKnown'
  BY DEF KnownInv, ContainersAreKnown, NoLostContainer, InHand, Workers
<1> QED
  BY <1>1, <1>2, <1>3, <1>4 DEF KnownInv

(* A goroutine that begins to watch adds nothing.                          *)
LEMMA StartedKnown ==
  ASSUME IInv, KnownInv, NEW s \in Sessions, ScheduleSession(s),
         UNCHANGED <<networks, running, announced, ended, rows, faults, crashes>>
  PROVE  KnownInv'
<1>1. DOMAIN job = Workers /\ s \in Workers /\ s \notin Requests
  BY LifecycleAssumption DEF IInv, JobPart, JobTypes, Workers
<1>2. \A v \in Workers : \/ job'[v] = job[v]
                         \/ /\ v \notin Requests /\ job'[v].op # "new"
                            /\ job'[v].pc \notin HandPcs
  BY <1>1 DEF ScheduleSession, WithJob, Idle, HandPcs
<1> QED
  BY <1>2, OtherKnown

(* A restart: nobody works, and containers may have been lost.             *)
LEMMA CrashKnown ==
  ASSUME IInv, KnownInv, Crash
  PROVE  KnownInv'
<1>1. \A w \in Workers : job'[w] = Idle
  BY DEF Crash
<1>2. UNCHANGED <<networks, announced, ended>> /\ crashes' = crashes + 1
  BY DEF Crash, docker, names
<1>3. crashes' # 0
  BY <1>2, SchedulerAssumption DEF IInv, StateTypes
<1>4. EndedIsCut' /\ NewIsFresh' /\ Hands' /\ NewIsAlone'
  BY <1>1, <1>2 DEF KnownInv, EndedIsCut, NewIsFresh, Hands, NewIsAlone, HandPcs, Idle
<1> QED
  BY <1>3, <1>4 DEF KnownInv, ContainersAreKnown

(* The goroutine of a session expires it, is cancelled, or leaves.         *)
LEMMA WatcherKnown ==
  ASSUME IInv, KnownInv, NEW s \in Sessions, Expire(s) \/ Cancelled(s) \/ Leave(s)
  PROVE  KnownInv'
<1>1. UNCHANGED <<networks, running, announced, ended, rows, faults, crashes>>
  BY DEF Expire, Cancelled, Leave, store, docker, names, calls, schedVars
<1>2. s \in Workers /\ DOMAIN job = Workers /\ job[s] \in Job(WatcherPcs) /\ s \notin Requests
  BY LifecycleAssumption DEF Workers, IInv, JobPart, JobTypes
<1>3. /\ \A v \in Workers : v # s => job'[v] = job[v]
      /\ job'[s].op # "new" /\ job'[s].pc \notin HandPcs
  <2>1. CASE Expire(s)
    BY <1>2, <2>1 DEF Expire, Job, HandPcs
  <2>2. CASE Cancelled(s)
    BY <1>2, <2>2 DEF Cancelled, Return, Idle, HandPcs
  <2>3. CASE Leave(s)
    BY <1>2, <2>3 DEF Leave, Idle, HandPcs
  <2> QED
    BY <2>1, <2>2, <2>3
<1> QED
  BY <1>1, <1>2, <1>3, OtherKnown

(* Every step of the server.                                               *)
LEMMA NextKnown == IInv /\ WatchInv /\ KnownInv /\ [Next]_allVars => KnownInv'
<1> SUFFICES ASSUME IInv, WatchInv, KnownInv, [Next]_allVars PROVE KnownInv'
  OBVIOUS
<1>1. ASSUME UNCHANGED <<networks, announced, ended, rows, faults, crashes, job>>,
             running' \subseteq running
      PROVE  KnownInv'
  BY <1>1, OtherKnown
<1>2. CASE \/ UNCHANGED allVars \/ StartReads \/ StartListens
           \/ \E c \in Containers : \/ StartInstance(c) \/ Tick(c)
                                    \/ ContainerExits(c) /\ UNCHANGED schedVars
           \/ \E e \in events : Deliver(e)
  BY <1>1, <1>2 DEF allVars, StartReads, StartListens, StartInstance, Tick, ContainerExits,
     Deliver, Unheard, HandleNew, HandleSessionEnd, HandleInstanceDelete,
     vars, store, docker, names, calls, schedVars
<1>3. ASSUME NEW w \in Workers, WorkerStep(w) PROVE KnownInv'
  BY <1>3, WorkerKnown
<1>4. ASSUME NEW s \in Sessions, StartSession(s) PROVE KnownInv'
  BY <1>4, StartedKnown DEF StartSession, store, docker, names, calls
<1>5. CASE Schedule
  <2>1. handling \in Events
    BY <1>5 DEF Schedule, IInv, StateTypes
  <2>2. CASE handling.type = "SESSION_NEW"
    <3>1. handling.s \in Sessions
      BY <2>1, <2>2 DEF Events
    <3> QED
      BY <1>5, <2>2, <3>1, StartedKnown DEF Schedule, store, docker, names, calls
  <2>3. CASE handling.type # "SESSION_NEW"
    BY <1>1, <1>5, <2>3 DEF Schedule, store, docker, names, calls
  <2> QED
    BY <2>2, <2>3
<1>6. CASE Next
  BY <1>2, <1>3, <1>4, <1>5, <1>6, CrashKnown, WatcherKnown
     DEF Next, Starting, WorkerStep, Workers
<1> QED
  BY <1>2, <1>6

(* As long as no call has failed and the process has not died, concurrent  *)
(* SessionNew, SessionClose, InstanceDelete and InstanceNew, any number of *)
(* them, lose no container: the one that runs is stored or about to be.    *)
THEOREM NoContainerIsLost == Spec => []ContainersAreKnown
<1>1. SchedInit => IInv /\ WatchInv /\ KnownInv
  BY InitIInv, InitWatch, InitKnown
<1>2. IInv /\ WatchInv /\ KnownInv /\ [Next]_allVars => (IInv /\ WatchInv /\ KnownInv)'
  BY NextIInv, NextWatch, NextKnown
<1>3. KnownInv => ContainersAreKnown
  BY DEF KnownInv
<1> QED
  BY <1>1, <1>2, <1>3, PTL DEF Spec
=============================================================================
