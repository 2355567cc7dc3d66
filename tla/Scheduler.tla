----------------------------- MODULE Scheduler -----------------------------
(***************************************************************************)
(* The whole server around the session core: the scheduler, which watches  *)
(* stored sessions and instances (scheduler/scheduler.go); the event       *)
(* broker that tells it about them (event/local_broker.go); and the death  *)
(* and restart of the process (api.go).                                    *)
(*                                                                         *)
(* The maps of the scheduler are used by goroutines that hold no common    *)
(* lock. Each use is one step here; the fatal error the Go runtime may     *)
(* raise instead is one of the moments at which Crash can happen.          *)
(***************************************************************************)
EXTENDS SessionLifecycle

CONSTANTS MaxCrashes   \* bound: times the process dies

ASSUME SchedulerAssumption == MaxCrashes \in Nat /\ None \notin Events

VARIABLES
  toSchedule,          \* Start: sessions it has read and not yet scheduled
  reading,             \* Start: the session whose instances it reads next
  readRows,            \* Start: instances it has read and not yet scheduled
  listening,           \* Start has registered the event handlers
  handling,            \* the event whose handler has read the storage
  scheduledSessions,
  scheduledInstances,
  expired,             \* sessions whose expiry has begun, in this process
  crashes              \* deaths so far

starting  == <<toSchedule, reading, readRows, listening>>
scheduled == <<scheduledSessions, scheduledInstances>>
schedVars == <<starting, handling, scheduled, expired, crashes>>
allVars   == <<vars, schedVars>>

SchedInit == /\ Init
             /\ toSchedule = {} /\ reading = None /\ readRows = {}
             /\ listening = TRUE
             /\ handling = None
             /\ scheduledSessions = {} /\ scheduledInstances = {}
             /\ expired = {}
             /\ crashes = 0

WithJob(jobs, s, pc) == [jobs EXCEPT ![s] = [Idle EXCEPT !.pc = pc, !.s = s]]

(* Scheduling what is scheduled already does nothing.                      *)
ScheduleSession(s) ==
  /\ scheduledSessions' = scheduledSessions \cup {s}
  /\ job' = IF s \in scheduledSessions THEN job ELSE WithJob(job, s, "waiting")

ScheduleInstance(c) == scheduledInstances' = scheduledInstances \cup {c}
-----------------------------------------------------------------------------
(* Start, before it listens.                                               *)

StartSession(s) ==
  /\ reading = None /\ readRows = {}
  /\ s \in toSchedule
  /\ toSchedule' = toSchedule \ {s}
  /\ reading' = s
  /\ ScheduleSession(s)
  /\ UNCHANGED <<store, docker, names, events, calls>>
  /\ UNCHANGED <<readRows, listening, handling, scheduledInstances, expired, crashes>>

StartReads ==
  /\ reading # None
  /\ readRows' = RowsOf(reading)
  /\ reading' = None
  /\ UNCHANGED <<vars, toSchedule, listening, handling, scheduled, expired, crashes>>

StartInstance(c) ==
  /\ c \in readRows
  /\ readRows' = readRows \ {c}
  /\ ScheduleInstance(c)
  /\ UNCHANGED <<vars, toSchedule, reading, listening, handling>>
  /\ UNCHANGED <<scheduledSessions, expired, crashes>>

(* Listening before every stored session has been scheduled.               *)
StartListensEarly ==
  /\ ~listening
  /\ toSchedule' = {} /\ reading = None /\ readRows = {}
  /\ listening' = TRUE
  /\ UNCHANGED <<vars, reading, readRows, handling, scheduled, expired, crashes>>

StartListens ==
  /\ ~listening
  /\ toSchedule = {} /\ reading = None /\ readRows = {}
  /\ listening' = TRUE
  /\ UNCHANGED <<vars, toSchedule, reading, readRows, handling, scheduled>>
  /\ UNCHANGED <<expired, crashes>>
-----------------------------------------------------------------------------
(* The broker delivers one event at a time, to handlers that run to their  *)
(* end under its lock.                                                     *)

Deliverable(e) == handling = None /\ e \in events /\ events' = events \ {e}

(* No handler is registered yet: the event is gone.                        *)
Unheard(e) ==
  /\ ~listening
  /\ Deliverable(e)
  /\ UNCHANGED <<store, docker, names, job, calls, schedVars>>

(* The handlers of SESSION_NEW and INSTANCE_NEW look the record up first.  *)
StillStored(e) == IF e.type = "SESSION_NEW" THEN e.s \in sessions ELSE e.c \in rows

(* The events are trusted to arrive in the order they were emitted.        *)
HandleNewTrusting(e) ==
  /\ listening
  /\ Deliverable(e)
  /\ e.type \in {"SESSION_NEW", "INSTANCE_NEW"}
  /\ handling' = e
  /\ UNCHANGED <<store, docker, names, job, calls>>
  /\ UNCHANGED <<starting, scheduled, expired, crashes>>

HandleNew(e) ==
  /\ listening
  /\ Deliverable(e)
  /\ e.type \in {"SESSION_NEW", "INSTANCE_NEW"}
  /\ handling' = IF StillStored(e) THEN e ELSE None
  /\ UNCHANGED <<store, docker, names, job, calls>>
  /\ UNCHANGED <<starting, scheduled, expired, crashes>>

Schedule ==
  /\ handling # None
  /\ handling' = None
  /\ IF handling.type = "SESSION_NEW"
     THEN ScheduleSession(handling.s) /\ UNCHANGED scheduledInstances
     ELSE ScheduleInstance(handling.c) /\ UNCHANGED <<scheduledSessions, job>>
  /\ UNCHANGED <<store, docker, names, events, calls, starting, expired, crashes>>

HandleSessionEnd(e) ==
  /\ listening
  /\ Deliverable(e)
  /\ e.type = "SESSION_END"
  /\ scheduledSessions' = scheduledSessions \ {e.s}
  /\ UNCHANGED <<store, docker, names, job, calls>>
  /\ UNCHANGED <<starting, handling, scheduledInstances, expired, crashes>>

HandleInstanceDelete(e) ==
  /\ listening
  /\ Deliverable(e)
  /\ e.type = "INSTANCE_DELETE"
  /\ scheduledInstances' = scheduledInstances \ {e.c}
  /\ UNCHANGED <<store, docker, names, job, calls>>
  /\ UNCHANGED <<starting, handling, scheduledSessions, expired, crashes>>
-----------------------------------------------------------------------------
(* processSession: the goroutine that watches session s.                   *)

(* The goroutine is gone before the session has expired.                   *)
ExpireTooSoon(s) ==
  /\ At(s, "waiting")
  /\ Return(s)
  /\ UNCHANGED <<store, docker, names, events, calls, schedVars>>

(* Its time has come. (Go may take this branch after the other is ready.)  *)
Expire(s) ==
  /\ At(s, "waiting")
  /\ job' = [job EXCEPT ![s].op = "close", ![s].pc = "find"]
  /\ expired' = expired \cup {s}
  /\ UNCHANGED <<store, docker, names, events, calls>>
  /\ UNCHANGED <<starting, handling, scheduled, crashes>>

(* It was unscheduled.                                                     *)
Cancelled(s) ==
  /\ At(s, "waiting")
  /\ s \notin scheduledSessions
  /\ Return(s)
  /\ UNCHANGED <<store, docker, names, events, calls, schedVars>>

LeaveWithoutDefer(s) ==
  /\ At(s, "leaving")
  /\ job' = [job EXCEPT ![s] = Idle]
  /\ UNCHANGED <<store, docker, names, events, calls, schedVars>>

(* The deferred unscheduleSession.                                         *)
Leave(s) ==
  /\ At(s, "leaving")
  /\ job' = [job EXCEPT ![s] = Idle]
  /\ scheduledSessions' = scheduledSessions \ {s}
  /\ UNCHANGED <<store, docker, names, events, calls>>
  /\ UNCHANGED <<starting, handling, scheduledInstances, expired, crashes>>

(* A tick that finds no row is passed over like any other error.           *)
TickContinues(c) == c \in scheduledInstances /\ UNCHANGED allVars

(* processInstance: a tick that finds no row unschedules the instance; one *)
(* that finds it runs the instance's tasks, which change nothing here.     *)
Tick(c) ==
  /\ c \in scheduledInstances
  /\ c \notin rows
  /\ scheduledInstances' = scheduledInstances \ {c}
  /\ UNCHANGED <<vars, starting, handling, scheduledSessions, expired, crashes>>
-----------------------------------------------------------------------------
(* The process dies and is started again: the storage is read back from    *)
(* its file, Docker has carried on. (A file behind the memory is module    *)
(* Storage's subject.) Ready is as it was when the file was written.       *)
Crash ==
  /\ crashes < MaxCrashes
  /\ ~unsaved
  /\ crashes' = crashes + 1
  /\ ready' \in {ready, ready \ {job[w].s : w \in {v \in Requests : At(v, "readyput")}}}
  /\ job' = [w \in Workers |-> Idle]
  /\ events' = {}
  /\ handling' = None
  /\ scheduledSessions' = {} /\ scheduledInstances' = {}
  /\ expired' = {}
  /\ toSchedule' = sessions /\ reading' = None /\ readRows' = {}
  /\ listening' = FALSE
  /\ UNCHANGED <<sessions, rows, docker, names, calls>>

Deliver(e) == Unheard(e) \/ HandleNew(e) \/ HandleSessionEnd(e) \/ HandleInstanceDelete(e)

Starting == \/ StartReads \/ StartListens
            \/ \E s \in Sessions : StartSession(s)
            \/ \E c \in Containers : StartInstance(c)

Next ==
  \/ \E w \in Requests : listening /\ Arrive(w) /\ UNCHANGED schedVars
  \/ \E w \in Workers : Proceed(w) /\ UNCHANGED schedVars
  \/ \E c \in Containers : ContainerExits(c) /\ UNCHANGED schedVars
  \/ Starting \/ Crash \/ Schedule
  \/ \E e \in events : Deliver(e)
  \/ \E s \in Sessions : Expire(s) \/ Cancelled(s) \/ Leave(s)
  \/ \E c \in Containers : Tick(c)

Spec == SchedInit /\ [][Next]_allVars

(* Go runs every goroutine that can run and grants the broker's mutex to   *)
(* who waits for it; timers and tickers fire; calls to Docker return.      *)
(* Nothing obliges a request to come, a container to exit or a crash.      *)
Fairness ==
  /\ \A w \in Workers : WF_allVars(Proceed(w) /\ UNCHANGED schedVars)
  /\ WF_allVars(Starting) /\ WF_allVars(Schedule)
  /\ WF_allVars(\E e \in events : Deliver(e))
  /\ \A s \in Sessions : WF_allVars(Expire(s)) /\ WF_allVars(Cancelled(s))
                          /\ WF_allVars(Leave(s))
  /\ \A c \in Containers : WF_allVars(Tick(c))

FairSpec == Spec /\ Fairness
-----------------------------------------------------------------------------
(* Properties.                                                             *)

TypeOK ==
  /\ LifecycleTypeOK
  /\ toSchedule \subseteq Sessions /\ reading \in Sessions \cup {None}
  /\ readRows \subseteq Containers /\ listening \in BOOLEAN
  /\ handling \in Events \cup {None}
  /\ scheduledSessions \subseteq Sessions /\ scheduledInstances \subseteq Containers
  /\ expired \subseteq Sessions
  /\ crashes \in 0..MaxCrashes

SessionNewEvent(s) == Event("SESSION_NEW", s, None)

(* Every session a client was given and nobody has closed has a goroutine  *)
(* that will expire it, or an event, its handler or Start is about to      *)
(* start one: no order of events, requests and restarts misses a session.  *)
StoredIsWatched ==
  \A s \in (announced \cap sessions) \ (ended \cup expired) :
    \/ s \in scheduledSessions \cup toSchedule
    \/ SessionNewEvent(s) \in events \cup {handling}

(* As long as no call has failed and the process has not died, concurrent  *)
(* SessionClose, InstanceDelete and InstanceNew lose no container.         *)
ContainersAreKnown == crashes = 0 => NoLostContainer

(* Nothing is going on: every event is delivered, every operation over.    *)
Quiet == /\ listening /\ events = {} /\ handling = None
         /\ \A w \in Workers : At(w, "idle") \/ At(w, "waiting")

(* When everything has settled and no call has failed, the scheduler       *)
(* watches no session that is gone, however SESSION_NEW and SESSION_END    *)
(* crossed: each emits from a goroutine of its own.                        *)
NoGhosts == Quiet /\ faults = 0 => scheduledSessions \subseteq sessions

(* Each session a client was given is one day closed or expired, through a *)
(* failing call and a restart.                                             *)
SessionsExpire == \A s \in Sessions : s \in announced ~> s \in ended \cup expired

(* The ticks of an instance that is no longer stored end, also when its    *)
(* INSTANCE_DELETE was never emitted or was delivered to no one.           *)
InstancesUnwatched ==
  \A c \in Containers : c \in scheduledInstances \ rows ~> c \notin scheduledInstances

(* README.md: "After 4 hours sessions are deleted."                        *)
SessionsAreDeleted == \A s \in Sessions : s \in announced ~> s \notin sessions

(* ONE_SESSION_ONE_INSTANCE.md: "Prevents multiple instances per session". *)
OneInstance == \A s \in Sessions : Cardinality(RowsOf(s)) <= 1

(* pwd/session.go: "Clean up session since instance creation failed": a    *)
(* SessionNew that fails there leaves nothing of its session running.      *)
FailedSessionIsCleanedUp ==
  \A s \in created \ (announced \cup sessions) :
    (\A w \in Requests : job[w].s # s) => RunningIn(s) = {}
=============================================================================
