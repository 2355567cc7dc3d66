----------------------------- MODULE SwarmSetup -----------------------------
(***************************************************************************)
(* One call of SessionSetup (pwd/session.go): a goroutine per instance of  *)
(* the request creates it, has it start or join the session's swarm, and   *)
(* runs its first command. A mutex and a condition variable make one       *)
(* manager start the swarm and the workers wait for it; an errgroup        *)
(* cancels a context at the first error.                                   *)
(***************************************************************************)
EXTENDS Naturals

CONSTANTS Members,   \* the instances of the request
          Managers,  \* those with is_swarm_manager
          Workers,   \* those with is_swarm_worker only
          Running,   \* those with a command to run
          None

ASSUME SetupAssumption == /\ Managers \subseteq Members /\ Workers \subseteq Members
                          /\ Managers \cap Workers = {}
                          /\ Running \subseteq Members
                          /\ None \notin Members

VARIABLES
  pc,         \* where each goroutine is
  lock,       \* holder of c.L
  first,      \* firstSwarmManager
  swarm,      \* the daemons: the member that started the swarm each is in
  exec,       \* the goroutine that runs a member's command
  cancelled,  \* the errgroup's context
  failed      \* some goroutine has returned an error

setupVars == <<pc, lock, first, swarm, exec, cancelled, failed>>

SetupInit ==
  /\ pc = [m \in Members |-> "new"]
  /\ lock = None
  /\ first = None
  /\ swarm = [m \in Members |-> None]
  /\ exec = [m \in Members |-> "none"]
  /\ cancelled = FALSE
  /\ failed = FALSE

MemberAt(m, l) == pc[m] = l
MemberTo(m, l) == pc' = [pc EXCEPT ![m] = l]

Succeed(m) == MemberTo(m, "done") /\ UNCHANGED <<cancelled, failed>>
Fail(m)    == MemberTo(m, "done") /\ cancelled' = TRUE /\ failed' = TRUE

(* InstanceNew, and the Docker client of the new instance.                 *)
InstanceNew(m) ==
  /\ MemberAt(m, "new")
  /\ \/ /\ MemberTo(m, IF m \in Managers \cup Workers THEN "lock" ELSE "run")
        /\ UNCHANGED <<cancelled, failed>>
     \/ Fail(m)
  /\ UNCHANGED <<lock, first, swarm, exec>>

(* A manager takes the lock; it keeps it to start the swarm when there is  *)
(* none yet.                                                               *)
LockManagerUnchecked(m) ==
  /\ MemberAt(m, "lock")
  /\ m \in Managers
  /\ lock = None
  /\ lock' = m
  /\ MemberTo(m, "init")
  /\ UNCHANGED <<first, swarm, exec, cancelled, failed>>

LockManager(m) ==
  /\ MemberAt(m, "lock")
  /\ m \in Managers
  /\ lock = None
  /\ \/ first = None /\ lock' = m /\ MemberTo(m, "init")
     \/ first # None /\ UNCHANGED lock /\ MemberTo(m, "join")
  /\ UNCHANGED <<first, swarm, exec, cancelled, failed>>

SwarmInitQuietly(m) ==
  /\ MemberAt(m, "init")
  /\ swarm' = [swarm EXCEPT ![m] = m]
  /\ first' = m
  /\ lock' = None
  /\ MemberTo(m, "run")
  /\ UNCHANGED <<exec, cancelled, failed>>

(* Success wakes the waiting workers and unlocks; the error path returns   *)
(* with the lock held.                                                     *)
SwarmInit(m) ==
  /\ MemberAt(m, "init")
  /\ \/ /\ swarm' = [swarm EXCEPT ![m] = m]
        /\ first' = m
        /\ lock' = None
        /\ pc' = [n \in Members |-> IF n = m THEN "run"
                                    ELSE IF MemberAt(n, "wait") THEN "woken" ELSE pc[n]]
        /\ UNCHANGED <<cancelled, failed>>
     \/ Fail(m) /\ UNCHANGED <<lock, first, swarm>>
  /\ UNCHANGED exec

LockWorkerUnchecked(m) ==
  /\ MemberAt(m, "lock")
  /\ m \in Workers
  /\ lock = None
  /\ MemberTo(m, "join")
  /\ UNCHANGED <<lock, first, swarm, exec, cancelled, failed>>

(* c.Wait gives the lock back until the broadcast.                         *)
LockWorker(m) ==
  /\ MemberAt(m, "lock")
  /\ m \in Workers
  /\ lock = None
  /\ MemberTo(m, IF first = None THEN "wait" ELSE "join")
  /\ UNCHANGED <<lock, first, swarm, exec, cancelled, failed>>

Woken(m) ==
  /\ MemberAt(m, "woken")
  /\ lock = None
  /\ MemberTo(m, "join")
  /\ UNCHANGED <<lock, first, swarm, exec, cancelled, failed>>

(* The error of the join is logged and forgotten.                          *)
SwarmJoinIgnoring(m) ==
  /\ MemberAt(m, "join")
  /\ swarm' \in {swarm, [swarm EXCEPT ![m] = first]}
  /\ MemberTo(m, "run")
  /\ UNCHANGED <<lock, first, exec, cancelled, failed>>

SwarmJoin(m) ==
  /\ MemberAt(m, "join")
  /\ \/ /\ swarm' = [swarm EXCEPT ![m] = first]
        /\ MemberTo(m, "run")
        /\ UNCHANGED <<cancelled, failed>>
     \/ Fail(m) /\ UNCHANGED swarm
  /\ UNCHANGED <<lock, first, exec>>

(* The loop over the commands: its body returns, so it runs once at most.  *)
Run(m) ==
  /\ MemberAt(m, "run")
  /\ \/ m \in Running /\ exec' = [exec EXCEPT ![m] = "running"] /\ MemberTo(m, "select")
                      /\ UNCHANGED <<cancelled, failed>>
     \/ m \notin Running /\ Succeed(m) /\ UNCHANGED exec
  /\ UNCHANGED <<lock, first, swarm>>

Exec(m) ==
  /\ exec[m] = "running"
  /\ exec' \in {[exec EXCEPT ![m] = r] : r \in {"ok", "error"}}
  /\ UNCHANGED <<pc, lock, first, swarm, cancelled, failed>>

(* errch has no buffer. After an error the goroutine sends once more, to   *)
(* nobody.                                                                 *)
Receive(m) ==
  /\ MemberAt(m, "select")
  /\ \/ exec[m] = "ok" /\ exec' = [exec EXCEPT ![m] = "none"] /\ Succeed(m)
     \/ exec[m] = "error" /\ exec' = [exec EXCEPT ![m] = "stuck"] /\ Fail(m)
  /\ UNCHANGED <<lock, first, swarm>>

(* ctx.Done: the goroutine of the command is left behind.                  *)
Cancelled(m) ==
  /\ MemberAt(m, "select")
  /\ cancelled
  /\ Fail(m)
  /\ UNCHANGED <<lock, first, swarm, exec>>

Step(m) == \/ InstanceNew(m) \/ LockManager(m) \/ SwarmInit(m) \/ LockWorker(m)
           \/ Woken(m) \/ SwarmJoin(m) \/ Run(m) \/ Receive(m) \/ Cancelled(m)

SetupNext == \E m \in Members : Step(m) \/ Exec(m)

(* Goroutines run, and Docker calls and commands return. The mutex is only *)
(* ever held for long by the goroutine that starts the swarm.              *)
SetupSpec ==
  /\ SetupInit /\ [][SetupNext]_setupVars
  /\ \A m \in Members : WF_setupVars(Step(m)) /\ WF_setupVars(Exec(m))
-----------------------------------------------------------------------------
(* Properties.                                                             *)

Pcs == {"new", "lock", "init", "wait", "woken", "join", "run", "select", "done"}

SetupTypeOK ==
  /\ pc \in [Members -> Pcs]
  /\ lock \in Members \cup {None} /\ first \in Members \cup {None}
  /\ swarm \in [Members -> Members \cup {None}]
  /\ exec \in [Members -> {"none", "running", "ok", "error", "stuck"}]
  /\ cancelled \in BOOLEAN /\ failed \in BOOLEAN

(* firstSwarmManager is set when a goroutine reads its address: a wakeup   *)
(* comes only after the swarm exists. (A nil here would end the server.)   *)
ManagerIsKnown == \A m \in Members : MemberAt(m, "join") => first # None

(* However the goroutines interleave, one member at most starts a swarm    *)
(* and every other one joins that.                                         *)
OneSwarm == \A m \in Members : swarm[m] # None => swarm[m] = first

Returned == \A m \in Members : MemberAt(m, "done")

(* A SessionSetup that reports success has made one swarm of all its       *)
(* managers and workers, the first manager in it.                          *)
SuccessIsWhole ==
  Returned /\ ~failed =>
    /\ \A m \in Managers \cup Workers : swarm[m] # None
    /\ \A m \in Members : exec[m] = "none"

(* Once a swarm exists every goroutine returns, whatever fails from then   *)
(* on: nobody misses the broadcast.                                        *)
SwarmReleasesAll == first # None ~> Returned

(* pwd/session.go: "ctx.Done() could be called if the errgroup is          *)
(* cancelled due to a previous error. In that case, return immediately".   *)
ErrorReleasesAll == cancelled ~> Returned
=============================================================================
