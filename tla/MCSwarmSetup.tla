---------------------------- MODULE MCSwarmSetup ----------------------------
(* Two managers and two workers; a manager and a worker have a command.    *)
EXTENDS SwarmSetup
CONSTANTS m1, m2, w1, w2
MCMembers == {m1, m2, w1, w2}
MCManagers == {m1, m2}
MCWorkers == {w1, w2}
MCRunning == {m1, w1}
=============================================================================
