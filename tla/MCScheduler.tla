---------------------------- MODULE MCScheduler ----------------------------
EXTENDS Scheduler, TLC
CONSTANTS r1, r2, s1, c1, c2, c3
MCRequests == {r1, r2}
MCOneRequest == {r1}
MCSessions == {s1}
MCContainers == {c1, c2}
MCOneContainer == {c1}
MCThreeContainers == {c1, c2, c3}
MCSessionOf == [c \in Containers |-> s1]
MCStacked == {s1}
MCSymmetry == Permutations({r1, r2})

(* One failing call or one death of the process, at any point; after a     *)
(* failing call no stack is deployed (the run of one request has both).    *)
OneFailure ==
    /\ faults + crashes <= 1
    /\ faults = 0 \/ \A w \in Requests : job[w].op # "stack"
=============================================================================
